------------------------------ MODULE EdgeIntake ------------------------------
(***************************************************************************)
(* Who acts on alerts: operators whose requests carry a token, and the     *)
(* worker of edge-sync-svc's intake queue, which forwards to the same      *)
(* route what was done offline.  The route belongs to alert-svc, see       *)
(* AlertTriage, and lets nobody pass who is not verified as an analyst or  *)
(* above.  The worker itself sets no token (intakeQueue.ts:51); what its   *)
(* requests reach alert-svc with is a parameter, so that what the worker   *)
(* makes of an answer is there too.                                        *)
(***************************************************************************)
EXTENDS AlertTriage, Access

CONSTANTS
    Tokens,       \* the tokens operators hold
    WorkerTokens, \* what may stand in the Authorization header of a forward when it
                  \* reaches alert-svc: None, unless something at ALERT_SVC_URL adds it
    Jobs,         \* alert-ack jobs
    Offline,      \* what each job asks: an alert and an action
    MaxStalled    \* BullMQ: how often a job may be taken from a worker that died

ASSUME IntakeAssumption ==
    /\ None \notin Tokens \cup Requests
    /\ \A t \in Tokens : t.good \in BOOLEAN /\ t.subject \in Operators
    /\ WorkerTokens \subseteq Tokens \cup {None}
    /\ Offline \in [Jobs -> [alert: Alerts, action: Actions]]
    /\ MaxStalled \in Nat

VARIABLES
    bearer,       \* the token each request came with
    queue,        \* each job: "unmade", "waiting", "active", "completed" or "failed",
                  \* the forward its worker awaits, and how often it stalled
    \* History:
    sent,         \* the requests that were made for each job
    unheard       \* how many times its worker died or a forward of it threw

intakeVars == <<bearer, queue, sent, unheard>>
allVars == <<vars, intakeVars>>

IntakeInit ==
    /\ Init
    /\ bearer = [r \in Requests |-> None]
    /\ queue = [j \in Jobs |-> [state |-> "unmade", request |-> None, stalled |-> 0]]
    /\ sent = [j \in Jobs |-> {}]
    /\ unheard = [j \in Jobs |-> 0]

------------------------------------------------------------------------------
\* POST /api/v1/alerts/:id/actions.  The operator of the action is the token's
\* subject, whoever the body names; a request refused changes nothing.
Admitted(token) == Admission(token # None, token, "analyst+") = "pass"

Ask(r, a, action, token) ==
    /\ Admitted(token)
    /\ Make(r, a, action, token.subject)
    /\ bearer' = [bearer EXCEPT ![r] = token]

\* An operator asks.
AskOnline(r, a, action, token) ==
    Ask(r, a, action, token) /\ UNCHANGED <<queue, sent, unheard>>

\* POST /sync/intake: the job is queued without attempts or backoff.
Queue(j) ==
    /\ queue[j].state = "unmade"
    /\ queue' = [queue EXCEPT ![j].state = "waiting"]
    /\ UNCHANGED <<vars, bearer, sent, unheard>>

\* BullMQ gives the worker the next job.
Take(j) ==
    /\ queue[j].state = "waiting"
    /\ \A other \in Jobs : queue[other].state # "active"
    /\ queue' = [queue EXCEPT ![j].state = "active"]
    /\ UNCHANGED <<vars, bearer, sent, unheard>>

\* The action is forwarded, and passes...
Forward(j, r, token) ==
    /\ queue[j].state = "active" /\ queue[j].request = None
    /\ Ask(r, Offline[j].alert, Offline[j].action, token)
    /\ queue' = [queue EXCEPT ![j].request = r]
    /\ sent' = [sent EXCEPT ![j] = @ \cup {r}]
    /\ UNCHANGED unheard

\* ...or is refused with 401 or 403, neither 2xx nor 404: the job throws, and its one
\* attempt is used up.
ForwardRefused(j, token) ==
    /\ queue[j].state = "active" /\ queue[j].request = None
    /\ ~Admitted(token)
    /\ queue' = [queue EXCEPT ![j].state = "failed"]
    /\ UNCHANGED <<vars, bearer, sent, unheard>>

\* The fetch throws, for alert-svc is not reached or its answer is not: so does the
\* job.
ForwardThrows(j) ==
    /\ queue[j].state = "active"
    /\ queue' = [queue EXCEPT ![j].state = "failed", ![j].request = None]
    /\ unheard' = [unheard EXCEPT ![j] = @ + 1]
    /\ UNCHANGED <<vars, bearer, sent>>

\* Bug: an answer of any status will do.
AnsweredUnchecked(j) ==
    /\ queue[j].state = "active" /\ queue[j].request # None
    /\ pc[queue[j].request] \in {"answered", "notFound", "error"}
    /\ queue' = [queue EXCEPT ![j].state = "completed", ![j].request = None]
    /\ UNCHANGED <<vars, bearer, sent, unheard>>

\* alert-svc answers the forward: with 2xx or 404 the job is done, with 500 it throws.
Answered(j) ==
    /\ queue[j].state = "active" /\ queue[j].request # None
    /\ \/ /\ pc[queue[j].request] \in {"answered", "notFound"}
          /\ queue' = [queue EXCEPT ![j].state = "completed", ![j].request = None]
       \/ /\ pc[queue[j].request] = "error"
          /\ queue' = [queue EXCEPT ![j].state = "failed", ![j].request = None]
    /\ UNCHANGED <<vars, bearer, sent, unheard>>

\* edge-sync-svc dies with a job in hand: it is given out again, or given up.  What was
\* forwarded goes on in alert-svc.
Stall(j) ==
    /\ queue[j].state = "active"
    /\ queue' = [queue EXCEPT ![j].state = IF queue[j].stalled < MaxStalled THEN "waiting" ELSE "failed",
                              ![j].request = None,
                              ![j].stalled = @ + 1]
    /\ unheard' = [unheard EXCEPT ![j] = @ + 1]
    /\ UNCHANGED <<vars, bearer, sent>>

IntakeNext ==
    \/ \E a \in Alerts : Create(a) /\ UNCHANGED intakeVars
    \/ \E r \in Requests, a \in Alerts, action \in Actions, t \in Tokens : AskOnline(r, a, action, t)
    \/ \E r \in Requests : Handle(r) /\ UNCHANGED intakeVars
    \/ \E j \in Jobs :
          \/ Queue(j) \/ Take(j) \/ ForwardThrows(j) \/ Answered(j) \/ Stall(j)
          \/ \E t \in WorkerTokens : ForwardRefused(j, t) \/ \E r \in Requests : Forward(j, r, t)

IntakeSpec == IntakeInit /\ [][IntakeNext]_allVars

------------------------------------------------------------------------------
\* No alert is acted on but by a bearer whose token is good and holds a role that
\* may, and the log names the token's subject.
OnlyEntitled ==
    \A r \in ToSet(applied) \cup ToSet(log) :
        /\ bearer[r] # None /\ bearer[r].good
        /\ bearer[r].roles \cap {"Analyst", "Commander", "SuperAdmin"} # {}
        /\ request[r].operator = bearer[r].subject

\* A job of the intake queue is done only when alert-svc has logged the very action the
\* operator took offline, or does not know the alert (intakeQueue.ts:57); and that action
\* changes the alert once, and once more at most for each time the worker died or had no
\* answer.
OfflineIsDone ==
    \A j \in Jobs :
        /\ queue[j].state = "completed" =>
              \E r \in sent[j] : /\ pc[r] = "notFound" \/ r \in ToSet(log)
                                 /\ request[r].alert = Offline[j].alert
                                 /\ request[r].action = Offline[j].action
        /\ Cardinality(sent[j] \cap ToSet(applied)) <= unheard[j] + 1
===============================================================================
