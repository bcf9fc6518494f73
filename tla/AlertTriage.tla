----------------------------- MODULE AlertTriage -----------------------------
(***************************************************************************)
(* Operators acknowledge, escalate and dismiss alerts.  applyAlertAction   *)
(* looks the alert up, updates its row and then appends to alert_actions,  *)
(* three statements without a transaction; requests run side by side.      *)
(***************************************************************************)
EXTENDS Naturals, FiniteSets, Sequences, SequencesExt

CONSTANTS
    Alerts,
    Operators,
    Requests,     \* requests to act on an alert
    None,
    MaxFailures   \* bound: requests broken off by a failing statement or a crash

ASSUME TriageAssumption ==
    /\ None \notin Operators \cup Alerts
    /\ MaxFailures \in Nat

VARIABLES
    alerts,       \* the alerts table: status and acknowledged_by of each row
    log,          \* alert_actions: the request each row was inserted by
    request,      \* what each request asks
    pc,           \* where each request stands
    failures,
    \* History:
    applied,      \* the requests that updated their row, in that order
    before        \* <<r, s>>: r had been answered when s was made

vars == <<alerts, log, request, pc, failures, applied, before>>

Status == [ACKNOWLEDGE |-> "ACKNOWLEDGED", ESCALATE |-> "ESCALATED", DISMISS |-> "DISMISSED"]
Actions == DOMAIN Status
Row == [status: {"OPEN", "ACKNOWLEDGED", "ESCALATED", "DISMISSED"}, ackBy: Operators \cup {None}]
NoAlert == [status |-> "none", ackBy |-> None]
NoRequest == [alert |-> None]

TypeOK ==
    /\ alerts \in [Alerts -> Row \cup {NoAlert}]
    /\ log \in Seq(Requests)
    /\ request \in [Requests -> [alert: Alerts, action: Actions, operator: Operators] \cup {NoRequest}]
    /\ pc \in [Requests -> {"unmade", "select", "update", "insert", "answered", "notFound", "error"}]
    /\ failures \in 0..MaxFailures
    /\ applied \in Seq(Requests)
    /\ before \subseteq Requests \X Requests

Init ==
    /\ alerts = [a \in Alerts |-> NoAlert]
    /\ log = <<>>
    /\ request = [r \in Requests |-> NoRequest]
    /\ pc = [r \in Requests |-> "unmade"]
    /\ failures = 0
    /\ applied = <<>>
    /\ before = {}

------------------------------------------------------------------------------
\* createAlert by the worker.
Create(a) ==
    /\ alerts[a] = NoAlert
    /\ alerts' = [alerts EXCEPT ![a] = [status |-> "OPEN", ackBy |-> None]]
    /\ UNCHANGED <<log, request, pc, failures, applied, before>>

Make(r, a, action, op) ==
    /\ pc[r] = "unmade"
    /\ request' = [request EXCEPT ![r] = [alert |-> a, action |-> action, operator |-> op]]
    /\ pc' = [pc EXCEPT ![r] = "select"]
    /\ before' = before \cup {<<q, r>> : q \in {q \in Requests : pc[q] = "answered"}}
    /\ UNCHANGED <<alerts, log, failures, applied>>

\* getAlert.
Select(r) ==
    /\ pc[r] = "select"
    /\ pc' = [pc EXCEPT ![r] = IF alerts[request[r].alert] = NoAlert THEN "notFound" ELSE "update"]
    /\ UNCHANGED <<alerts, log, request, failures, applied, before>>

\* Bug: acknowledged_by is written by every action.
AfterAlways(row, req) == [status |-> Status[req.action], ackBy |-> req.operator]

\* What an action makes of a row.
After(row, req) ==
    [status |-> Status[req.action],
     ackBy |-> IF req.action = "ACKNOWLEDGE" THEN req.operator ELSE row.ackBy]

Update(r) ==
    LET req == request[r] IN
    /\ pc[r] = "update"
    /\ alerts' = [alerts EXCEPT ![req.alert] = After(@, req)]
    /\ applied' = Append(applied, r)
    /\ pc' = [pc EXCEPT ![r] = "insert"]
    /\ UNCHANGED <<log, request, failures, before>>

\* INSERT INTO alert_actions, and the answer.
Insert(r) ==
    /\ pc[r] = "insert"
    /\ log' = Append(log, r)
    /\ pc' = [pc EXCEPT ![r] = "answered"]
    /\ UNCHANGED <<alerts, request, failures, applied, before>>

\* A statement throws, or alert-svc dies: what was written stays.
BreakOff(r) ==
    /\ pc[r] \in {"select", "update", "insert"}
    /\ failures < MaxFailures
    /\ failures' = failures + 1
    /\ pc' = [pc EXCEPT ![r] = "error"]
    /\ UNCHANGED <<alerts, log, request, applied, before>>

\* Bug: the insert is not awaited.
HandleNotAwaited(r) ==
    \/ Select(r) \/ Update(r)
    \/ /\ pc[r] = "insert"
       /\ pc' = [pc EXCEPT ![r] = "answered"]
       /\ UNCHANGED <<alerts, log, request, failures, applied, before>>
    \/ /\ pc[r] = "answered" /\ r \notin ToSet(log)
       /\ log' = Append(log, r)
       /\ UNCHANGED <<alerts, request, pc, failures, applied, before>>

Handle(r) == Select(r) \/ Update(r) \/ Insert(r) \/ BreakOff(r)

Next ==
    \/ \E a \in Alerts : Create(a)
    \/ \E r \in Requests, a \in Alerts, action \in Actions, op \in Operators : Make(r, a, action, op)
    \/ \E r \in Requests : Handle(r)

Spec == Init /\ [][Next]_vars

------------------------------------------------------------------------------
\* The log holds no action that did not change its alert, none twice, and every
\* action an operator was told of; requests that did not overlap are in order.
LogIsTrue ==
    /\ \A i, j \in DOMAIN log : log[i] = log[j] => i = j
    /\ ToSet(log) \subseteq ToSet(applied)
    /\ \A r \in Requests : pc[r] = "answered" => r \in ToSet(log)
    /\ \A i, j \in DOMAIN log : i < j => <<log[j], log[i]>> \notin before

\* However the requests overlap, acknowledged_by names the operator whose
\* acknowledgement updated the row last, though the log, written in a statement of its
\* own, may end with another's: escalating or dismissing afterwards does not take it over.
AcknowledgedByLast ==
    \A a \in Alerts :
        LET acks == {i \in DOMAIN applied : /\ request[applied[i]].alert = a
                                           /\ request[applied[i]].action = "ACKNOWLEDGE"}
        IN  /\ acks = {} => alerts[a].ackBy = None
            /\ \A i \in acks :
                  (\A j \in acks : j <= i) => alerts[a].ackBy = request[applied[i]].operator
==============================================================================
