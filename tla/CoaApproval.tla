----------------------------- MODULE CoaApproval -----------------------------
(***************************************************************************)
(* Courses of action from generation to decision.  coa-svc stores a COA    *)
(* once the options of the language model pass the gates.  Commanders then *)
(* approve or reject it: the row is updated, whatever it said before, then *)
(* the entry is POSTed to audit-svc, which appends it to the audit log,    *)
(* then the commander is answered.  Requests run side by side, the POST or *)
(* its answer may be lost, and coa-svc may die.                            *)
(*                                                                         *)
(* A request is made once; a commander who tries again makes another one.  *)
(***************************************************************************)
EXTENDS Naturals, FiniteSets, Sequences, SequencesExt

CONSTANTS
    Coas,
    Requests,     \* the approve and reject requests
    Ranks,        \* the option ranks a commander may send
    None,
    MaxFailures,  \* bound: POSTs to audit-svc that fail or whose answer is lost
    MaxCrashes    \* bound: crashes of coa-svc

ASSUME CoaAssumption ==
    /\ None \notin Ranks \cup Coas \cup Requests
    /\ {MaxFailures, MaxCrashes} \subseteq Nat

VARIABLES
    coas,       \* the coas table
    request,    \* what each request asks
    pc,         \* where each request stands
    audit,      \* audit_log: the request each entry tells of
    failures, crashes,
    \* History:
    before      \* <<r, s>>: r had been answered when s was made

vars == <<coas, request, pc, audit, failures, crashes, before>>

Decisions == [status: {"APPROVED"}, option: Ranks] \cup [status: {"REJECTED"}, option: {None}]
NoCoa == [status |-> "none", option |-> None]
Proposed == [status |-> "PENDING", option |-> None]
NoRequest == [coa |-> None, decision |-> NoCoa]

TypeOK ==
    /\ coas \in [Coas -> Decisions \cup {NoCoa, Proposed}]
    /\ request \in [Requests -> [coa: Coas, decision: Decisions] \cup {NoRequest}]
    /\ pc \in [Requests -> {"unmade", "decide", "audit", "answer", "ok", "notFound", "error"}]
    /\ audit \in Seq(Requests)
    /\ failures \in 0..MaxFailures
    /\ crashes \in 0..MaxCrashes
    /\ before \subseteq Requests \X Requests

Init ==
    /\ coas = [c \in Coas |-> NoCoa]
    /\ request = [r \in Requests |-> NoRequest]
    /\ pc = [r \in Requests |-> "unmade"]
    /\ audit = <<>>
    /\ failures = 0
    /\ crashes = 0
    /\ before = {}

------------------------------------------------------------------------------
\* generateCoa ends in insertCoa; without options that pass the gates it throws
\* and nothing is stored.
Generate(c) ==
    /\ coas[c] = NoCoa
    /\ coas' = [coas EXCEPT ![c] = Proposed]
    /\ UNCHANGED <<request, pc, audit, failures, crashes, before>>

\* A commander approves or rejects a COA, be it there or not.
Make(r, c, d) ==
    /\ pc[r] = "unmade"
    /\ request' = [request EXCEPT ![r] = [coa |-> c, decision |-> d]]
    /\ pc' = [pc EXCEPT ![r] = "decide"]
    /\ before' = before \cup {<<q, r>> : q \in {q \in Requests : pc[q] = "ok"}}
    /\ UNCHANGED <<coas, audit, failures, crashes>>

\* Bug: only a pending COA is changed, but every decision is taken for made.
DecidePending(r) ==
    LET c == request[r].coa IN
    /\ pc[r] = "decide"
    /\ coas' = [coas EXCEPT ![c] = IF @ = Proposed THEN request[r].decision ELSE @]
    /\ pc' = [pc EXCEPT ![r] = IF coas[c] = NoCoa THEN "notFound" ELSE "audit"]
    /\ UNCHANGED <<request, audit, failures, crashes, before>>

\* decideCoa.
Decide(r) ==
    LET c == request[r].coa IN
    /\ pc[r] = "decide"
    /\ \/ /\ coas[c] = NoCoa
          /\ pc' = [pc EXCEPT ![r] = "notFound"]
          /\ UNCHANGED <<coas>>
       \/ /\ coas[c] # NoCoa
          /\ coas' = [coas EXCEPT ![c] = request[r].decision]
          /\ pc' = [pc EXCEPT ![r] = "audit"]
    /\ UNCHANGED <<request, audit, failures, crashes, before>>

\* insertAuditEntry in audit-svc.
WriteEntry(r) ==
    /\ pc[r] = "audit"
    /\ audit' = Append(audit, r)
    /\ pc' = [pc EXCEPT ![r] = "answer"]
    /\ UNCHANGED <<coas, request, failures, crashes, before>>

\* auditClient.write returns and the commander sees the decision.
Answer(r) ==
    /\ pc[r] = "answer"
    /\ pc' = [pc EXCEPT ![r] = "ok"]
    /\ UNCHANGED <<coas, request, audit, failures, crashes, before>>

\* The POST is refused, or the entry is written and the answer lost: the handler
\* throws, the commander gets an error, and the row stays as it is.
AuditFails(r) ==
    /\ pc[r] \in {"audit", "answer"}
    /\ failures < MaxFailures
    /\ failures' = failures + 1
    /\ pc' = [pc EXCEPT ![r] = "error"]
    /\ UNCHANGED <<coas, request, audit, crashes, before>>

\* coa-svc dies: every request under way is broken off.  One that waits for
\* audit-svc may still be written.
Crash ==
    /\ crashes < MaxCrashes
    /\ crashes' = crashes + 1
    /\ \E written \in SUBSET {r \in Requests : pc[r] = "audit"} :
          audit' \in {audit \o s : s \in SetToSeqs(written)}
    /\ pc' = [r \in Requests |-> IF pc[r] \in {"decide", "audit", "answer"} THEN "error" ELSE pc[r]]
    /\ UNCHANGED <<coas, request, failures, before>>

\* Bug: the audit write is not awaited, the commander is answered before it.
HandleNotAwaited(r) ==
    \/ Decide(r)
    \/ /\ pc[r] = "audit"
       /\ pc' = [pc EXCEPT ![r] = "ok"]
       /\ UNCHANGED <<coas, request, audit, failures, crashes, before>>
    \/ /\ pc[r] = "ok" /\ r \notin ToSet(audit)
       /\ audit' = Append(audit, r)
       /\ UNCHANGED <<coas, request, pc, failures, crashes, before>>

Handle(r) == Decide(r) \/ WriteEntry(r) \/ Answer(r) \/ AuditFails(r)

Next ==
    \/ \E c \in Coas : Generate(c)
    \/ \E r \in Requests, c \in Coas, d \in Decisions : Make(r, c, d)
    \/ \E r \in Requests : Handle(r)
    \/ Crash

Spec == Init /\ [][Next]_vars

------------------------------------------------------------------------------
Audited(r) == r \in ToSet(audit)

\* The trail tells of nothing that did not happen, and of nothing twice: an entry
\* belongs to a request that changed its row.  It has every decision a commander
\* was told of, however the requests overlap and whatever fails later, for the
\* answer comes after the entry; and decisions that were made one after the other
\* are in it in that order.
TrailIsTrue ==
    /\ \A i, j \in DOMAIN audit : audit[i] = audit[j] => i = j
    /\ \A r \in Requests : Audited(r) => coas[request[r].coa].status \in {"APPROVED", "REJECTED"}
    /\ \A r \in Requests : pc[r] = "ok" => Audited(r)
    /\ \A i, j \in DOMAIN audit : i < j => <<audit[j], audit[i]>> \notin before

\* Where the decisions on a COA were made one after the other and none of them
\* broke off, the last entry of the trail is the decision in force.
TrailEndsInForce ==
    \A c \in Coas :
        LET entries == {i \in DOMAIN audit : request[audit[i]].coa = c}
        IN  (\A r \in Requests : request[r].coa = c => pc[r] \notin {"audit", "answer", "error"})
            => \A last \in entries :
                  (\A i \in entries \ {last} : i < last /\ <<audit[i], audit[last]>> \in before)
                  => coas[c] = request[audit[last]].decision
==============================================================================
