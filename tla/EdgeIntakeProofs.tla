--------------------------- MODULE EdgeIntakeProofs ---------------------------
(***************************************************************************)
(* What acting as the highest role a token holds comes to, and what it is  *)
(* worth at the route that acts on alerts: for any operators, tokens,      *)
(* requests and jobs, however the requests overlap and wherever they break *)
(* off.                                                                    *)
(***************************************************************************)
EXTENDS EdgeIntake, FiniteSetTheorems, TLAPS

\* Of any roles one ranks highest, so that pickPrimaryRole finds it.
LEMMA HighestHeld ==
    ASSUME NEW held \in SUBSET Roles, held # {}
    PROVE  \E r \in held : \A q \in held : Rank(r) <= Rank(q)
<1>1. ASSUME NEW r \in held, \A q \in held : Rank(r) <= Rank(q)
      PROVE  \E s \in held : \A q \in held : Rank(s) <= Rank(q)
  BY <1>1
<1>2. CASE "SuperAdmin" \in held
  <2>1. \A q \in held : Rank("SuperAdmin") <= Rank(q)
    BY DEF Rank, Roles
  <2>2. QED
    BY <1>1, <1>2, <2>1
<1>3. CASE "SuperAdmin" \notin held /\ "Commander" \in held
  <2>1. \A q \in held : Rank("Commander") <= Rank(q)
    BY <1>3 DEF Rank, Roles
  <2>2. QED
    BY <1>1, <1>3, <2>1
<1>4. CASE "SuperAdmin" \notin held /\ "Commander" \notin held /\ "LogisticsOfficer" \in held
  <2>1. \A q \in held : Rank("LogisticsOfficer") <= Rank(q)
    BY <1>4 DEF Rank, Roles
  <2>2. QED
    BY <1>1, <1>4, <2>1
<1>5. CASE held \subseteq {"Analyst", "FieldOperator", "Viewer"} /\ "Analyst" \in held
  <2>1. \A q \in held : Rank("Analyst") <= Rank(q)
    BY <1>5 DEF Rank
  <2>2. QED
    BY <1>1, <1>5, <2>1
<1>6. CASE held \subseteq {"FieldOperator", "Viewer"} /\ "FieldOperator" \in held
  <2>1. \A q \in held : Rank("FieldOperator") <= Rank(q)
    BY <1>6 DEF Rank
  <2>2. QED
    BY <1>1, <1>6, <2>1
<1>7. CASE held = {"Viewer"}
  <2>1. \A q \in held : Rank("Viewer") <= Rank(q)
    BY <1>7 DEF Rank
  <2>2. QED
    BY <1>1, <1>7, <2>1
<1>8. QED
  BY <1>2, <1>3, <1>4, <1>5, <1>6, <1>7 DEF Roles

\* The role a bearer acts as is one of the token's, and none it holds ranks higher.
LEMMA PrimaryIsHighest ==
    ASSUME NEW roles, roles \cap Roles # {}
    PROVE  /\ Primary(roles) \in roles \cap Roles
           /\ \A q \in roles \cap Roles : Rank(Primary(roles)) <= Rank(q)
<1>1. \E r \in roles \cap Roles : \A q \in roles \cap Roles : Rank(r) <= Rank(q)
  BY HighestHeld
<1>2. QED
  BY <1>1 DEF Primary

\* What a role may do, every role that ranks as high may do, except that a logistics
\* officer may not do what takes an analyst.
LEMMA HigherMayMore ==
    ASSUME NEW p \in Roles, NEW r \in Roles, Rank(p) <= Rank(r),
           NEW requirement, r \in Allows(requirement),
           ~(requirement = "analyst+" /\ r = "Analyst" /\ p = "LogisticsOfficer")
    PROVE  p \in Allows(requirement)
<1>1. CASE p \in {"SuperAdmin", "Viewer"}
  BY <1>1 DEF Rank, Roles, Allows
<1>2. CASE p \in {"Commander", "FieldOperator"}
  BY <1>2 DEF Rank, Roles, Allows
<1>3. CASE p = "LogisticsOfficer"
  BY <1>3 DEF Rank, Roles, Allows
<1>4. CASE p = "Analyst"
  BY <1>4 DEF Rank, Roles, Allows
<1>5. QED
  BY <1>1, <1>2, <1>3, <1>4 DEF Roles

\* jwt.ts:29 calls every requireRole() a minimum bar: a role more never takes
\* anything away.  That holds but for one pair: a logistics officer who is an
\* analyst too acts as the former and is refused what analyst+ guards.
THEOREM MinimumBar ==
    ASSUME NEW roles, NEW r \in roles \cap Roles, NEW requirement, r \in Allows(requirement),
           ~(requirement = "analyst+" /\ r = "Analyst" /\ Primary(roles) = "LogisticsOfficer")
    PROVE  Primary(roles) \in Allows(requirement)
<1>1. Primary(roles) \in Roles /\ Rank(Primary(roles)) <= Rank(r)
  BY PrimaryIsHighest
<1>2. QED
  BY <1>1, HigherMayMore

------------------------------------------------------------------------------
\* What requireRole("analyst+") asks of a token.
Passing(token) == Admission(TRUE, token, "analyst+") = "pass"

\* What it lets pass is good and holds a role that may.
LEMMA PassIsEntitled ==
    ASSUME NEW token, Passing(token)
    PROVE  token.good /\ token.roles \cap {"Analyst", "Commander", "SuperAdmin"} # {}
<1>1. /\ token.good
      /\ Primary(token.roles) # NoRole
      /\ Primary(token.roles) \in Allows("analyst+")
  BY DEF Passing, Admission, Verified
<1>2. token.roles \cap Roles # {}
  BY <1>1 DEF Primary
<1>3. Primary(token.roles) \in token.roles
  BY <1>2, PrimaryIsHighest
<1>4. Primary(token.roles) \in {"Analyst", "Commander", "SuperAdmin"}
  BY <1>1 DEF Allows, Roles
<1> QED BY <1>1, <1>3, <1>4

\* What appending does to a sequence without repetitions and to its elements.
LEMMA Appended ==
    ASSUME NEW S, NEW s \in Seq(S), NEW x \in S
    PROVE  /\ Append(s, x) \in Seq(S)
           /\ DOMAIN s = 1..Len(s) /\ Len(s) \in Nat
           /\ DOMAIN Append(s, x) = 1..(Len(s) + 1)
           /\ \A i \in 1..Len(s) : Append(s, x)[i] = s[i]
           /\ Append(s, x)[Len(s) + 1] = x
           /\ ToSet(Append(s, x)) = ToSet(s) \cup {x}
<1>1. /\ Append(s, x) \in Seq(S)
      /\ DOMAIN s = 1..Len(s) /\ Len(s) \in Nat
      /\ DOMAIN Append(s, x) = 1..(Len(s) + 1)
      /\ \A i \in 1..Len(s) : Append(s, x)[i] = s[i]
      /\ Append(s, x)[Len(s) + 1] = x
  OBVIOUS
<1>2. ToSet(Append(s, x)) = ToSet(s) \cup {x}
  <2>1. ASSUME NEW y \in ToSet(Append(s, x)) PROVE y \in ToSet(s) \cup {x}
    BY <1>1, <2>1 DEF ToSet
  <2>2. ASSUME NEW y \in ToSet(s) PROVE y \in ToSet(Append(s, x))
    BY <1>1, <2>2 DEF ToSet
  <2>3. x \in ToSet(Append(s, x))
    BY <1>1 DEF ToSet
  <2> QED BY <2>1, <2>2, <2>3
<1> QED BY <1>1, <1>2

------------------------------------------------------------------------------
Made(r) == pc[r] # "unmade"

\* What a request has done tells from where it stands, but for one that broke off.
Standing ==
    /\ \A r \in Requests : Made(r) => request[r].alert \in Alerts
    /\ \A r \in Requests : pc[r] = "update" => alerts[request[r].alert] # NoAlert
    /\ \A r \in Requests : pc[r] \in {"insert", "answered"} => r \in ToSet(applied)
    /\ \A r \in ToSet(applied) :
          pc[r] \in {"insert", "answered", "error"} /\ alerts[request[r].alert] # NoAlert
    /\ \A r \in Requests : r \in ToSet(log) <=> pc[r] = "answered"
    /\ \A r, s \in Requests : <<r, s>> \in before => pc[r] = "answered"

\* The log as LogIsTrue has it, position by position.
LogInOrder ==
    /\ \A i, j \in DOMAIN log : log[i] = log[j] => i = j
    /\ \A i, j \in DOMAIN log : i < j => <<log[j], log[i]>> \notin before

\* Nobody's request is made but with a token that passes, as that token's subject.
Passed ==
    \A r \in Requests : Made(r) =>
        /\ bearer[r] \in Tokens
        /\ Passing(bearer[r])
        /\ request[r].operator = bearer[r].subject

\* The acknowledgements of an alert, by their place in the order of the updates.
Acks(a) == {i \in DOMAIN applied : /\ request[applied[i]].alert = a
                                   /\ request[applied[i]].action = "ACKNOWLEDGE"}

\* acknowledged_by of one alert.
AckedByLast(a) ==
    /\ Acks(a) = {} => alerts[a].ackBy = None
    /\ \A i \in Acks(a) :
          (\A j \in Acks(a) : j <= i) => alerts[a].ackBy = request[applied[i]].operator

\* Inductive: what the log and the rows show rests on where each request stands
\* between its three statements.
TriageInv == TypeOK /\ Standing /\ LogInOrder /\ \A a \in Alerts : AckedByLast(a)

\* At first there is no alert, no request and no log.
LEMMA TriageInit == Init => TriageInv
<1> SUFFICES ASSUME Init PROVE TriageInv
  OBVIOUS
<1>1. TypeOK
  BY TriageAssumption DEF Init, TypeOK, TriageAssumption
<1>2. ToSet(applied) = {} /\ ToSet(log) = {} /\ DOMAIN applied = {} /\ DOMAIN log = {}
  BY DEF Init, ToSet
<1>3. Standing /\ LogInOrder
  BY <1>2 DEF Init, Standing, LogInOrder, Made
<1>4. ASSUME NEW a \in Alerts PROVE AckedByLast(a)
  <2>1. Acks(a) = {} /\ alerts[a].ackBy = None
    BY <1>2 DEF Acks, Init, NoAlert
  <2> QED BY <2>1 DEF AckedByLast
<1> QED BY <1>1, <1>3, <1>4 DEF TriageInv

\* An alert that is created has not been acted on.
LEMMA CreateInv == ASSUME TriageInv, NEW a \in Alerts, Create(a) PROVE TriageInv'
<1> DEFINE row == [status |-> "OPEN", ackBy |-> None]
<1>1. /\ row \in Row
      /\ \A b \in Alerts : alerts'[b] = IF b = a THEN row ELSE alerts[b]
      /\ row # NoAlert
  BY DEF TriageInv, TypeOK, Create, Row, NoAlert
<1>2. TypeOK'
  BY <1>1 DEF TriageInv, TypeOK, Create
<1>3. \A b \in Alerts : alerts'[b].ackBy = alerts[b].ackBy
  BY <1>1 DEF Create, NoAlert
<1>4. Standing'
  BY <1>1 DEF TriageInv, TypeOK, Standing, Create, Made
<1>5. \A b \in Alerts : AckedByLast(b)'
  BY <1>3 DEF TriageInv, AckedByLast, Acks, Create
<1> QED BY <1>2, <1>4, <1>5 DEF TriageInv, LogInOrder, Create

\* A request that is made has done nothing yet, and nobody asked before it what it asks.
LEMMA MakeInv ==
    ASSUME TriageInv, NEW r \in Requests, NEW a \in Alerts, NEW action \in Actions,
           NEW op \in Operators, Make(r, a, action, op)
    PROVE  TriageInv'
<1> DEFINE asked == [alert |-> a, action |-> action, operator |-> op]
<1>1. /\ \A q \in Requests : request'[q] = IF q = r THEN asked ELSE request[q]
      /\ \A q \in Requests : pc'[q] = IF q = r THEN "select" ELSE pc[q]
  BY DEF TriageInv, TypeOK, Make
<1>2. r \notin ToSet(applied) /\ r \notin ToSet(log)
  BY DEF TriageInv, Standing, Make
<1>3. ToSet(applied) \subseteq Requests /\ ToSet(log) \subseteq Requests
  BY DEF TriageInv, TypeOK, ToSet
<1>4. TypeOK'
  BY DEF TriageInv, TypeOK, Make
<1>5. Standing'
  <2>1. \A q \in Requests : Made(q)' => request'[q].alert \in Alerts
    BY <1>1 DEF TriageInv, Standing, Made
  <2>2. \A q \in Requests : pc'[q] = "update" => alerts'[request'[q].alert] # NoAlert
    BY <1>1 DEF TriageInv, Standing, Make
  <2>3. \A q \in ToSet(applied) : pc'[q] = pc[q] /\ request'[q] = request[q]
    BY <1>1, <1>2, <1>3
  <2>4. \A q, s \in Requests : <<q, s>> \in before' => pc'[q] = "answered"
    BY <1>1 DEF TriageInv, Standing, Make
  <2> QED BY <1>1, <1>2, <2>1, <2>2, <2>3, <2>4 DEF TriageInv, Standing, Make
<1>6. LogInOrder'
  <2>1. ASSUME NEW i \in DOMAIN log, NEW j \in DOMAIN log, i < j
        PROVE  <<log[j], log[i]>> \notin before'
    <3>1. log[i] \in ToSet(log) /\ <<log[j], log[i]>> \notin before
      BY <2>1 DEF TriageInv, LogInOrder, ToSet
    <3> QED BY <1>2, <3>1 DEF Make
  <2> QED BY <2>1 DEF TriageInv, LogInOrder, Make
<1>7. \A b \in Alerts : AckedByLast(b)'
  <2>1. \A i \in DOMAIN applied : request'[applied[i]] = request[applied[i]]
    BY <1>1, <1>2, <1>3 DEF ToSet
  <2>2. \A b \in Alerts : Acks(b)' = Acks(b)
    BY <2>1 DEF Acks, Make
  <2> QED BY <2>1, <2>2 DEF TriageInv, AckedByLast, Acks, Make
<1> QED BY <1>4, <1>5, <1>6, <1>7 DEF TriageInv

\* The lookup, and a request that breaks off, write nothing.
LEMMA SelectOrBreakOffInv ==
    ASSUME TriageInv, NEW r \in Requests, Select(r) \/ BreakOff(r) PROVE TriageInv'
<1>1. /\ \A q \in Requests \ {r} : pc'[q] = pc[q]
      /\ pc[r] \in {"select", "update", "insert"}
      /\ pc'[r] \in {"update", "notFound", "error"}
      /\ pc'[r] = "update" => pc[r] = "select" /\ alerts[request[r].alert] # NoAlert
      /\ pc[r] = "insert" => pc'[r] = "error"
      /\ pc'[r] = "notFound" => pc[r] = "select"
  BY DEF TriageInv, TypeOK, Select, BreakOff
<1>2. UNCHANGED <<alerts, log, request, applied, before>>
  BY DEF Select, BreakOff
<1>3. TypeOK'
  <2>1. failures' \in 0..MaxFailures
    <3>1. failures \in 0..MaxFailures /\ MaxFailures \in Nat
      BY TriageAssumption DEF TriageInv, TypeOK, TriageAssumption
    <3> QED BY <3>1 DEF Select, BreakOff
  <2>2. pc' \in [Requests -> {"unmade", "select", "update", "insert", "answered",
                             "notFound", "error"}]
    <3>1. CASE Select(r)
      BY <3>1 DEF TriageInv, TypeOK, Select
    <3>2. CASE BreakOff(r)
      BY <3>2 DEF TriageInv, TypeOK, BreakOff
    <3> QED BY <3>1, <3>2
  <2> QED BY <1>2, <2>1, <2>2 DEF TriageInv, TypeOK
<1>4. Standing'
  <2>1. ToSet(applied) \subseteq Requests
    BY DEF TriageInv, TypeOK, ToSet
  <2>2. \A q \in ToSet(applied) : pc'[q] \in {"insert", "answered", "error"}
    BY <1>1, <2>1 DEF TriageInv, Standing
  <2> QED BY <1>1, <1>2, <2>1, <2>2 DEF TriageInv, Standing, Made
<1>5. \A b \in Alerts : AckedByLast(b)'
  BY <1>2 DEF TriageInv, AckedByLast, Acks
<1> QED BY <1>2, <1>3, <1>4, <1>5 DEF TriageInv, LogInOrder

\* The row is updated in the order of applied.
LEMMA UpdateInv == ASSUME TriageInv, NEW r \in Requests, Update(r) PROVE TriageInv'
<1> DEFINE a == request[r].alert
           n == Len(applied)
<1>1. /\ a \in Alerts /\ request[r].operator \in Operators /\ request[r].action \in Actions
      /\ alerts[a] \in Row
      /\ applied \in Seq(Requests) /\ log \in Seq(Requests)
  BY TriageAssumption DEF TriageInv, TypeOK, Standing, Made, Update, NoRequest, TriageAssumption
<1>2. /\ applied' \in Seq(Requests)
      /\ DOMAIN applied = 1..n /\ n \in Nat
      /\ DOMAIN applied' = 1..(n + 1)
      /\ \A i \in 1..n : applied'[i] = applied[i]
      /\ applied'[n + 1] = r
      /\ ToSet(applied') = ToSet(applied) \cup {r}
  BY <1>1, Appended DEF Update
<1>3. /\ \A q \in Requests : pc'[q] = IF q = r THEN "insert" ELSE pc[q]
      /\ \A b \in Alerts : alerts'[b] = IF b = a THEN After(alerts[a], request[r]) ELSE alerts[b]
  BY <1>1 DEF TriageInv, TypeOK, Update
<1>4. After(alerts[a], request[r]) \in Row /\ After(alerts[a], request[r]) # NoAlert
  BY <1>1 DEF After, Row, Status, Actions, NoAlert
<1>5. TypeOK'
  BY <1>1, <1>2, <1>4 DEF TriageInv, TypeOK, Update
<1>6. Standing'
  <2>1. ToSet(applied) \subseteq Requests
    BY <1>1 DEF ToSet
  <2> QED BY <1>1, <1>2, <1>3, <1>4, <2>1 DEF TriageInv, Standing, Made, Update
<1>7. ASSUME NEW b \in Alerts PROVE AckedByLast(b)'
  <2>1. Acks(b)' = Acks(b) \cup
          (IF b = a /\ request[r].action = "ACKNOWLEDGE" THEN {n + 1} ELSE {})
    BY <1>2 DEF Acks, Update
  <2>2. Acks(b) \subseteq 1..n /\ AckedByLast(b)
    BY <1>2 DEF Acks, TriageInv
  <2>3. CASE b = a /\ request[r].action = "ACKNOWLEDGE"
    <3>1. alerts'[b].ackBy = request[r].operator /\ n + 1 \in Acks(b)'
      BY <1>3, <2>1, <2>3 DEF After
    <3>2. ASSUME NEW i \in Acks(b)', \A j \in Acks(b)' : j <= i PROVE i = n + 1
      BY <1>2, <2>1, <2>2, <2>3, <3>1, <3>2
    <3> QED BY <1>2, <3>1, <3>2 DEF AckedByLast, Update
  <2>4. CASE ~(b = a /\ request[r].action = "ACKNOWLEDGE")
    <3>1. alerts'[b].ackBy = alerts[b].ackBy /\ Acks(b)' = Acks(b)
      BY <1>3, <2>1, <2>4 DEF After
    <3> QED BY <1>2, <2>2, <3>1 DEF AckedByLast, Update
  <2> QED BY <2>3, <2>4
<1> QED BY <1>5, <1>6, <1>7 DEF TriageInv, LogInOrder, Update

\* The row of the log is inserted, and the request answered.
LEMMA InsertInv == ASSUME TriageInv, NEW r \in Requests, Insert(r) PROVE TriageInv'
<1> DEFINE n == Len(log)
<1>1. log \in Seq(Requests)
  BY DEF TriageInv, TypeOK
<1>2. /\ log' \in Seq(Requests)
      /\ DOMAIN log = 1..n /\ n \in Nat
      /\ DOMAIN log' = 1..(n + 1)
      /\ \A i \in 1..n : log'[i] = log[i]
      /\ log'[n + 1] = r
      /\ ToSet(log') = ToSet(log) \cup {r}
  BY <1>1, Appended DEF Insert
<1>3. \A q \in Requests : pc'[q] = IF q = r THEN "answered" ELSE pc[q]
  BY DEF TriageInv, TypeOK, Insert
<1>4. pc[r] = "insert" /\ r \notin ToSet(log) /\ \A s \in Requests : <<r, s>> \notin before
  BY DEF TriageInv, Standing, Insert
<1>5. TypeOK'
  BY <1>2 DEF TriageInv, TypeOK, Insert
<1>6. Standing'
  BY <1>2, <1>3, <1>4 DEF TriageInv, Standing, Made, Insert
<1>7. LogInOrder'
  <2>1. \A i \in 1..n : log[i] \in Requests /\ log[i] # r
    BY <1>1, <1>2, <1>4 DEF ToSet
  <2>2. ASSUME NEW i \in DOMAIN log', NEW j \in DOMAIN log', log'[i] = log'[j] PROVE i = j
    BY <1>2, <2>1, <2>2 DEF TriageInv, LogInOrder
  <2>3. ASSUME NEW i \in DOMAIN log', NEW j \in DOMAIN log', i < j
        PROVE  <<log'[j], log'[i]>> \notin before
    BY <1>2, <1>4, <2>1, <2>3 DEF TriageInv, LogInOrder
  <2> QED BY <2>2, <2>3 DEF LogInOrder, Insert
<1>8. \A b \in Alerts : AckedByLast(b)'
  BY DEF TriageInv, AckedByLast, Acks, Insert
<1> QED BY <1>5, <1>6, <1>7, <1>8 DEF TriageInv

\* Every request, whatever it carries, keeps the invariant.
LEMMA HandleInv == ASSUME TriageInv, NEW r \in Requests, Handle(r) PROVE TriageInv'
BY SelectOrBreakOffInv, UpdateInv, InsertInv DEF Handle

\* Nothing that leaves alert-svc alone breaks it.
LEMMA TriageUnchanged == ASSUME TriageInv, UNCHANGED vars PROVE TriageInv'
<1>1. \A b \in Alerts : AckedByLast(b)'
  BY DEF TriageInv, AckedByLast, Acks, vars
<1>2. TypeOK'
  BY DEF TriageInv, TypeOK, vars
<1>3. Standing'
  BY DEF TriageInv, Standing, Made, vars
<1> QED BY <1>1, <1>2, <1>3 DEF TriageInv, LogInOrder, vars

------------------------------------------------------------------------------
\* A forward is one of the job's action, and every one before the last went unheard.
JobsTried ==
    /\ queue \in [Jobs -> [state: {"unmade", "waiting", "active", "completed", "failed"},
                           request: Requests \cup {None}, stalled: Nat]]
    /\ unheard \in [Jobs -> Nat]
    /\ \A j \in Jobs :
          /\ sent[j] \subseteq Requests /\ IsFiniteSet(sent[j])
          /\ \A r \in sent[j] : /\ Made(r)
                                /\ request[r].alert = Offline[j].alert
                                /\ request[r].action = Offline[j].action
          /\ queue[j].request # None => queue[j].state = "active" /\ queue[j].request \in sent[j]
          /\ queue[j].state = "completed" =>
                \E r \in sent[j] : pc[r] \in {"notFound", "answered"}
          /\ Cardinality(sent[j]) <= unheard[j] + 1
          /\ queue[j].state \in {"unmade", "waiting", "active"} /\ queue[j].request = None =>
                Cardinality(sent[j]) <= unheard[j]

IntakeInv ==
    /\ TriageInv
    /\ bearer \in [Requests -> Tokens \cup {None}]
    /\ sent \in [Jobs -> SUBSET Requests]
    /\ Passed
    /\ JobsTried

\* No request is made and no job queued at first.
LEMMA IntakeInitInv == IntakeInit => IntakeInv
<1> SUFFICES ASSUME IntakeInit PROVE IntakeInv
  OBVIOUS
<1>1. Passed /\ bearer \in [Requests -> Tokens \cup {None}]
  BY DEF IntakeInit, Init, Passed, Made
<1>2. IsFiniteSet({}) /\ Cardinality({}) = 0
  BY FS_EmptySet
<1>3. JobsTried /\ sent \in [Jobs -> SUBSET Requests]
  BY <1>2 DEF IntakeInit, JobsTried
<1> QED BY <1>1, <1>3, TriageInit DEF IntakeInv, IntakeInit

\* Whoever asks passes.
LEMMA AskInv ==
    ASSUME IntakeInv, NEW r \in Requests, NEW a \in Alerts, NEW action \in Actions,
           NEW t \in Tokens, Ask(r, a, action, t)
    PROVE  /\ TriageInv'
           /\ bearer' \in [Requests -> Tokens \cup {None}]
           /\ Passed'
           /\ ~Made(r) /\ Made(r)'
           /\ request'[r].alert = a /\ request'[r].action = action
           /\ \A q \in Requests \ {r} : pc'[q] = pc[q] /\ request'[q] = request[q]
<1>1. t.subject \in Operators /\ Passing(t)
  BY IntakeAssumption DEF IntakeAssumption, Ask, Admitted, Passing
<1>2. TriageInv'
  BY <1>1, MakeInv DEF IntakeInv, Ask
<1>3. /\ \A q \in Requests : pc'[q] = IF q = r THEN "select" ELSE pc[q]
      /\ \A q \in Requests : request'[q] =
            IF q = r THEN [alert |-> a, action |-> action, operator |-> t.subject] ELSE request[q]
      /\ \A q \in Requests : bearer'[q] = IF q = r THEN t ELSE bearer[q]
      /\ pc[r] = "unmade"
  BY DEF IntakeInv, TriageInv, TypeOK, Ask, Make
<1>4. ASSUME NEW q \in Requests, Made(q)'
      PROVE  /\ bearer'[q] \in Tokens
             /\ Passing(bearer'[q])
             /\ request'[q].operator = bearer'[q].subject
  <2>1. CASE q = r
    BY <1>1, <1>3, <2>1
  <2>2. CASE q # r
    BY <1>3, <1>4, <2>2 DEF IntakeInv, Passed, Made
  <2> QED BY <2>1, <2>2
<1>5. bearer' \in [Requests -> Tokens \cup {None}]
  BY DEF IntakeInv, Ask
<1>6. Passed'
  BY <1>4 DEF Passed
<1> QED BY <1>2, <1>3, <1>5, <1>6 DEF Made

\* Jobs, when what they wait for moves on.
LEMMA JobsElsewhere ==
    ASSUME IntakeInv, UNCHANGED <<queue, sent, unheard>>,
           \A r \in Requests : Made(r) =>
              /\ Made(r)' /\ request'[r] = request[r]
              /\ pc[r] \in {"notFound", "answered"} => pc'[r] = pc[r]
    PROVE  JobsTried' /\ sent' \in [Jobs -> SUBSET Requests]
BY DEF IntakeInv, JobsTried

\* The queue's steps that ask alert-svc for nothing.
LEMMA QueueInv ==
    ASSUME IntakeInv, NEW j \in Jobs,
           \/ Queue(j) \/ Take(j) \/ ForwardThrows(j) \/ Answered(j) \/ Stall(j)
           \/ \E t \in WorkerTokens : ForwardRefused(j, t)
    PROVE  IntakeInv'
<1> USE IntakeAssumption DEF IntakeAssumption
<1>1. UNCHANGED <<vars, bearer, sent>>
  BY DEF Queue, Take, ForwardThrows, Answered, Stall, ForwardRefused
<1>2. TriageInv' /\ Passed'
  BY <1>1, TriageUnchanged DEF IntakeInv, Passed, Made, vars
<1>3. /\ queue[j] \in [state: {"unmade", "waiting", "active", "completed", "failed"},
                       request: Requests \cup {None}, stalled: Nat]
      /\ unheard[j] \in Nat /\ Cardinality(sent[j]) \in Nat
      /\ Cardinality(sent[j]) <= unheard[j] + 1
      /\ queue[j].state \in {"unmade", "waiting", "active"} /\ queue[j].request = None =>
            Cardinality(sent[j]) <= unheard[j]
      /\ queue[j].request # None => queue[j].state = "active" /\ queue[j].request \in sent[j]
  BY FS_CardinalityType DEF IntakeInv, JobsTried
<1>4. /\ \A i \in Jobs \ {j} : queue'[i] = queue[i] /\ unheard'[i] = unheard[i]
      /\ queue' \in [Jobs -> [state: {"unmade", "waiting", "active", "completed", "failed"},
                              request: Requests \cup {None}, stalled: Nat]]
      /\ unheard' \in [Jobs -> Nat]
      /\ queue'[j].request = None
      /\ queue'[j].state = "completed" => pc[queue[j].request] \in {"notFound", "answered"}
                                          /\ queue[j].request # None
      /\ Cardinality(sent[j]) <= unheard'[j] + 1
      /\ queue'[j].state \in {"unmade", "waiting", "active"} => Cardinality(sent[j]) <= unheard'[j]
  <2>1. CASE Queue(j)
    BY <1>3, <2>1 DEF IntakeInv, JobsTried, Queue
  <2>2. CASE Take(j)
    BY <1>3, <2>2 DEF IntakeInv, JobsTried, Take
  <2>3. CASE ForwardThrows(j)
    <3>1. /\ queue' = [queue EXCEPT ![j].state = "failed", ![j].request = None]
          /\ unheard' = [unheard EXCEPT ![j] = @ + 1]
      BY <2>3 DEF ForwardThrows
    <3>2. /\ queue \in [Jobs -> [state: {"unmade", "waiting", "active", "completed", "failed"},
                                 request: Requests \cup {None}, stalled: Nat]]
          /\ unheard \in [Jobs -> Nat]
      BY DEF IntakeInv, JobsTried
    <3>3. unheard'[j] = unheard[j] + 1 /\ queue'[j].state = "failed" /\ queue'[j].request = None
      BY <3>1, <3>2
    <3>4. /\ \A i \in Jobs \ {j} : queue'[i] = queue[i] /\ unheard'[i] = unheard[i]
          /\ queue' \in [Jobs -> [state: {"unmade", "waiting", "active", "completed", "failed"},
                                  request: Requests \cup {None}, stalled: Nat]]
          /\ unheard' \in [Jobs -> Nat]
      <4>1. /\ unheard' \in [Jobs -> Nat]
            /\ \A i \in Jobs \ {j} : queue'[i] = queue[i] /\ unheard'[i] = unheard[i]
        BY <3>1, <3>2
      <4>4. queue' \in [Jobs -> [state: {"unmade", "waiting", "active", "completed", "failed"},
                                request: Requests \cup {None}, stalled: Nat]]
        <5>1. queue[j] \in [state: {"unmade", "waiting", "active", "completed", "failed"},
                            request: Requests \cup {None}, stalled: Nat]
          BY <3>2
        <5>2. [queue[j] EXCEPT !.state = "failed"] \in
                 [state: {"unmade", "waiting", "active", "completed", "failed"},
                  request: Requests \cup {None}, stalled: Nat]
          BY <5>1
        <5>3. [[queue[j] EXCEPT !.state = "failed"] EXCEPT !.request = None] \in
                 [state: {"unmade", "waiting", "active", "completed", "failed"},
                  request: Requests \cup {None}, stalled: Nat]
          BY <5>2
        <5>4. queue'[j] \in [state: {"unmade", "waiting", "active", "completed", "failed"},
                             request: Requests \cup {None}, stalled: Nat]
          BY <3>1, <3>2, <5>3
        <5> QED BY <3>1, <3>2, <5>4
      <4> QED BY <4>1, <4>4
    <3>5. Cardinality(sent[j]) <= unheard'[j] + 1
      BY <1>3, <3>3
    <3> QED BY <3>3, <3>4, <3>5
  <2>4. CASE Answered(j)
    BY <1>3, <2>4 DEF IntakeInv, JobsTried, Answered
  <2>5. CASE Stall(j)
    BY <1>3, <2>5 DEF IntakeInv, JobsTried, Stall
  <2>6. CASE \E t \in WorkerTokens : ForwardRefused(j, t)
    BY <1>3, <2>6 DEF IntakeInv, JobsTried, ForwardRefused
  <2> QED BY <2>1, <2>2, <2>3, <2>4, <2>5, <2>6
<1>5. JobsTried'
  <2>1. \A i \in Jobs \ {j} : queue'[i] = queue[i] /\ unheard'[i] = unheard[i]
    BY <1>4
  <2>2. queue'[j].state = "completed" => \E r \in sent[j] : pc[r] \in {"notFound", "answered"}
    BY <1>3, <1>4
  <2>3. \A i \in Jobs :
          /\ sent'[i] \subseteq Requests /\ IsFiniteSet(sent'[i])
          /\ \A r \in sent'[i] : /\ Made(r)'
                                 /\ request'[r].alert = Offline[i].alert
                                 /\ request'[r].action = Offline[i].action
    BY <1>1 DEF IntakeInv, JobsTried, Made, vars
  <2> QED BY <1>1, <1>4, <2>1, <2>2, <2>3 DEF IntakeInv, JobsTried, vars
<1> QED BY <1>1, <1>2, <1>5 DEF IntakeInv

\* A forward is the first, or follows on one that went unheard.
LEMMA ForwardInv ==
    ASSUME IntakeInv, NEW j \in Jobs, NEW r \in Requests, NEW t \in WorkerTokens, Forward(j, r, t)
    PROVE  IntakeInv'
<1> USE IntakeAssumption DEF IntakeAssumption
<1>1. t \in Tokens
  BY DEF Forward, Ask, Admitted, Admission
<1>2. Offline[j].alert \in Alerts /\ Offline[j].action \in Actions
  OBVIOUS
<1>3. /\ TriageInv'
      /\ bearer' \in [Requests -> Tokens \cup {None}]
      /\ Passed'
      /\ ~Made(r) /\ Made(r)'
      /\ request'[r].alert = Offline[j].alert /\ request'[r].action = Offline[j].action
      /\ \A q \in Requests \ {r} : pc'[q] = pc[q] /\ request'[q] = request[q]
  BY <1>1, <1>2, AskInv DEF Forward
<1>4. /\ \A i \in Jobs \ {j} : queue'[i] = queue[i] /\ sent'[i] = sent[i]
      /\ queue' \in [Jobs -> [state: {"unmade", "waiting", "active", "completed", "failed"},
                              request: Requests \cup {None}, stalled: Nat]]
      /\ queue'[j].request = r /\ queue'[j].state = "active"
      /\ sent'[j] = sent[j] \cup {r}
      /\ sent' \in [Jobs -> SUBSET Requests]
      /\ UNCHANGED unheard
      /\ queue[j].state = "active" /\ queue[j].request = None
  BY DEF IntakeInv, JobsTried, Forward
<1>5. /\ IsFiniteSet(sent'[j])
      /\ Cardinality(sent'[j]) <= unheard'[j] + 1
  <2>1. IsFiniteSet(sent[j]) /\ Cardinality(sent[j]) <= unheard[j] /\ unheard[j] \in Nat
    BY <1>4 DEF IntakeInv, JobsTried
  <2>2. /\ IsFiniteSet(sent[j] \cup {r})
        /\ Cardinality(sent[j] \cup {r}) = Cardinality(sent[j])
           \/ Cardinality(sent[j] \cup {r}) = Cardinality(sent[j]) + 1
    BY <2>1, FS_AddElement
  <2>3. Cardinality(sent[j]) \in Nat
    BY <2>1, FS_CardinalityType
  <2> QED BY <1>4, <2>1, <2>2, <2>3
<1>6. \A i \in Jobs : \A q \in sent[i] : q \in Requests \ {r}
  BY <1>3 DEF IntakeInv, JobsTried
<1>7. ASSUME NEW i \in Jobs
      PROVE  \A q \in sent'[i] : /\ Made(q)'
                                 /\ request'[q].alert = Offline[i].alert
                                 /\ request'[q].action = Offline[i].action
  <2>1. \A q \in sent[i] : /\ Made(q)'
                           /\ request'[q].alert = Offline[i].alert
                           /\ request'[q].action = Offline[i].action
    BY <1>3, <1>6 DEF IntakeInv, JobsTried, Made
  <2> QED BY <1>3, <1>4, <2>1
<1>8. ASSUME NEW i \in Jobs \ {j}, queue[i].state = "completed"
      PROVE  \E q \in sent'[i] : pc'[q] \in {"notFound", "answered"}
  <2>1. PICK q \in sent[i] : pc[q] \in {"notFound", "answered"}
    BY <1>8 DEF IntakeInv, JobsTried
  <2> QED BY <1>3, <1>4, <1>6, <2>1
<1>9. JobsTried'
  <2>1. ASSUME NEW i \in Jobs
        PROVE  /\ sent'[i] \subseteq Requests /\ IsFiniteSet(sent'[i])
               /\ queue'[i].request # None =>
                     queue'[i].state = "active" /\ queue'[i].request \in sent'[i]
               /\ queue'[i].state = "completed" =>
                     \E q \in sent'[i] : pc'[q] \in {"notFound", "answered"}
               /\ Cardinality(sent'[i]) <= unheard'[i] + 1
               /\ queue'[i].state \in {"unmade", "waiting", "active"} /\ queue'[i].request = None =>
                     Cardinality(sent'[i]) <= unheard'[i]
    <3>1. CASE i = j
      BY <1>4, <1>5, <3>1
    <3>2. CASE i # j
      BY <1>4, <1>8, <3>2 DEF IntakeInv, JobsTried
    <3> QED BY <3>1, <3>2
  <2> QED BY <1>4, <1>7, <2>1 DEF IntakeInv, JobsTried
<1> QED BY <1>3, <1>4, <1>9 DEF IntakeInv

\* Every step keeps the invariant.
LEMMA IntakeNextInv == IntakeInv /\ [IntakeNext]_allVars => IntakeInv'
<1> SUFFICES ASSUME IntakeInv, [IntakeNext]_allVars PROVE IntakeInv'
  OBVIOUS
<1>1. ASSUME NEW a \in Alerts, Create(a), UNCHANGED intakeVars PROVE IntakeInv'
  <2>1. JobsTried' /\ sent' \in [Jobs -> SUBSET Requests]
    BY <1>1, JobsElsewhere DEF Create, Made, intakeVars
  <2> QED BY <1>1, <2>1, CreateInv DEF IntakeInv, intakeVars, Create, Passed, Made
<1>2. ASSUME NEW r \in Requests, NEW a \in Alerts, NEW action \in Actions, NEW t \in Tokens,
             AskOnline(r, a, action, t)
      PROVE  IntakeInv'
  <2>1. /\ TriageInv'
        /\ bearer' \in [Requests -> Tokens \cup {None}]
        /\ Passed'
        /\ ~Made(r)
        /\ \A q \in Requests \ {r} : pc'[q] = pc[q] /\ request'[q] = request[q]
    BY <1>2, AskInv DEF AskOnline
  <2>2. JobsTried' /\ sent' \in [Jobs -> SUBSET Requests]
    BY <1>2, <2>1, JobsElsewhere DEF AskOnline, Made
  <2> QED BY <2>1, <2>2 DEF IntakeInv
<1>3. ASSUME NEW r \in Requests, Handle(r), UNCHANGED intakeVars PROVE IntakeInv'
  <2>1. /\ request' = request
        /\ \A q \in Requests : Made(q)' <=> Made(q)
        /\ \A q \in Requests : pc[q] \in {"notFound", "answered"} => pc'[q] = pc[q]
    BY <1>3 DEF IntakeInv, TriageInv, TypeOK, Made, Handle, Select, Update, Insert, BreakOff
  <2>2. JobsTried' /\ sent' \in [Jobs -> SUBSET Requests]
    BY <1>3, <2>1, JobsElsewhere DEF intakeVars
  <2> QED BY <1>3, <2>1, <2>2, HandleInv DEF IntakeInv, intakeVars, Passed
<1>4. ASSUME NEW j \in Jobs,
             \/ Queue(j) \/ Take(j) \/ ForwardThrows(j) \/ Answered(j) \/ Stall(j)
             \/ \E t \in WorkerTokens : ForwardRefused(j, t) \/ \E r \in Requests : Forward(j, r, t)
      PROVE  IntakeInv'
  BY <1>4, QueueInv, ForwardInv
<1>5. CASE UNCHANGED allVars
  <2>1. JobsTried' /\ sent' \in [Jobs -> SUBSET Requests]
    BY <1>5, JobsElsewhere DEF allVars, intakeVars, vars, Made
  <2> QED BY <1>5, <2>1, TriageUnchanged DEF IntakeInv, allVars, intakeVars, vars, Passed, Made
<1> QED BY <1>1, <1>2, <1>3, <1>4, <1>5 DEF IntakeNext

\* The invariant holds in every state.
LEMMA IntakeInvAlways == IntakeSpec => []IntakeInv
BY IntakeInitInv, IntakeNextInv, PTL DEF IntakeSpec

------------------------------------------------------------------------------
\* Tokens and the queue add nothing to what may happen to alerts and their log: every
\* step of EdgeIntake is one of applyAlertAction's as AlertTriage has them, or none.  The
\* operator is one of Operators for a token's subject is (IntakeAssumption).
THEOREM IntakeTriages == IntakeSpec => Spec
<1>1. IntakeInit => Init
  BY DEF IntakeInit
<1>2. ASSUME [IntakeNext]_allVars PROVE [Next]_vars
  <2>1. ASSUME NEW a \in Alerts, Create(a) PROVE Next
    BY <2>1 DEF Next
  <2>2. ASSUME NEW r \in Requests, NEW a \in Alerts, NEW action \in Actions, NEW t \in Tokens,
               Ask(r, a, action, t)
        PROVE  Next
    <3>1. t.subject \in Operators /\ Make(r, a, action, t.subject)
      BY <2>2, IntakeAssumption DEF IntakeAssumption, Ask
    <3> QED BY <3>1 DEF Next
  <2>6. ASSUME NEW j \in Jobs, NEW r \in Requests, NEW t \in WorkerTokens, Forward(j, r, t)
        PROVE  Next
    <3>1. t \in Tokens /\ Offline[j].alert \in Alerts /\ Offline[j].action \in Actions
      BY <2>6, IntakeAssumption DEF IntakeAssumption, Forward, Ask, Admitted, Admission
    <3> QED BY <2>2, <2>6, <3>1 DEF Forward
  <2>3. ASSUME NEW r \in Requests, Handle(r) PROVE Next
    BY <2>3 DEF Next
  <2>4. ASSUME NEW j \in Jobs,
               \/ Queue(j) \/ Take(j) \/ ForwardThrows(j) \/ Answered(j) \/ Stall(j)
               \/ \E t \in WorkerTokens : ForwardRefused(j, t)
        PROVE  UNCHANGED vars
    BY <2>4 DEF Queue, Take, ForwardThrows, Answered, Stall, ForwardRefused
  <2>5. CASE UNCHANGED allVars
    BY <2>5 DEF allVars
  <2> QED BY <1>2, <2>1, <2>2, <2>3, <2>4, <2>5, <2>6 DEF IntakeNext, AskOnline
<1> QED BY <1>1, <1>2, PTL DEF IntakeSpec, Spec

\* However requests overlap and break off, alert_actions holds what was done, once,
\* and in the order of requests that did not overlap (applyAlertAction).
THEOREM LogTells == IntakeSpec => []LogIsTrue
<1>1. IntakeInv => LogIsTrue
  <2> SUFFICES ASSUME IntakeInv PROVE LogIsTrue
    OBVIOUS
  <2>1. ToSet(log) \subseteq Requests
    BY DEF IntakeInv, TriageInv, TypeOK, ToSet
  <2> QED BY <2>1 DEF IntakeInv, TriageInv, Standing, LogInOrder, LogIsTrue
<1> QED BY <1>1, IntakeInvAlways, PTL

\* acknowledged_by names the operator of the last acknowledgement that updated the row,
\* whatever was done to the alert since (applyAlertAction's UPDATE).  The log may end
\* with another's, for it is written in a statement of its own.
THEOREM AckStands == IntakeSpec => []AcknowledgedByLast
<1>1. IntakeInv => AcknowledgedByLast
  BY DEF IntakeInv, TriageInv, AcknowledgedByLast, AckedByLast, Acks
<1> QED BY <1>1, IntakeInvAlways, PTL

\* Whoever's action changed an alert, or is in the log, had a good token with a role
\* that may act, and is named by it (requireRole at the alert routes).
THEOREM Entitled == IntakeSpec => []OnlyEntitled
<1>1. IntakeInv => OnlyEntitled
  <2> SUFFICES ASSUME IntakeInv, NEW r \in ToSet(applied) \cup ToSet(log)
               PROVE  /\ bearer[r] # None /\ bearer[r].good
                      /\ bearer[r].roles \cap {"Analyst", "Commander", "SuperAdmin"} # {}
                      /\ request[r].operator = bearer[r].subject
    BY DEF OnlyEntitled
  <2>1. r \in Requests
    BY DEF IntakeInv, TriageInv, TypeOK, ToSet
  <2>2. Made(r)
    BY <2>1 DEF IntakeInv, TriageInv, Standing, Made
  <2>3. /\ bearer[r] \in Tokens
        /\ Passing(bearer[r])
        /\ request[r].operator = bearer[r].subject
    BY <2>1, <2>2 DEF IntakeInv, Passed
  <2> QED BY <2>3, PassIsEntitled, IntakeAssumption DEF IntakeAssumption
<1> QED BY <1>1, IntakeInvAlways, PTL

\* What the intake queue reports as done, alert-svc has logged or does not know; and an
\* offline action changes an alert no more often than its worker died or heard nothing,
\* and once (intakeQueue.ts).
THEOREM OfflineDone == IntakeSpec => []OfflineIsDone
<1>1. IntakeInv => OfflineIsDone
  <2> SUFFICES ASSUME IntakeInv, NEW j \in Jobs
               PROVE  /\ queue[j].state = "completed" =>
                            \E r \in sent[j] : /\ pc[r] = "notFound" \/ r \in ToSet(log)
                                               /\ request[r].alert = Offline[j].alert
                                               /\ request[r].action = Offline[j].action
                      /\ Cardinality(sent[j] \cap ToSet(applied)) <= unheard[j] + 1
    BY DEF OfflineIsDone
  <2>1. \A r \in Requests : pc[r] = "answered" => r \in ToSet(log)
    BY DEF IntakeInv, TriageInv, Standing
  <2>2. ASSUME queue[j].state = "completed"
        PROVE  \E r \in sent[j] : /\ pc[r] = "notFound" \/ r \in ToSet(log)
                                  /\ request[r].alert = Offline[j].alert
                                  /\ request[r].action = Offline[j].action
    <3>1. PICK r \in sent[j] : pc[r] \in {"notFound", "answered"}
      BY <2>2 DEF IntakeInv, JobsTried
    <3>2. r \in Requests /\ request[r].alert = Offline[j].alert
                         /\ request[r].action = Offline[j].action
      BY <3>1 DEF IntakeInv, JobsTried
    <3> QED BY <2>1, <3>1, <3>2
  <2>3. IsFiniteSet(sent[j]) /\ Cardinality(sent[j]) <= unheard[j] + 1 /\ unheard[j] \in Nat
    BY DEF IntakeInv, JobsTried
  <2>4. /\ Cardinality(sent[j] \cap ToSet(applied)) <= Cardinality(sent[j])
        /\ IsFiniteSet(sent[j] \cap ToSet(applied))
    BY <2>3, FS_Subset
  <2>5. Cardinality(sent[j]) \in Nat /\ Cardinality(sent[j] \cap ToSet(applied)) \in Nat
    BY <2>3, <2>4, FS_CardinalityType
  <2> QED BY <2>2, <2>3, <2>4, <2>5
<1> QED BY <1>1, IntakeInvAlways, PTL

\* As the worker is, its forwards carry no token (intakeQueue.ts:51) and nothing done
\* offline arrives: the contrary of what intakeQueue.ts:4 promises.
THEOREM NothingArrives ==
    ASSUME WorkerTokens = {None}
    PROVE  IntakeSpec => [](\A j \in Jobs : sent[j] = {} /\ queue[j].state # "completed")
<1> DEFINE Inv == \A j \in Jobs : sent[j] = {} /\ queue[j].state # "completed"
<1>1. IntakeInit => Inv
  BY DEF IntakeInit
<1>2. IntakeInv /\ Inv /\ [IntakeNext]_allVars => Inv'
  <2> SUFFICES ASSUME IntakeInv, Inv, [IntakeNext]_allVars PROVE Inv'
    OBVIOUS
  <2>1. CASE UNCHANGED <<queue, sent>>
    BY <2>1
  <2>2. ASSUME NEW j \in Jobs, NEW r \in Requests, NEW t \in WorkerTokens PROVE ~Forward(j, r, t)
    BY DEF Forward, Ask, Admitted, Admission
  <2>3. ASSUME NEW j \in Jobs PROVE ~Answered(j)
    <3>1. queue[j].request = None
      BY DEF IntakeInv, JobsTried
    <3> QED BY <3>1 DEF Answered
  <2>4. ASSUME NEW j \in Jobs,
               \/ Queue(j) \/ Take(j) \/ ForwardThrows(j) \/ Stall(j)
               \/ \E t \in WorkerTokens : ForwardRefused(j, t)
        PROVE  Inv'
    <3>1. UNCHANGED sent /\ \A i \in Jobs : queue'[i].state = "completed" => queue[i].state = "completed"
      BY <2>4 DEF IntakeInv, JobsTried, Queue, Take, ForwardThrows, Stall, ForwardRefused
    <3> QED BY <3>1
  <2> QED BY <2>1, <2>2, <2>3, <2>4 DEF IntakeNext, AskOnline, allVars, intakeVars
<1> QED BY <1>1, <1>2, IntakeInvAlways, PTL DEF IntakeSpec
===============================================================================
