-------------------------- MODULE CoaGenerationProofs --------------------------
(***************************************************************************)
(* The audit trail of the decisions, the doctrine a course of action rests *)
(* on and the options the edge stores, for any courses of action, requests,*)
(* chunks, thresholds and runs of the script, and however they overlap,    *)
(* fail and are broken off by crashes.                                     *)
(***************************************************************************)
EXTENDS CoaGeneration, FiniteSetTheorems, SequenceTheorems, TLAPS

\* The row a request asks about was decided, and the request has not broken off.
Deciding == {"audit", "answer", "ok"}

\* What a request has done tells from where it stands, but for one that broke off.
Standing ==
    /\ \A r \in Requests : pc[r] # "unmade" => request[r] \in [coa: Coas, decision: Decisions]
    /\ \A r \in Requests : pc[r] \in Deciding => coas[request[r].coa] \in Decisions
    /\ \A k \in DOMAIN audit :
          pc[audit[k]] \in {"answer", "ok", "error"} /\ coas[request[audit[k]].coa] \in Decisions
    /\ \A r \in Requests : pc[r] \in {"answer", "ok"} => Audited(r)
    /\ \A r, s \in Requests : <<r, s>> \in before => pc[r] = "ok"

\* The trail as TrailIsTrue has it, entry by entry.
TrailInOrder ==
    /\ \A i, j \in DOMAIN audit : audit[i] = audit[j] => i = j
    /\ \A i, j \in DOMAIN audit : i < j => <<audit[j], audit[i]>> \notin before

\* The decision in force is r's, and whoever decided on the COA too, and did not
\* break off, had not waited for r's answer.
InForce(r, c) ==
    /\ pc[r] \in Deciding \cup {"error"}
    /\ request[r].coa = c
    /\ request[r].decision = coas[c]
    /\ \A q \in Requests : (request[q].coa = c /\ pc[q] \in Deciding) => <<r, q>> \notin before

SomeoneDecided ==
    \A c \in Coas : coas[c] \in Decisions => \E r \in Requests : InForce(r, c)

\* A crash may write the entries of all requests that wait: they are finitely many.
MadeFinite == IsFiniteSet({r \in Requests : pc[r] # "unmade"})

\* Inductive: which decision is in force the rows do not tell, hence InForce; and the
\* trail is appended to a step after the row it is about was changed.
ApprovalInv == TypeOK /\ Standing /\ TrailInOrder /\ SomeoneDecided /\ MadeFinite

\* The bounds are natural numbers.
LEMMA Bounds == None \notin Coas /\ MaxFailures \in Nat /\ MaxCrashes \in Nat
BY CoaAssumption DEF CoaAssumption

\* At first nothing is generated, asked or written.
LEMMA ApprovalInit == Init => ApprovalInv
<1> SUFFICES ASSUME Init PROVE ApprovalInv
  OBVIOUS
<1>1. TypeOK
  BY Bounds DEF Init, TypeOK
<1>2. DOMAIN audit = {}
  BY DEF Init
<1>3. Standing /\ TrailInOrder
  BY <1>2 DEF Init, Standing, TrailInOrder, Deciding
<1>4. SomeoneDecided
  BY DEF Init, SomeoneDecided, Decisions, NoCoa
<1>5. MadeFinite
  <2>1. {r \in Requests : pc[r] # "unmade"} = {}
    BY DEF Init
  <2> QED BY <2>1, FS_EmptySet DEF MadeFinite
<1> QED BY <1>1, <1>3, <1>4, <1>5 DEF ApprovalInv

\* Entries of requests that wait for audit-svc, each of them once, extend the trail.
LEMMA EntriesAdded ==
    ASSUME ApprovalInv, NEW s \in Seq(Requests), audit' = audit \o s,
           \A i, j \in 1..Len(s) : s[i] = s[j] => i = j,
           \A i \in 1..Len(s) : pc[s[i]] = "audit"
    PROVE  /\ audit' \in Seq(Requests)
           /\ \A i, j \in DOMAIN audit' : audit'[i] = audit'[j] => i = j
           /\ \A i, j \in DOMAIN audit' : i < j => <<audit'[j], audit'[i]>> \notin before
           /\ \A k \in DOMAIN audit' : \/ pc[audit'[k]] = "audit"
                                       \/ \E i \in DOMAIN audit : audit'[k] = audit[i]
           /\ \A r \in Requests : Audited(r) => r \in ToSet(audit')
           /\ \A i \in 1..Len(s) : s[i] \in ToSet(audit')
<1> DEFINE n == Len(audit)
           m == Len(s)
<1>1. audit \in Seq(Requests)
  BY DEF ApprovalInv, TypeOK
<1>2. /\ n \in Nat /\ m \in Nat /\ DOMAIN audit = 1..n
      /\ \A i \in 1..m : s[i] \in Requests /\ pc[s[i]] = "audit"
      /\ \A i, j \in 1..m : s[i] = s[j] => i = j
  BY <1>1, LenProperties
<1>3. /\ audit' \in Seq(Requests)
      /\ DOMAIN audit' = 1..(n + m)
      /\ \A i \in 1..n : audit'[i] = audit[i]
      /\ \A i \in (n + 1)..(n + m) : i - n \in 1..m /\ audit'[i] = s[i - n]
  BY <1>1, <1>2, ConcatProperties, LenProperties
<1>4. \A i \in 1..n : audit[i] \in Requests /\ pc[audit[i]] # "audit"
  <2> TAKE i \in 1..n
  <2>1. audit[i] \in Requests
    BY <1>1
  <2>2. pc[audit[i]] \in {"answer", "ok", "error"}
    BY <1>2 DEF ApprovalInv, Standing
  <2> QED BY <2>1, <2>2
<1> HIDE DEF n, m
<1>5. \A i \in (n + 1)..(n + m) : audit'[i] \in Requests /\ pc[audit'[i]] = "audit"
  BY <1>2, <1>3
<1>6. \A i \in 1..n : audit'[i] \in Requests /\ pc[audit'[i]] # "audit"
  BY <1>3, <1>4
<1>7. \A i \in DOMAIN audit' : i \in 1..n \/ i \in (n + 1)..(n + m)
  BY <1>2, <1>3
<1>8. ASSUME NEW i \in DOMAIN audit', NEW j \in DOMAIN audit', audit'[i] = audit'[j]
      PROVE  i = j
  <2>1. CASE i \in 1..n /\ j \in 1..n
    BY <1>2, <1>3, <1>8, <2>1 DEF ApprovalInv, TrailInOrder
  <2>2. CASE i \in (n + 1)..(n + m) /\ j \in (n + 1)..(n + m)
    BY <1>2, <1>3, <1>8, <2>2
  <2>3. CASE i \in 1..n /\ j \in (n + 1)..(n + m)
    BY <1>5, <1>6, <1>8, <2>3
  <2>4. CASE j \in 1..n /\ i \in (n + 1)..(n + m)
    BY <1>5, <1>6, <1>8, <2>4
  <2> QED BY <1>7, <2>1, <2>2, <2>3, <2>4
<1>9. ASSUME NEW i \in DOMAIN audit', NEW j \in DOMAIN audit', i < j
      PROVE  <<audit'[j], audit'[i]>> \notin before
  <2>1. CASE j \in 1..n
    BY <1>2, <1>3, <1>9, <2>1 DEF ApprovalInv, TrailInOrder
  <2>2. CASE j \in (n + 1)..(n + m)
    <3>1. audit'[j] \in Requests /\ audit'[i] \in Requests /\ pc[audit'[j]] = "audit"
      BY <1>5, <1>6, <1>7, <1>9, <2>2
    <3> QED BY <3>1 DEF ApprovalInv, Standing
  <2> QED BY <1>7, <2>1, <2>2
<1>10. \A k \in DOMAIN audit' : \/ pc[audit'[k]] = "audit"
                                \/ \E i \in DOMAIN audit : audit'[k] = audit[i]
  BY <1>2, <1>3, <1>5
<1>11. ASSUME NEW r \in Requests, Audited(r) PROVE r \in ToSet(audit')
  BY <1>2, <1>3, <1>11 DEF Audited, ToSet
<1>12. ASSUME NEW i \in 1..m PROVE s[i] \in ToSet(audit')
  <2>1. n + i \in (n + 1)..(n + m) /\ n + i \in DOMAIN audit' /\ (n + i) - n = i
    BY <1>2, <1>3
  <2>2. audit'[n + i] = s[i]
    BY <1>3, <2>1
  <2> QED BY <2>1, <2>2 DEF ToSet
<1> QED BY <1>3, <1>8, <1>9, <1>10, <1>11, <1>12 DEF m

\* Whoever's decision is in force keeps that while no row changes and nobody decides.
LEMMA StaysInForce ==
    ASSUME SomeoneDecided, UNCHANGED <<coas, request, before>>,
           \A q \in Requests : pc'[q] \in Deciding => pc[q] \in Deciding,
           \A q \in Requests : pc[q] \in Deciding \cup {"error"} => pc'[q] \in Deciding \cup {"error"}
    PROVE  SomeoneDecided'
BY DEF SomeoneDecided, InForce

\* A course of action is stored.
LEMMA GenerateInv == ASSUME ApprovalInv, NEW c \in Coas, Generate(c) PROVE ApprovalInv'
<1>1. /\ \A b \in Coas : coas'[b] = IF b = c THEN Proposed ELSE coas[b]
      /\ Proposed \notin Decisions /\ NoCoa \notin Decisions /\ coas[c] = NoCoa
  BY DEF ApprovalInv, TypeOK, Generate, Proposed, NoCoa, Decisions
<1>2. TypeOK'
  BY DEF ApprovalInv, TypeOK, Generate
<1>3. \A b \in Coas : coas[b] \in Decisions <=> coas'[b] \in Decisions
  BY <1>1
<1>4. \A b \in Coas : coas[b] \in Decisions => coas'[b] = coas[b]
  BY <1>1
<1>5. \A k \in DOMAIN audit : audit[k] \in Requests
  BY DEF ApprovalInv, TypeOK
<1>6. Standing'
  <2>1. \A r \in Requests : pc[r] # "unmade" => request[r].coa \in Coas
    BY DEF ApprovalInv, Standing
  <2> QED BY <1>3, <1>4, <1>5, <2>1 DEF ApprovalInv, Standing, Generate, Audited, Deciding
<1>7. SomeoneDecided'
  BY <1>3, <1>4 DEF ApprovalInv, SomeoneDecided, InForce, Generate
<1> QED BY <1>2, <1>6, <1>7 DEF ApprovalInv, TrailInOrder, MadeFinite, Generate

\* A commander asks.
LEMMA MakeInv ==
    ASSUME ApprovalInv, NEW r \in Requests, NEW c \in Coas, NEW d \in Decisions, Make(r, c, d)
    PROVE  ApprovalInv'
<1> DEFINE asked == [coa |-> c, decision |-> d]
<1>1. /\ \A q \in Requests : request'[q] = IF q = r THEN asked ELSE request[q]
      /\ \A q \in Requests : pc'[q] = IF q = r THEN "decide" ELSE pc[q]
      /\ asked \in [coa: Coas, decision: Decisions]
  BY DEF ApprovalInv, TypeOK, Make
<1>2. \A k \in DOMAIN audit : audit[k] \in Requests /\ audit[k] # r
  BY DEF ApprovalInv, TypeOK, Standing, Make
<1>3. \A q, s \in Requests : <<q, s>> \in before' => <<q, s>> \in before \/ (s = r /\ pc[q] = "ok")
  BY DEF Make
<1>4. TypeOK'
  BY DEF ApprovalInv, TypeOK, Make
<1>5. Standing'
  BY <1>1, <1>2, <1>3 DEF ApprovalInv, Standing, Make, Audited, Deciding
<1>6. TrailInOrder'
  <2>1. ASSUME NEW i \in DOMAIN audit, NEW j \in DOMAIN audit, i < j
        PROVE  <<audit[j], audit[i]>> \notin before'
    BY <1>2, <1>3, <2>1 DEF ApprovalInv, TrailInOrder
  <2> QED BY <2>1 DEF ApprovalInv, TrailInOrder, Make
<1>7. ASSUME NEW b \in Coas, coas'[b] \in Decisions PROVE \E q \in Requests : InForce(q, b)'
  <2>1. PICK q \in Requests : InForce(q, b)
    BY <1>7 DEF ApprovalInv, SomeoneDecided, Make
  <2>2. q # r
    BY <2>1 DEF InForce, Deciding, Make
  <2>3. InForce(q, b)'
    BY <1>1, <1>3, <2>1, <2>2 DEF InForce, Deciding, Make
  <2> QED BY <2>3
<1>8. MadeFinite'
  <2>1. {q \in Requests : pc'[q] # "unmade"} = {q \in Requests : pc[q] # "unmade"} \cup {r}
    BY <1>1
  <2> QED BY <2>1, FS_AddElement DEF ApprovalInv, MadeFinite
<1> QED BY <1>4, <1>5, <1>6, <1>7, <1>8 DEF ApprovalInv, SomeoneDecided

\* The row is changed, or is not there.
LEMMA DecideInv == ASSUME ApprovalInv, NEW r \in Requests, Decide(r) PROVE ApprovalInv'
<1> DEFINE c == request[r].coa
<1>1. c \in Coas /\ request[r].decision \in Decisions /\ pc[r] = "decide"
  BY DEF ApprovalInv, Standing, Decide
<1>2. \A k \in DOMAIN audit : audit[k] \in Requests /\ audit[k] # r
  BY <1>1 DEF ApprovalInv, TypeOK, Standing
<1>3. \A q \in Requests \ {r} : pc'[q] = pc[q]
  BY DEF ApprovalInv, TypeOK, Decide
<1>4. MadeFinite'
  <2>1. pc'[r] # "unmade"
    BY DEF ApprovalInv, TypeOK, Decide
  <2>2. {q \in Requests : pc'[q] # "unmade"} = {q \in Requests : pc[q] # "unmade"}
    BY <1>1, <1>3, <2>1
  <2> QED BY <2>2 DEF ApprovalInv, MadeFinite
<1>5. TrailInOrder' /\ UNCHANGED <<request, audit, before>>
  BY DEF ApprovalInv, TrailInOrder, Decide
<1>6. CASE UNCHANGED coas /\ pc' = [pc EXCEPT ![r] = "notFound"]
  <2>1. TypeOK'
    BY <1>6 DEF ApprovalInv, TypeOK, Decide
  <2>2. pc'[r] = "notFound"
    BY <1>6 DEF ApprovalInv, TypeOK
  <2>3. Standing'
    BY <1>1, <1>2, <1>3, <1>5, <1>6, <2>2 DEF ApprovalInv, Standing, Audited, Deciding
  <2>4. SomeoneDecided'
    BY <1>1, <1>3, <1>5, <1>6, <2>2, StaysInForce DEF ApprovalInv, Deciding
  <2> QED BY <1>4, <1>5, <2>1, <2>3, <2>4 DEF ApprovalInv
<1>7. CASE coas' = [coas EXCEPT ![c] = request[r].decision] /\ pc' = [pc EXCEPT ![r] = "audit"]
  <2>1. TypeOK'
    BY <1>1, <1>7 DEF ApprovalInv, TypeOK, Decide
  <2>2. /\ pc'[r] = "audit"
        /\ \A b \in Coas : coas'[b] = IF b = c THEN request[r].decision ELSE coas[b]
    BY <1>1, <1>7 DEF ApprovalInv, TypeOK
  <2>3. Standing'
    <3>1. \A b \in Coas : coas[b] \in Decisions => coas'[b] \in Decisions
      BY <1>1, <2>2
    <3>2. \A q \in Requests : pc[q] # "unmade" => request[q].coa \in Coas
      BY DEF ApprovalInv, Standing
    <3> QED BY <1>1, <1>2, <1>3, <1>5, <2>2, <3>1, <3>2
            DEF ApprovalInv, Standing, Audited, Deciding
  <2>4. ASSUME NEW b \in Coas, coas'[b] \in Decisions PROVE \E q \in Requests : InForce(q, b)'
    <3>1. CASE b = c
      <4>1. \A q \in Requests : <<r, q>> \notin before
        BY <1>1 DEF ApprovalInv, Standing
      <4>2. InForce(r, b)'
        BY <1>5, <2>2, <3>1, <4>1 DEF InForce, Deciding
      <4> QED BY <4>2
    <3>2. CASE b # c
      <4>1. PICK q \in Requests : InForce(q, b)
        BY <2>2, <2>4, <3>2 DEF ApprovalInv, SomeoneDecided
      <4>2. InForce(q, b)'
        BY <1>1, <1>3, <1>5, <2>2, <3>2, <4>1 DEF InForce, Deciding
      <4> QED BY <4>2
    <3> QED BY <3>1, <3>2
  <2> QED BY <1>4, <1>5, <2>1, <2>3, <2>4 DEF ApprovalInv, SomeoneDecided
<1> QED BY <1>6, <1>7 DEF Decide

\* audit-svc writes the entry.
LEMMA WriteEntryInv == ASSUME ApprovalInv, NEW r \in Requests, WriteEntry(r) PROVE ApprovalInv'
<1> DEFINE s == <<r>>
<1>1. s \in Seq(Requests) /\ Len(s) = 1 /\ s[1] = r /\ pc[r] = "audit"
  BY DEF WriteEntry
<1>2. audit' = audit \o s
  BY AppendIsConcat DEF ApprovalInv, TypeOK, WriteEntry
<1>3. /\ audit' \in Seq(Requests)
      /\ \A i, j \in DOMAIN audit' : audit'[i] = audit'[j] => i = j
      /\ \A i, j \in DOMAIN audit' : i < j => <<audit'[j], audit'[i]>> \notin before
      /\ \A k \in DOMAIN audit' : \/ pc[audit'[k]] = "audit"
                                  \/ \E i \in DOMAIN audit : audit'[k] = audit[i]
      /\ \A q \in Requests : Audited(q) => q \in ToSet(audit')
      /\ r \in ToSet(audit')
  <2>1. \A i, j \in 1..Len(s) : s[i] = s[j] => i = j
    BY <1>1
  <2>2. \A i \in 1..Len(s) : pc[s[i]] = "audit"
    BY <1>1
  <2>3. 1 \in 1..Len(s)
    BY <1>1
  <2> HIDE DEF s
  <2> QED BY <1>1, <1>2, <2>1, <2>2, <2>3, EntriesAdded
<1>4. \A q \in Requests : pc'[q] = IF q = r THEN "answer" ELSE pc[q]
  BY DEF ApprovalInv, TypeOK, WriteEntry
<1>5. UNCHANGED <<coas, request, before>>
  BY DEF WriteEntry
<1>6. TypeOK'
  BY <1>3 DEF ApprovalInv, TypeOK, WriteEntry
<1>7. \A k \in DOMAIN audit' : audit'[k] \in Requests
  BY <1>3
<1>8. \A k \in DOMAIN audit' : pc[audit'[k]] = "audit" => audit'[k] = r
  <2>1. ASSUME NEW k \in DOMAIN audit' PROVE k \in DOMAIN audit \/ audit'[k] = r
    BY LenProperties DEF ApprovalInv, TypeOK, WriteEntry
  <2>2. ASSUME NEW k \in DOMAIN audit PROVE audit'[k] = audit[k] /\ pc[audit[k]] # "audit"
    BY LenProperties DEF ApprovalInv, TypeOK, Standing, WriteEntry
  <2> QED BY <2>1, <2>2
<1>9. Standing'
  BY <1>1, <1>3, <1>4, <1>5, <1>7, <1>8 DEF ApprovalInv, Standing, Audited, Deciding
<1>10. SomeoneDecided'
  BY <1>1, <1>4, <1>5, StaysInForce DEF ApprovalInv, Deciding
<1>11. MadeFinite'
  <2>1. {q \in Requests : pc'[q] # "unmade"} = {q \in Requests : pc[q] # "unmade"}
    BY <1>1, <1>4
  <2> QED BY <2>1 DEF ApprovalInv, MadeFinite
<1> QED BY <1>3, <1>5, <1>6, <1>9, <1>10, <1>11 DEF ApprovalInv, TrailInOrder

\* The commander is answered, or told of an error.
LEMMA AnswerInv ==
    ASSUME ApprovalInv, NEW r \in Requests, Answer(r) \/ AuditFails(r) PROVE ApprovalInv'
<1>1. /\ \A q \in Requests \ {r} : pc'[q] = pc[q]
      /\ pc[r] \in {"audit", "answer"}
      /\ pc'[r] \in {"ok", "error"}
      /\ pc'[r] = "ok" => pc[r] = "answer"
      /\ UNCHANGED <<coas, request, audit, before>>
  BY DEF ApprovalInv, TypeOK, Answer, AuditFails
<1>2. TypeOK'
  <2>1. CASE Answer(r)
    BY <2>1 DEF ApprovalInv, TypeOK, Answer
  <2>2. CASE AuditFails(r)
    <3>1. failures' \in 0..MaxFailures
      BY <2>2, Bounds DEF ApprovalInv, TypeOK, AuditFails
    <3> QED BY <2>2, <3>1 DEF ApprovalInv, TypeOK, AuditFails
  <2> QED BY <2>1, <2>2
<1>3. Standing'
  <2>1. \A k \in DOMAIN audit : audit[k] \in Requests
    BY DEF ApprovalInv, TypeOK
  <2> QED BY <1>1, <2>1 DEF ApprovalInv, Standing, Audited, Deciding
<1>4. SomeoneDecided'
  BY <1>1, StaysInForce DEF ApprovalInv, Deciding
<1>5. MadeFinite'
  <2>1. {q \in Requests : pc'[q] # "unmade"} = {q \in Requests : pc[q] # "unmade"}
    BY <1>1
  <2> QED BY <2>1 DEF ApprovalInv, MadeFinite
<1> QED BY <1>1, <1>2, <1>3, <1>4, <1>5 DEF ApprovalInv, TrailInOrder

\* coa-svc dies, and some of the entries that were under way are written.
LEMMA CrashInv == ASSUME ApprovalInv, Crash PROVE ApprovalInv'
<1>1. PICK written \in SUBSET {r \in Requests : pc[r] = "audit"} :
        audit' \in {audit \o s : s \in SetToSeqs(written)}
  BY DEF Crash
<1>2. PICK s \in SetToSeqs(written) : audit' = audit \o s
  BY <1>1
<1>3. Cardinality(written) \in Nat
  <2>1. written \in SUBSET {r \in Requests : pc[r] # "unmade"}
    BY <1>1
  <2> QED BY <2>1, FS_Subset, FS_CardinalityType DEF ApprovalInv, MadeFinite
<1>4. /\ s \in [1..Cardinality(written) -> written]
      /\ \A i, j \in 1..Cardinality(written) : i # j => s[i] # s[j]
  BY <1>2 DEF SetToSeqs
<1>5. s \in Seq(Requests) /\ Len(s) = Cardinality(written)
  <2>1. s \in [1..Cardinality(written) -> Requests]
    BY <1>1, <1>4
  <2> QED BY <1>3, <2>1
<1>6. \A i \in 1..Len(s) : pc[s[i]] = "audit"
  BY <1>1, <1>4, <1>5
<1>7. /\ audit' \in Seq(Requests)
      /\ \A i, j \in DOMAIN audit' : audit'[i] = audit'[j] => i = j
      /\ \A i, j \in DOMAIN audit' : i < j => <<audit'[j], audit'[i]>> \notin before
      /\ \A k \in DOMAIN audit' : \/ pc[audit'[k]] = "audit"
                                  \/ \E i \in DOMAIN audit : audit'[k] = audit[i]
      /\ \A q \in Requests : Audited(q) => q \in ToSet(audit')
  BY <1>2, <1>4, <1>5, <1>6, EntriesAdded
<1>8. \A q \in Requests :
        pc'[q] = IF pc[q] \in {"decide", "audit", "answer"} THEN "error" ELSE pc[q]
  BY DEF Crash
<1>9. UNCHANGED <<coas, request, before>>
  BY DEF Crash
<1>10. TypeOK'
  <2>1. crashes' \in 0..MaxCrashes
    BY Bounds DEF ApprovalInv, TypeOK, Crash
  <2>2. pc' \in [Requests -> {"unmade", "decide", "audit", "answer", "ok", "notFound", "error"}]
    BY DEF ApprovalInv, TypeOK, Crash
  <2> QED BY <1>7, <2>1, <2>2 DEF ApprovalInv, TypeOK, Crash
<1>11. Standing'
  <2>1. ASSUME NEW k \in DOMAIN audit'
        PROVE  /\ pc'[audit'[k]] \in {"answer", "ok", "error"}
               /\ coas'[request'[audit'[k]].coa] \in Decisions
    <3>1. audit'[k] \in Requests
      BY <1>7
    <3>2. CASE pc[audit'[k]] = "audit"
      BY <1>8, <1>9, <3>1, <3>2 DEF ApprovalInv, Standing, Deciding
    <3>3. CASE \E i \in DOMAIN audit : audit'[k] = audit[i]
      BY <1>8, <1>9, <3>1, <3>3 DEF ApprovalInv, Standing
    <3> QED BY <1>7, <3>2, <3>3
  <2>2. \A q \in Requests : pc'[q] = "answer" \/ pc'[q] = "ok" => pc[q] = "ok"
    BY <1>8
  <2>3. \A q \in Requests : pc[q] = "ok" => pc'[q] = "ok"
    BY <1>8
  <2>4. \A q \in Requests : pc'[q] # "unmade" => pc[q] # "unmade"
    BY <1>8
  <2>5. \A q \in Requests : pc'[q] \in Deciding => pc[q] \in Deciding
    BY <1>8 DEF Deciding
  <2> QED BY <1>7, <1>9, <2>1, <2>2, <2>3, <2>4, <2>5 DEF ApprovalInv, Standing, Audited
<1>12. SomeoneDecided'
  BY <1>8, <1>9, StaysInForce DEF ApprovalInv, Deciding
<1>13. MadeFinite'
  <2>1. {q \in Requests : pc'[q] # "unmade"} = {q \in Requests : pc[q] # "unmade"}
    BY <1>8
  <2> QED BY <2>1 DEF ApprovalInv, MadeFinite
<1> QED BY <1>7, <1>9, <1>10, <1>11, <1>12, <1>13 DEF ApprovalInv, TrailInOrder

\* What leaves the decisions alone.
LEMMA ElsewhereInv ==
    ASSUME ApprovalInv, UNCHANGED <<coas, request, pc, audit, crashes, before>>,
           failures' \in 0..MaxFailures
    PROVE  ApprovalInv'
<1>1. TypeOK'
  BY DEF ApprovalInv, TypeOK
<1>2. Standing' /\ TrailInOrder' /\ MadeFinite'
  BY DEF ApprovalInv, Standing, TrailInOrder, MadeFinite, Audited
<1>3. SomeoneDecided'
  BY DEF ApprovalInv, SomeoneDecided, InForce
<1> QED BY <1>1, <1>2, <1>3 DEF ApprovalInv
------------------------------------------------------------------------------
(* The doctrine, the options and the rest of a generation.                 *)

\* While no runs of the script overlap: only the newest is under way, and its last
\* accepted update is its own.
NewestOnly ==
    /\ newest \in Ingests \cup {None}
    /\ UnderWay \subseteq {newest}
    /\ \A i \in Ingests : ingest[i] = "embed" =>
          IF accepted = <<>> THEN doctrine = {}
          ELSE accepted[Len(accepted)] = [op |-> "delete", run |-> i]
    /\ \A i \in Ingests : ingest[i] = "wait" =>
          accepted # <<>> /\ accepted[Len(accepted)] = [op |-> "upsert", run |-> i]

\* Each upsert was accepted after a delete, and after the run's.
UpsertsFollowDeletes ==
    \A k \in DOMAIN accepted : accepted[k].op = "upsert" =>
        /\ ingest[accepted[k].run] \in {"wait", "failed"}
        /\ ingest[accepted[k].run] = "wait" => k = Len(accepted)
        /\ IF k = 1 THEN doctrine \subseteq ChunksOf(accepted[1].run)
           ELSE accepted[k - 1].op = "delete"

\* What is in Qdrant and what was found there is of one run each, and a run that waited
\* for its upsert leaves what it sent.
OneRun ==
    ~overlapped =>
        /\ NewestOnly
        /\ UpsertsFollowDeletes
        /\ doctrine # {} => \E i \in Ingests : doctrine \subseteq ChunksOf(i)
        /\ \A c \in Coas : context[c] # {} => \E i \in Ingests : context[c] \subseteq ChunksOf(i)
        /\ \A i \in Ingests : i = newest /\ ingest[i] = "done" /\ Chunks[i] # {} =>
              accepted = <<>> /\ doctrine = ChunksOf(i)

\* What a course of action that is there was stored with.
StoredOptions ==
    mode = "edge" => \A c \in Coas : coas[c] # NoCoa =>
        /\ options[c] \in [1..NumOptions -> Confidences]
        /\ PassesEdge(options[c])

GenerationInv ==
    /\ ApprovalInv
    /\ GenerationTypeOK
    /\ OneRun
    /\ StoredOptions

\* There is neither doctrine nor a course of action at first.
LEMMA GenerationInitInv == GenerationInit => GenerationInv
<1> SUFFICES ASSUME GenerationInit PROVE GenerationInv
  OBVIOUS
<1>1. ApprovalInv
  BY ApprovalInit DEF GenerationInit
<1>2. GenerationTypeOK
  <2>1. <<>> \in [1..0 -> Confidences] /\ 0 \in 0..NumOptions
    BY GenerationAssumption DEF GenerationAssumption
  <2>2. accepted \in Seq(Updates)
    BY DEF GenerationInit
  <2> QED BY <1>1, <2>1, <2>2 DEF GenerationInit, GenerationTypeOK, ApprovalInv
<1>3. OneRun
  BY DEF GenerationInit, OneRun, NewestOnly, UpsertsFollowDeletes, UnderWay
<1>4. StoredOptions
  BY DEF GenerationInit, Init, StoredOptions
<1> QED BY <1>1, <1>2, <1>3, <1>4 DEF GenerationInv

\* What is said of the doctrine, where only requests move and theirs is at most a part
\* of it.
LEMMA SameDoctrine ==
    ASSUME OneRun, UNCHANGED <<ingest, doctrine, accepted, newest, overlapped>>,
           \A c \in Coas : \/ context'[c] = context[c]
                          \/ context'[c] \subseteq doctrine
    PROVE  OneRun'
<1>1. NewestOnly' = NewestOnly /\ UpsertsFollowDeletes' = UpsertsFollowDeletes
  BY DEF NewestOnly, UpsertsFollowDeletes, UnderWay
<1>2. ASSUME ~overlapped, NEW c \in Coas, context'[c] # {}
      PROVE  \E i \in Ingests : context'[c] \subseteq ChunksOf(i)
  <2>1. CASE context'[c] = context[c]
    BY <1>2, <2>1 DEF OneRun
  <2>2. CASE context'[c] \subseteq doctrine
    <3>1. doctrine # {}
      BY <1>2, <2>2
    <3>2. PICK i \in Ingests : doctrine \subseteq ChunksOf(i)
      BY <1>2, <3>1 DEF OneRun
    <3> QED BY <2>2, <3>2
  <2> QED BY <2>1, <2>2
<1> QED BY <1>1, <1>2 DEF OneRun, ChunksOf

\* A request begins, and the embedding model is loaded or cannot be.
LEMMA LoadInv ==
    ASSUME GenerationInv, LoadExtractor \/ \E c \in Coas : AskForCoa(c) PROVE GenerationInv'
<1>1. /\ UNCHANGED <<coas, request, pc, audit, crashes, before>>
      /\ UNCHANGED <<mode, context, options, ingest, doctrine, accepted, newest, overlapped>>
  BY DEF LoadExtractor, AskForCoa, vars
<1>2. ApprovalInv'
  <2>1. failures \in 0..MaxFailures
    BY DEF GenerationInv, ApprovalInv, TypeOK
  <2>2. failures' \in 0..MaxFailures
    BY <2>1, Bounds DEF LoadExtractor, AskForCoa, vars
  <2> QED BY <1>1, <2>2, ElsewhereInv DEF GenerationInv
<1>3. GenerationTypeOK'
  <2>1. extractor' \in {"none", "loading", "ready", "failed"}
    BY DEF GenerationInv, GenerationTypeOK, LoadExtractor, AskForCoa
  <2>2. generation' \in [Coas -> {"unmade", "search", "ask", "over"}]
    BY DEF GenerationInv, GenerationTypeOK, LoadExtractor, AskForCoa
  <2> QED BY <1>1, <1>2, <2>1, <2>2 DEF GenerationInv, GenerationTypeOK, ApprovalInv
<1>4. OneRun'
  BY <1>1, SameDoctrine DEF GenerationInv
<1> QED BY <1>1, <1>2, <1>3, <1>4 DEF GenerationInv, StoredOptions

\* A request's search takes some of the doctrine as it is.
LEMMA SearchInv ==
    ASSUME GenerationInv, NEW c \in Coas, Search(c) PROVE GenerationInv'
<1>1. UNCHANGED <<vars, mode, options, extractor, ingest, doctrine, accepted, newest, overlapped>>
  BY DEF Search
<1>0. \/ UNCHANGED context
      \/ \E found \in SUBSET doctrine : context' = [context EXCEPT ![c] = found]
  BY DEF Search, Hits
<1>2. ApprovalInv'
  BY <1>1, ElsewhereInv DEF GenerationInv, ApprovalInv, TypeOK, vars
<1>3. GenerationTypeOK'
  <2>1. generation' \in [Coas -> {"unmade", "search", "ask", "over"}]
    BY DEF GenerationInv, GenerationTypeOK, Search
  <2>2. context' \in [Coas -> SUBSET (Ingests \X UNION {Chunks[i] : i \in Ingests})]
    <3>1. ASSUME NEW found \in SUBSET doctrine
          PROVE  found \in SUBSET (Ingests \X UNION {Chunks[i] : i \in Ingests})
      BY <3>1 DEF GenerationInv, GenerationTypeOK
    <3> QED BY <1>0, <3>1 DEF GenerationInv, GenerationTypeOK
  <2> QED BY <1>1, <1>2, <2>1, <2>2 DEF GenerationInv, GenerationTypeOK, ApprovalInv
<1>4. StoredOptions'
  BY <1>1 DEF GenerationInv, StoredOptions, vars
<1>5. OneRun'
  <2>1. \A b \in Coas : context'[b] = context[b] \/ context'[b] \subseteq doctrine
    BY <1>0 DEF GenerationInv, GenerationTypeOK
  <2> QED BY <1>1, <2>1, SameDoctrine DEF GenerationInv
<1> QED BY <1>2, <1>3, <1>4, <1>5 DEF GenerationInv

\* What the model answers is stored with a new course of action, or not at all.
LEMMA AskModelInv ==
    ASSUME GenerationInv, NEW c \in Coas, AskModel(c) PROVE GenerationInv'
<1>1. UNCHANGED <<mode, extractor, ingest, doctrine, accepted, newest, overlapped>>
  BY DEF AskModel
<1>6. /\ context' \in [Coas -> SUBSET (Ingests \X UNION {Chunks[i] : i \in Ingests})]
      /\ \A b \in Coas : context'[b] = context[b] \/ context'[b] \subseteq doctrine
  BY DEF GenerationInv, GenerationTypeOK, AskModel
<1>7. OneRun'
  BY <1>1, <1>6, SameDoctrine DEF GenerationInv
<1>2. CASE UNCHANGED <<vars, options>>
  <2>1. ApprovalInv'
    BY <1>2, ElsewhereInv DEF GenerationInv, ApprovalInv, TypeOK, vars
  <2>2. GenerationTypeOK'
    BY <1>1, <1>2, <1>6, <2>1 DEF GenerationInv, GenerationTypeOK, ApprovalInv, AskModel
  <2> QED BY <1>1, <1>2, <1>7, <2>1, <2>2 DEF GenerationInv, StoredOptions, vars
<1>3. ASSUME NEW answer \in Answers(0..NumOptions), options' = [options EXCEPT ![c] = answer],
             Generate(c),
             mode = "edge" => answer \in [1..NumOptions -> Confidences] /\ PassesEdge(answer)
      PROVE  GenerationInv'
  <2>1. ApprovalInv'
    BY <1>3, GenerateInv DEF GenerationInv
  <2>2. GenerationTypeOK'
    <3>1. options' \in [Coas -> UNION {[1..n -> Confidences] : n \in 0..NumOptions}]
      BY <1>3 DEF GenerationInv, GenerationTypeOK, Answers
    <3>2. generation' \in [Coas -> {"unmade", "search", "ask", "over"}]
      BY DEF GenerationInv, GenerationTypeOK, AskModel
    <3> QED BY <1>1, <1>6, <2>1, <3>1, <3>2 DEF GenerationInv, GenerationTypeOK, ApprovalInv
  <2>3. StoredOptions'
    <3>1. \A b \in Coas : /\ options'[b] = IF b = c THEN answer ELSE options[b]
                          /\ b # c => coas'[b] = coas[b]
      BY <1>3 DEF GenerationInv, GenerationTypeOK, TypeOK, Generate
    <3> QED BY <1>1, <1>3, <3>1 DEF GenerationInv, StoredOptions
  <2> QED BY <1>7, <2>1, <2>2, <2>3 DEF GenerationInv
<1>4. ASSUME NEW answer \in EdgeAnswers
      PROVE  answer \in [1..NumOptions -> Confidences] /\ answer \in Answers(0..NumOptions)
  BY <1>4, GenerationAssumption DEF EdgeAnswers, Answers, GenerationAssumption
<1>5. \/ UNCHANGED <<vars, options>>
      \/ /\ mode = "cloud"
         /\ \E answer \in Answers(0..NumOptions) : options' = [options EXCEPT ![c] = answer]
         /\ Generate(c)
      \/ /\ mode = "edge"
         /\ \E answer \in EdgeAnswers :
               PassesEdge(answer) /\ options' = [options EXCEPT ![c] = answer]
         /\ Generate(c)
  BY DEF AskModel
<1> QED BY <1>2, <1>3, <1>4, <1>5

\* What Qdrant may have accepted.
LEMMA AcceptedUpdates ==
    /\ \A i \in Ingests : [op |-> "delete", run |-> i] \in Updates /\ [op |-> "upsert", run |-> i] \in Updates
    /\ \A u \in Updates : u.run \in Ingests
    /\ \A some \in Seq(Updates), k \in Nat \ {0} : k <= Len(some) => some[k].run \in Ingests
<1>1. \A some \in Seq(Updates), k \in Nat \ {0} : k <= Len(some) => some[k] \in Updates
  OBVIOUS
<1> QED BY <1>1 DEF Updates

\* What holds whatever the script and Qdrant do.
LEMMA ElsewhereScript ==
    ASSUME GenerationInv, UNCHANGED <<vars, mode, generation, context, options, extractor>>,
           ingest' \in [Ingests -> {"unmade", "embed", "wait", "done", "failed"}],
           doctrine' \subseteq Ingests \X UNION {Chunks[i] : i \in Ingests},
           accepted' \in Seq(Updates),
           newest' \in Ingests \cup {None}, overlapped' \in BOOLEAN, OneRun'
    PROVE  GenerationInv'
<1>1. ApprovalInv'
  BY ElsewhereInv DEF GenerationInv, ApprovalInv, TypeOK, vars
<1>2. GenerationTypeOK'
  BY <1>1 DEF GenerationInv, GenerationTypeOK, ApprovalInv
<1>3. StoredOptions'
  BY DEF GenerationInv, StoredOptions, vars
<1> QED BY <1>1, <1>2, <1>3 DEF GenerationInv

\* A run that begins has its delete accepted last, or fails.
LEMMA DeleteInv ==
    ASSUME GenerationInv, NEW i \in Ingests, DeleteChunks(i) PROVE GenerationInv'
<1> DEFINE Delete == [op |-> "delete", run |-> i]
<1>1. /\ UNCHANGED <<vars, mode, generation, context, options, extractor, doctrine>>
      /\ ingest[i] = "unmade" /\ newest' = i
      /\ overlapped' = (overlapped \/ UnderWay # {})
      /\ \/ accepted' = Append(accepted, Delete)
         \/ accepted' = accepted /\ ingest' = [ingest EXCEPT ![i] = "failed"]
      /\ ingest' \in {[ingest EXCEPT ![i] = "embed"], [ingest EXCEPT ![i] = "failed"]}
  BY DEF DeleteChunks, Begin
<1>2. /\ ingest \in [Ingests -> {"unmade", "embed", "wait", "done", "failed"}]
      /\ accepted \in Seq(Updates) /\ overlapped \in BOOLEAN
      /\ doctrine' \subseteq Ingests \X UNION {Chunks[j] : j \in Ingests}
  BY <1>1 DEF GenerationInv, GenerationTypeOK
<1>3. /\ \A j \in Ingests \ {i} : ingest'[j] = ingest[j]
      /\ ingest'[i] \in {"embed", "failed"}
      /\ ingest'[i] = "embed" => accepted' = Append(accepted, Delete)
      /\ ingest' \in [Ingests -> {"unmade", "embed", "wait", "done", "failed"}]
  BY <1>1, <1>2
<1>4. Delete \in Updates /\ accepted' \in Seq(Updates)
  <2>1. Delete \in Updates
    BY AcceptedUpdates
  <2> QED BY <1>1, <1>2, <2>1
<1>5. OneRun'
  <2> SUFFICES ASSUME ~overlapped' PROVE OneRun'
    BY DEF OneRun
  <2>1. ~overlapped /\ UnderWay = {}
    BY <1>1
  <2>2. NewestOnly /\ UpsertsFollowDeletes
    BY <2>1 DEF GenerationInv, OneRun
  <2>3. NewestOnly'
    <3>1. newest' \in Ingests \cup {None} /\ UnderWay' \subseteq {newest'}
      BY <1>1, <1>3, <2>1 DEF UnderWay
    <3>2. \A j \in Ingests : ingest'[j] # "wait" /\ (ingest'[j] = "embed" => j = i)
      BY <1>3, <2>1 DEF UnderWay
    <3>3. ingest'[i] = "embed" =>
             accepted' # <<>> /\ accepted'[Len(accepted')] = Delete
      BY <1>2, <1>3, <1>4
    <3> QED BY <3>1, <3>2, <3>3 DEF NewestOnly
  <2>4. UpsertsFollowDeletes'
    <3> SUFFICES ASSUME NEW k \in DOMAIN accepted', accepted'[k].op = "upsert"
                 PROVE  /\ ingest'[accepted'[k].run] \in {"wait", "failed"}
                        /\ ingest'[accepted'[k].run] = "wait" => k = Len(accepted')
                        /\ IF k = 1 THEN doctrine' \subseteq ChunksOf(accepted'[1].run)
                           ELSE accepted'[k - 1].op = "delete"
      BY DEF UpsertsFollowDeletes, ChunksOf
    <3>0. k \in Nat \ {0} /\ k <= Len(accepted)
      <4>1. k # Len(accepted) + 1
        BY <1>1, <1>2, <1>4
      <4> QED BY <1>1, <1>2, <1>4, <4>1
    <3>1. k \in DOMAIN accepted /\ accepted'[k] = accepted[k]
          /\ (k # 1 => accepted'[k - 1] = accepted[k - 1])
      <4>1. accepted' = accepted \/ accepted' = Append(accepted, Delete)
        BY <1>1
      <4>2. k - 1 \in Nat /\ (k # 1 => k - 1 >= 1 /\ k - 1 <= Len(accepted))
        BY <3>0
      <4> HIDE DEF Delete
      <4> QED BY <1>2, <1>4, <3>0, <4>1, <4>2
    <3>2. accepted[k].run \in Ingests
      BY <1>2, <3>1, AcceptedUpdates
    <3>3. ingest[accepted[k].run] = "failed"
      BY <2>1, <2>2, <3>1, <3>2 DEF UpsertsFollowDeletes, UnderWay
    <3>4. accepted[k].run # i /\ ingest'[accepted'[k].run] = "failed"
      BY <1>1, <1>3, <3>1, <3>2, <3>3
    <3>5. IF k = 1 THEN doctrine \subseteq ChunksOf(accepted[1].run)
          ELSE accepted[k - 1].op = "delete"
      BY <2>2, <3>1 DEF UpsertsFollowDeletes
    <3> QED BY <1>1, <3>1, <3>4, <3>5
  <2> QED BY <1>1, <1>3, <2>1, <2>3, <2>4 DEF GenerationInv, OneRun, ChunksOf
<1>6. newest' \in Ingests \cup {None} /\ overlapped' \in BOOLEAN
  BY <1>1, <1>2
<1> QED BY <1>1, <1>2, <1>3, <1>4, <1>5, <1>6, ElsewhereScript

\* An upsert is accepted after the delete of its run, or when that is done.
LEMMA UpsertInv ==
    ASSUME GenerationInv, NEW i \in Ingests, SendUpsert(i) PROVE GenerationInv'
<1> DEFINE Upsert == [op |-> "upsert", run |-> i]
<1>1. /\ UNCHANGED <<vars, mode, generation, context, options, extractor, doctrine, newest, overlapped>>
      /\ ingest[i] = "embed"
      /\ ingest' = [ingest EXCEPT ![i] = IF Chunks[i] = {} THEN "done" ELSE "wait"]
      /\ accepted' = IF Chunks[i] = {} THEN accepted ELSE Append(accepted, Upsert)
  BY DEF SendUpsert
<1>2. /\ ingest \in [Ingests -> {"unmade", "embed", "wait", "done", "failed"}]
      /\ accepted \in Seq(Updates)
      /\ doctrine' \subseteq Ingests \X UNION {Chunks[j] : j \in Ingests}
      /\ newest' \in Ingests \cup {None} /\ overlapped' \in BOOLEAN
  BY <1>1 DEF GenerationInv, GenerationTypeOK
<1>3. /\ \A j \in Ingests \ {i} : ingest'[j] = ingest[j]
      /\ ingest'[i] = IF Chunks[i] = {} THEN "done" ELSE "wait"
      /\ ingest' \in [Ingests -> {"unmade", "embed", "wait", "done", "failed"}]
  BY <1>1, <1>2
<1>4. Upsert \in Updates /\ accepted' \in Seq(Updates)
  <2>1. Upsert \in Updates
    BY AcceptedUpdates
  <2> QED BY <1>1, <1>2, <2>1
<1>5. OneRun'
  <2> SUFFICES ASSUME ~overlapped PROVE OneRun'
    BY <1>1 DEF OneRun
  <2>1. NewestOnly /\ UpsertsFollowDeletes
    BY DEF GenerationInv, OneRun
  <2>2. UnderWay = {i} /\ newest = i /\ \A j \in Ingests \ {i} : ingest[j] \notin {"embed", "wait"}
    BY <1>1, <2>1 DEF NewestOnly, UnderWay
  <2>3. IF accepted = <<>> THEN doctrine = {}
        ELSE accepted[Len(accepted)] = [op |-> "delete", run |-> i]
    BY <1>1, <2>1 DEF NewestOnly
  <2>4. NewestOnly'
    <3>1. newest' \in Ingests \cup {None} /\ UnderWay' \subseteq {newest'}
      BY <1>1, <1>2, <1>3, <2>2 DEF UnderWay
    <3>2. \A j \in Ingests : ingest'[j] # "embed" /\ (ingest'[j] = "wait" => j = i)
      BY <1>3, <2>2
    <3>3. ingest'[i] = "wait" => accepted' # <<>> /\ accepted'[Len(accepted')] = Upsert
      BY <1>1, <1>2, <1>3, <1>4
    <3> QED BY <3>1, <3>2, <3>3 DEF NewestOnly
  <2>5. UpsertsFollowDeletes'
    <3> SUFFICES ASSUME NEW k \in DOMAIN accepted', accepted'[k].op = "upsert"
                 PROVE  /\ ingest'[accepted'[k].run] \in {"wait", "failed"}
                        /\ ingest'[accepted'[k].run] = "wait" => k = Len(accepted')
                        /\ IF k = 1 THEN doctrine' \subseteq ChunksOf(accepted'[1].run)
                           ELSE accepted'[k - 1].op = "delete"
      BY DEF UpsertsFollowDeletes, ChunksOf
    <3>1. CASE k \in DOMAIN accepted
      <4>1. accepted'[k] = accepted[k] /\ (k # 1 => accepted'[k - 1] = accepted[k - 1])
        BY <1>1, <1>2, <1>4, <3>1
      <4>2. accepted[k].run \in Ingests
        BY <1>2, <3>1, AcceptedUpdates
      <4>3. accepted[k].run # i /\ ingest[accepted[k].run] = "failed"
        BY <1>1, <2>1, <2>2, <3>1, <4>1, <4>2 DEF UpsertsFollowDeletes
      <4>4. IF k = 1 THEN doctrine \subseteq ChunksOf(accepted[1].run)
            ELSE accepted[k - 1].op = "delete"
        BY <2>1, <3>1, <4>1 DEF UpsertsFollowDeletes
      <4>5. ingest'[accepted'[k].run] = "failed"
        BY <1>3, <4>1, <4>2, <4>3
      <4>6. k = 1 => accepted'[1] = accepted[1]
        BY <4>1
      <4> QED BY <1>1, <4>1, <4>4, <4>5, <4>6
    <3>2. CASE k \notin DOMAIN accepted
      <4>1. Chunks[i] # {} /\ k = Len(accepted) + 1 /\ k = Len(accepted') /\ accepted'[k] = Upsert
        BY <1>1, <1>2, <1>4, <3>2
      <4>2. ingest'[accepted'[k].run] = "wait"
        BY <1>3, <4>1
      <4>3. CASE k = 1
        <5>1. accepted = <<>>
          BY <1>2, <4>1, <4>3
        <5> QED BY <1>1, <2>3, <4>1, <4>2, <4>3, <5>1
      <4>4. CASE k # 1
        <5>1. accepted # <<>> /\ accepted'[k - 1] = accepted[Len(accepted)]
          BY <1>1, <1>2, <1>4, <4>1, <4>4
        <5> QED BY <2>3, <4>1, <4>2, <4>4, <5>1
      <4> QED BY <4>3, <4>4
    <3> QED BY <3>1, <3>2
  <2>6. \A j \in Ingests : ~(j = newest' /\ ingest'[j] = "done" /\ Chunks[j] # {})
    BY <1>1, <1>3, <2>2
  <2> QED BY <1>1, <2>4, <2>5, <2>6 DEF GenerationInv, OneRun, ChunksOf
<1> QED BY <1>1, <1>2, <1>3, <1>4, <1>5, ElsewhereScript

\* A run that fails leaves what Qdrant has accepted.
LEMMA ScriptFailsInv ==
    ASSUME GenerationInv, NEW i \in Ingests, ScriptFails(i) PROVE GenerationInv'
<1>1. /\ UNCHANGED <<vars, mode, generation, context, options, extractor, doctrine,
                     accepted, newest, overlapped>>
      /\ i \in UnderWay /\ ingest' = [ingest EXCEPT ![i] = "failed"]
  BY DEF ScriptFails
<1>2. /\ ingest \in [Ingests -> {"unmade", "embed", "wait", "done", "failed"}]
      /\ ingest' \in [Ingests -> {"unmade", "embed", "wait", "done", "failed"}]
      /\ accepted \in Seq(Updates)
      /\ doctrine' \subseteq Ingests \X UNION {Chunks[j] : j \in Ingests}
      /\ newest' \in Ingests \cup {None} /\ overlapped' \in BOOLEAN
  BY <1>1 DEF GenerationInv, GenerationTypeOK
<1>3. \A j \in Ingests : ingest'[j] = IF j = i THEN "failed" ELSE ingest[j]
  BY <1>1, <1>2
<1>4. OneRun'
  <2> SUFFICES ASSUME ~overlapped PROVE OneRun'
    BY <1>1 DEF OneRun
  <2>1. NewestOnly'
    BY <1>1, <1>3 DEF GenerationInv, OneRun, NewestOnly, UnderWay
  <2>2. \A k \in DOMAIN accepted : accepted[k].run \in Ingests
    BY <1>2, AcceptedUpdates
  <2>3. UpsertsFollowDeletes'
    BY <1>1, <1>3, <2>2 DEF GenerationInv, OneRun, UpsertsFollowDeletes, ChunksOf
  <2> QED BY <1>1, <1>3, <2>1, <2>3 DEF GenerationInv, OneRun, ChunksOf
<1> QED BY <1>1, <1>2, <1>4, ElsewhereScript

\* What Qdrant is at work on deletes, or adds to what is of the same run.
LEMMA ApplyPartlyInv == ASSUME GenerationInv, ApplyPartly PROVE GenerationInv'
<1>1. /\ UNCHANGED <<vars, mode, generation, context, options, extractor, ingest,
                     accepted, newest, overlapped>>
      /\ accepted # <<>>
      /\ \/ accepted[1].op = "delete" /\ doctrine' \subseteq doctrine
         \/ accepted[1].op = "upsert" /\ doctrine' \subseteq doctrine \cup ChunksOf(accepted[1].run)
  BY DEF ApplyPartly, GenerationInv, GenerationTypeOK
<1>2. /\ ingest' \in [Ingests -> {"unmade", "embed", "wait", "done", "failed"}]
      /\ accepted \in Seq(Updates) /\ accepted' \in Seq(Updates)
      /\ newest' \in Ingests \cup {None} /\ overlapped' \in BOOLEAN
      /\ doctrine \subseteq Ingests \X UNION {Chunks[j] : j \in Ingests}
  BY <1>1 DEF GenerationInv, GenerationTypeOK
<1>3. 1 \in DOMAIN accepted /\ accepted[1].run \in Ingests
  BY <1>1, <1>2, AcceptedUpdates
<1>4. doctrine' \subseteq Ingests \X UNION {Chunks[j] : j \in Ingests}
  <2>1. ChunksOf(accepted[1].run) \subseteq Ingests \X UNION {Chunks[j] : j \in Ingests}
    BY <1>3 DEF ChunksOf
  <2> QED BY <1>1, <1>2, <2>1
<1>5. OneRun'
  <2> SUFFICES ASSUME ~overlapped PROVE OneRun'
    BY <1>1 DEF OneRun
  <2>1. NewestOnly /\ UpsertsFollowDeletes
    BY DEF GenerationInv, OneRun
  <2>2. accepted[1].op = "upsert" => doctrine \subseteq ChunksOf(accepted[1].run)
    BY <1>3, <2>1 DEF UpsertsFollowDeletes
  <2>3. \/ doctrine' \subseteq doctrine
        \/ doctrine' \subseteq ChunksOf(accepted[1].run)
    BY <1>1, <2>2
  <2>4. NewestOnly'
    BY <1>1, <2>1 DEF NewestOnly, UnderWay
  <2>5. UpsertsFollowDeletes'
    BY <1>1, <2>1, <2>2 DEF UpsertsFollowDeletes, ChunksOf
  <2>6. doctrine' # {} => \E i \in Ingests : doctrine' \subseteq ChunksOf(i)
    BY <1>3, <2>3 DEF GenerationInv, OneRun
  <2> QED BY <1>1, <2>4, <2>5, <2>6 DEF GenerationInv, OneRun, ChunksOf
<1> QED BY <1>1, <1>2, <1>4, <1>5, ElsewhereScript

\* The first update leaves nothing, or all that its run sent; whoever waits for that
\* was the last.
LEMMA ApplyUpdateInv == ASSUME GenerationInv, ApplyUpdate PROVE GenerationInv'
<1> DEFINE i == accepted[1].run
<1>1. /\ UNCHANGED <<vars, mode, generation, context, options, extractor, newest, overlapped>>
      /\ accepted # <<>> /\ accepted' = Tail(accepted)
      /\ \/ accepted[1].op = "delete" /\ doctrine' = {} /\ ingest' = ingest
         \/ /\ accepted[1].op = "upsert"
            /\ doctrine' = doctrine \cup ChunksOf(i)
            /\ ingest' = [ingest EXCEPT ![i] = IF @ = "wait" THEN "done" ELSE @]
  BY DEF ApplyUpdate, GenerationInv, GenerationTypeOK
<1>2. /\ ingest \in [Ingests -> {"unmade", "embed", "wait", "done", "failed"}]
      /\ accepted \in Seq(Updates)
      /\ newest' \in Ingests \cup {None} /\ overlapped' \in BOOLEAN
      /\ doctrine \subseteq Ingests \X UNION {Chunks[j] : j \in Ingests}
  BY <1>1 DEF GenerationInv, GenerationTypeOK
<1>3. /\ 1 \in DOMAIN accepted /\ i \in Ingests
      /\ accepted' \in Seq(Updates) /\ Len(accepted') = Len(accepted) - 1
      /\ \A k \in DOMAIN accepted' : accepted'[k] = accepted[k + 1] /\ k + 1 \in DOMAIN accepted
  BY <1>1, <1>2, AcceptedUpdates
<1>4. /\ doctrine' \subseteq Ingests \X UNION {Chunks[j] : j \in Ingests}
      /\ ingest' \in [Ingests -> {"unmade", "embed", "wait", "done", "failed"}]
  <2>1. ChunksOf(i) \subseteq Ingests \X UNION {Chunks[j] : j \in Ingests}
    BY <1>3 DEF ChunksOf
  <2> QED BY <1>1, <1>2, <1>3, <2>1
<1>5. OneRun'
  <2> SUFFICES ASSUME ~overlapped PROVE OneRun'
    BY <1>1 DEF OneRun
  <2>1. NewestOnly /\ UpsertsFollowDeletes
    BY DEF GenerationInv, OneRun
  <2>2. \A k \in DOMAIN accepted' : accepted'[k].run \in Ingests
    BY <1>3, AcceptedUpdates
  <2>3. CASE accepted[1].op = "delete"
    <3>1. doctrine' = {} /\ ingest' = ingest
      BY <1>1, <2>3
    <3>2. NewestOnly'
      <4>1. accepted' # <<>> => accepted'[Len(accepted')] = accepted[Len(accepted)]
        BY <1>2, <1>3
      <4>2. accepted' = <<>> => Len(accepted) = 1
        BY <1>2, <1>3
      <4>3. newest' \in Ingests \cup {None} /\ UnderWay' \subseteq {newest'}
        BY <1>1, <2>1, <3>1 DEF NewestOnly, UnderWay
      <4>4. ASSUME NEW j \in Ingests, ingest'[j] = "embed"
            PROVE  IF accepted' = <<>> THEN doctrine' = {}
                   ELSE accepted'[Len(accepted')] = [op |-> "delete", run |-> j]
        BY <1>1, <2>1, <3>1, <4>1, <4>4 DEF NewestOnly
      <4>5. ASSUME NEW j \in Ingests, ingest'[j] = "wait"
            PROVE  accepted' # <<>> /\ accepted'[Len(accepted')] = [op |-> "upsert", run |-> j]
        <5>1. accepted[Len(accepted)].op = "upsert"
              /\ accepted[Len(accepted)] = [op |-> "upsert", run |-> j]
          BY <2>1, <3>1, <4>5 DEF NewestOnly
        <5>2. accepted' # <<>>
          BY <2>3, <4>2, <5>1
        <5> QED BY <4>1, <5>1, <5>2
      <4> QED BY <4>3, <4>4, <4>5 DEF NewestOnly
    <3>3. UpsertsFollowDeletes'
      <4> SUFFICES ASSUME NEW k \in DOMAIN accepted', accepted'[k].op = "upsert"
                   PROVE  /\ ingest'[accepted'[k].run] \in {"wait", "failed"}
                          /\ ingest'[accepted'[k].run] = "wait" => k = Len(accepted')
                          /\ IF k = 1 THEN doctrine' \subseteq ChunksOf(accepted'[1].run)
                             ELSE accepted'[k - 1].op = "delete"
        BY DEF UpsertsFollowDeletes, ChunksOf
      <4>1. k \in Nat \ {0} /\ k + 1 \in DOMAIN accepted /\ accepted'[k] = accepted[k + 1]
        BY <1>3
      <4>2. /\ ingest[accepted[k + 1].run] \in {"wait", "failed"}
            /\ ingest[accepted[k + 1].run] = "wait" => k + 1 = Len(accepted)
            /\ accepted[k].op = "delete"
        BY <2>1, <4>1 DEF UpsertsFollowDeletes
      <4>3. k # 1 => accepted'[k - 1] = accepted[k]
        <5> SUFFICES ASSUME k # 1 PROVE accepted'[k - 1] = accepted[(k - 1) + 1]
          BY <4>1
        <5>1. k - 1 \in DOMAIN accepted'
          BY <1>3, <4>1
        <5> QED BY <1>3, <5>1
      <4>4. ingest'[accepted'[k].run] = "wait" => k = Len(accepted')
        BY <1>2, <1>3, <3>1, <4>1, <4>2
      <4> QED BY <3>1, <4>1, <4>2, <4>3, <4>4
    <3>4. \A j \in Ingests : ~(j = newest' /\ ingest'[j] = "done" /\ Chunks[j] # {})
      BY <1>1, <3>1 DEF GenerationInv, OneRun
    <3> QED BY <1>1, <3>1, <3>2, <3>3, <3>4 DEF GenerationInv, OneRun, ChunksOf
  <2>4. CASE accepted[1].op = "upsert"
    <3>1. /\ ingest[i] \in {"wait", "failed"}
          /\ ingest[i] = "wait" => 1 = Len(accepted)
          /\ doctrine \subseteq ChunksOf(i)
      BY <1>3, <2>1, <2>4 DEF UpsertsFollowDeletes
    <3>2. doctrine' = ChunksOf(i)
      BY <1>1, <2>4, <3>1
    <3>3. \A j \in Ingests : ingest'[j] = IF j = i /\ ingest[i] = "wait" THEN "done" ELSE ingest[j]
      BY <1>1, <1>2, <1>3, <2>4
    <3>4. accepted' # <<>> => accepted'[Len(accepted')] = accepted[Len(accepted)]
      BY <1>2, <1>3
    <3>5. accepted' = <<>> <=> Len(accepted) = 1
      BY <1>2, <1>3
    <3>6. NewestOnly'
      <4>1. newest' \in Ingests \cup {None} /\ UnderWay' \subseteq {newest'}
        BY <1>1, <2>1, <3>3 DEF NewestOnly, UnderWay
      <4>2. ASSUME NEW j \in Ingests, ingest'[j] = "embed"
            PROVE  accepted' # <<>> /\ accepted'[Len(accepted')] = [op |-> "delete", run |-> j]
        <5>1. accepted[Len(accepted)] = [op |-> "delete", run |-> j]
              /\ accepted[Len(accepted)].op = "delete"
          BY <1>1, <2>1, <3>3, <4>2 DEF NewestOnly
        <5> QED BY <2>4, <3>4, <3>5, <5>1
      <4>3. ASSUME NEW j \in Ingests, ingest'[j] = "wait"
            PROVE  accepted' # <<>> /\ accepted'[Len(accepted')] = [op |-> "upsert", run |-> j]
        <5>1. ingest[j] = "wait" /\ ~(j = i)
          BY <3>3, <4>3
        <5>2. accepted[Len(accepted)] = [op |-> "upsert", run |-> j]
              /\ accepted[Len(accepted)].run = j
          BY <2>1, <5>1 DEF NewestOnly
        <5>3. Len(accepted) # 1
          BY <5>1, <5>2
        <5> QED BY <3>4, <3>5, <5>2, <5>3
      <4> QED BY <4>1, <4>2, <4>3 DEF NewestOnly
    <3>7. UpsertsFollowDeletes'
      <4> SUFFICES ASSUME NEW k \in DOMAIN accepted', accepted'[k].op = "upsert"
                   PROVE  /\ ingest'[accepted'[k].run] \in {"wait", "failed"}
                          /\ ingest'[accepted'[k].run] = "wait" => k = Len(accepted')
                          /\ k # 1 /\ accepted'[k - 1].op = "delete"
        BY DEF UpsertsFollowDeletes, ChunksOf
      <4>1. k \in Nat \ {0} /\ k + 1 \in DOMAIN accepted /\ accepted'[k] = accepted[k + 1]
        BY <1>3
      <4>2. /\ ingest[accepted[k + 1].run] \in {"wait", "failed"}
            /\ ingest[accepted[k + 1].run] = "wait" => k + 1 = Len(accepted)
            /\ accepted[k].op = "delete"
        BY <2>1, <4>1 DEF UpsertsFollowDeletes
      <4>3. k # 1
        BY <2>4, <4>2
      <4>4. accepted'[k - 1] = accepted[k]
        <5>1. k - 1 \in DOMAIN accepted' /\ (k - 1) + 1 = k
          BY <1>3, <4>1, <4>3
        <5> QED BY <1>3, <5>1
      <4>5. ingest[i] = "failed"
        BY <1>2, <3>1, <4>1
      <4>6. ingest'[accepted'[k].run] = ingest[accepted[k + 1].run]
        BY <2>2, <3>3, <4>1, <4>5
      <4>7. k + 1 = Len(accepted) => k = Len(accepted')
        BY <1>2, <1>3, <4>1
      <4> QED BY <4>2, <4>3, <4>4, <4>6, <4>7
    <3>8. ASSUME NEW j \in Ingests, j = newest', ingest'[j] = "done", Chunks[j] # {}
          PROVE  accepted' = <<>> /\ doctrine' = ChunksOf(j)
      <4>1. ~(ingest[j] = "done")
        BY <1>1, <3>8 DEF GenerationInv, OneRun
      <4>2. j = i /\ ingest[i] = "wait"
        BY <3>3, <3>8, <4>1
      <4> QED BY <3>1, <3>2, <3>5, <4>2
    <3> QED BY <1>1, <1>3, <3>2, <3>6, <3>7, <3>8 DEF GenerationInv, OneRun, ChunksOf
  <2>5. accepted[1].op \in {"delete", "upsert"}
    BY <1>1
  <2> QED BY <2>3, <2>4, <2>5
<1> QED BY <1>1, <1>2, <1>3, <1>4, <1>5, ElsewhereScript

\* Commanders and crashes touch neither doctrine nor options, and no row becomes one
\* of a course of action that was not stored.
LEMMA DecisionInv ==
    ASSUME GenerationInv, Decision \/ GenerationCrash PROVE GenerationInv'
<1>1. UNCHANGED <<mode, options, ingest, doctrine, accepted, newest, overlapped>>
  BY DEF Decision, GenerationCrash, generationVars
<1>6. /\ context' \in [Coas -> SUBSET (Ingests \X UNION {Chunks[i] : i \in Ingests})]
      /\ \A c \in Coas : context'[c] = context[c] \/ context'[c] \subseteq doctrine
  BY DEF GenerationInv, GenerationTypeOK, Decision, GenerationCrash, generationVars
<1>7. OneRun'
  BY <1>1, <1>6, SameDoctrine DEF GenerationInv
<1>2. ApprovalInv'
  BY MakeInv, DecideInv, WriteEntryInv, AnswerInv, CrashInv
     DEF GenerationInv, Decision, GenerationCrash, Handle
<1>3. GenerationTypeOK'
  <2>1. generation' \in [Coas -> {"unmade", "search", "ask", "over"}]
    BY DEF GenerationInv, GenerationTypeOK, Decision, GenerationCrash, generationVars
  <2>2. extractor' \in {"none", "loading", "ready", "failed"}
    BY DEF GenerationInv, GenerationTypeOK, Decision, GenerationCrash, generationVars
  <2> QED BY <1>1, <1>2, <1>6, <2>1, <2>2 DEF GenerationInv, GenerationTypeOK, ApprovalInv
<1>4. ASSUME NEW c \in Coas, coas'[c] # NoCoa PROVE coas[c] # NoCoa
  <2>1. CASE \E r \in Requests : Decide(r)
    BY <1>4, <2>1 DEF GenerationInv, ApprovalInv, TypeOK, Decide
  <2>2. CASE UNCHANGED coas
    BY <1>4, <2>2
  <2> QED BY <2>1, <2>2
          DEF Decision, GenerationCrash, Make, Handle, WriteEntry, Answer, AuditFails, Crash
<1>5. StoredOptions'
  BY <1>1, <1>4 DEF GenerationInv, StoredOptions
<1> QED BY <1>2, <1>3, <1>5, <1>7 DEF GenerationInv

\* Every step keeps the invariant.
LEMMA GenerationNextInv == GenerationInv /\ [GenerationNext]_allVars => GenerationInv'
<1> SUFFICES ASSUME GenerationInv, [GenerationNext]_allVars PROVE GenerationInv'
  OBVIOUS
<1>1. ASSUME NEW c \in Coas, AskForCoa(c) \/ Search(c) \/ AskModel(c) PROVE GenerationInv'
  BY <1>1, LoadInv, SearchInv, AskModelInv
<1>2. ASSUME NEW i \in Ingests, DeleteChunks(i) \/ SendUpsert(i) \/ ScriptFails(i)
      PROVE  GenerationInv'
  BY <1>2, DeleteInv, UpsertInv, ScriptFailsInv
<1>6. CASE ApplyPartly \/ ApplyUpdate
  BY <1>6, ApplyPartlyInv, ApplyUpdateInv
<1>3. CASE LoadExtractor
  BY <1>3, LoadInv
<1>4. CASE Decision \/ GenerationCrash
  BY <1>4, DecisionInv
<1>5. CASE UNCHANGED allVars
  <2>1. ApprovalInv'
    BY <1>5, ElsewhereInv DEF GenerationInv, ApprovalInv, TypeOK, allVars, vars
  <2>2. GenerationTypeOK'
    BY <1>5, <2>1
       DEF GenerationInv, GenerationTypeOK, ApprovalInv, allVars, generationVars
  <2>3. OneRun'
    BY <1>5, SameDoctrine DEF GenerationInv, allVars, generationVars
  <2> QED BY <1>5, <2>1, <2>2, <2>3
          DEF GenerationInv, StoredOptions, allVars, generationVars, vars
<1> QED BY <1>1, <1>2, <1>3, <1>4, <1>5, <1>6 DEF GenerationNext

\* The invariant holds in every state.
LEMMA GenerationInvAlways == GenerationSpec => []GenerationInv
BY GenerationInitInv, GenerationNextInv, PTL DEF GenerationSpec

------------------------------------------------------------------------------
\* The trail tells what was decided, once, of every decision a commander was told of,
\* and in order (approveCoa and rejectCoa answer after auditClient.write).
THEOREM TrailTells == GenerationSpec => []TrailIsTrue
<1>1. GenerationInv => TrailIsTrue
  <2> SUFFICES ASSUME ApprovalInv PROVE TrailIsTrue
    BY DEF GenerationInv
  <2>1. ASSUME NEW r \in Requests, Audited(r)
        PROVE  coas[request[r].coa].status \in {"APPROVED", "REJECTED"}
    <3>1. coas[request[r].coa] \in Decisions
      BY <2>1 DEF ApprovalInv, Standing, Audited, ToSet
    <3> QED BY <3>1 DEF Decisions
  <2> QED BY <2>1 DEF ApprovalInv, Standing, TrailInOrder, TrailIsTrue
<1> QED BY <1>1, GenerationInvAlways, PTL

\* Where the decisions on a COA did not overlap and none broke off, its row agrees
\* with its last entry, although the two are written by two services (decideCoa).
THEOREM LastEntryInForce == GenerationSpec => []TrailEndsInForce
<1>1. GenerationInv => TrailEndsInForce
  <2> SUFFICES ASSUME ApprovalInv, NEW c \in Coas,
                      \A r \in Requests : request[r].coa = c =>
                         pc[r] \notin {"audit", "answer", "error"},
                      NEW last \in DOMAIN audit, request[audit[last]].coa = c,
                      \A i \in DOMAIN audit \ {last} : request[audit[i]].coa = c =>
                         <<audit[i], audit[last]>> \in before
               PROVE  coas[c] = request[audit[last]].decision
    BY DEF GenerationInv, TrailEndsInForce
  <2>1. /\ audit[last] \in Requests
        /\ pc[audit[last]] = "ok"
        /\ coas[c] \in Decisions
    <3>1. audit[last] \in Requests
      BY DEF ApprovalInv, TypeOK
    <3> QED BY <3>1 DEF ApprovalInv, Standing
  <2>2. PICK r \in Requests : InForce(r, c)
    BY <2>1 DEF ApprovalInv, SomeoneDecided
  <2>3. pc[r] = "ok" /\ <<r, audit[last]>> \notin before
    BY <2>1, <2>2 DEF InForce, Deciding
  <2>4. PICK i \in DOMAIN audit : audit[i] = r
    BY <2>3 DEF ApprovalInv, Standing, Audited, ToSet
  <2>5. i = last
    BY <2>2, <2>3, <2>4 DEF InForce
  <2> QED BY <2>2, <2>4, <2>5 DEF InForce
<1> QED BY <1>1, GenerationInvAlways, PTL

\* As long as runs of ingest-doctrine do not overlap, no course of action rests on chunks
\* of two, although Qdrant only acknowledges a delete and is searched with updates half
\* applied; and what a run reported as ingested is all that is there (doctrine.ts).
THEOREM OneRunsDoctrine == GenerationSpec => []DoctrineIsOfOneRun
<1>1. GenerationInv => DoctrineIsOfOneRun
  BY DEF GenerationInv, OneRun, NewestOnly, DoctrineIsOfOneRun
<1> QED BY <1>1, GenerationInvAlways, PTL

\* Whatever is added up and whatever the threshold, the edge stores nothing that has
\* fewer options than were asked for (generateCoaEdge).
THEOREM AllOptionsStored == GenerationSpec => []EdgeStoresAllOptions
<1>1. GenerationInv => EdgeStoresAllOptions
  <2> SUFFICES ASSUME GenerationInv, mode = "edge", NEW c \in Coas, coas[c] # NoCoa
               PROVE  /\ Len(options[c]) = NumOptions
                      /\ Total(options[c]) >= MinConfidence * NumOptions
    BY DEF EdgeStoresAllOptions
  <2>1. /\ options[c] \in [1..NumOptions -> Confidences]
        /\ PassesEdge(options[c])
        /\ NumOptions \in Nat \ {0}
    BY GenerationAssumption DEF GenerationInv, StoredOptions, GenerationAssumption
  <2>2. DOMAIN options[c] = 1..NumOptions /\ 1 \in 1..NumOptions /\ Len(options[c]) = NumOptions
    BY <2>1
  <2>3. Cardinality(1..NumOptions) = NumOptions
    BY <2>1, FS_Interval
  <2> QED BY <2>1, <2>2, <2>3 DEF PassesEdge
<1> QED BY <1>1, GenerationInvAlways, PTL
================================================================================
