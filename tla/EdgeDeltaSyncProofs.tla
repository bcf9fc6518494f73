------------------------ MODULE EdgeDeltaSyncProofs ------------------------
(***************************************************************************)
(* What the comparison of every delivery with the stored offset buys, for  *)
(* any partitions and entities, any number of crashes, lost brokers and    *)
(* expiries, and however far before the offset sought a delivery starts:   *)
(* the node takes the deltas of a partition as EntityMirror says it does,  *)
(* and its offsets never go back.                                          *)
(***************************************************************************)
EXTENDS EdgeDeltaSync, TLAPS

\* Deltas are keyed by entity.
LogKeyed ==
    \A p \in Partitions : \A o \in 1..Len(log[p]) : PartitionOf[log[p][o]] = p

\* Between its two statements the handler holds a delta that was not applied
\* before, the row shows it, and nothing moves the consumer meanwhile.
HeldDelta(p) ==
    /\ node = "online"
    /\ position[p] \in 1..Len(log[p])
    /\ ~AlreadyApplied(p)
    /\ mirror[log[p][position[p]]] = position[p]

\* Inductive: comparing with the offset is one statement and writing it another, so
\* that the offset grows rests on what is still true in between.
Inv ==
    /\ TypeOK
    /\ LogKeyed
    /\ \A p \in Partitions : applying = p => HeldDelta(p)

\* The constants as the proofs use them.
LEMMA Constants ==
    /\ PartitionOf \in [Entities -> Partitions]
    /\ None \notin Partitions
    /\ Early \in Nat /\ MaxLog \in Nat
    /\ MaxCrashes \in Nat /\ MaxDisconnects \in Nat /\ MaxExpiries \in Nat
BY EdgeAssumption DEF EdgeAssumption

USE Constants

\* What the type invariant says of one partition.
LEMMA Typed ==
    ASSUME TypeOK, NEW p \in Partitions
    PROVE  /\ log[p] \in Seq(Entities)
           /\ Len(log[p]) \in Nat /\ Len(log[p]) <= MaxLog
           /\ stored[p] \in Nat /\ stored[p] <= MaxLog
           /\ committed[p] \in Nat /\ committed[p] <= MaxLog
           /\ position[p] \in Nat /\ 1 <= position[p] /\ position[p] <= MaxLog + 1
<1>1. log[p] \in Seq(Entities) /\ Len(log[p]) <= MaxLog
  BY DEF TypeOK
<1>2. /\ stored[p] \in 0..MaxLog /\ committed[p] \in 0..MaxLog
      /\ position[p] \in 1..(MaxLog + 1)
  BY DEF TypeOK
<1> QED BY <1>1, <1>2

\* A delivery is of a delta of the partition, and one that is not skipped lies beyond
\* the stored offset.
LEMMA DeliveryIsNew ==
    ASSUME Inv, NEW p \in Partitions, position[p] <= Len(log[p]), ~AlreadyApplied(p)
    PROVE  /\ position[p] \in 1..Len(log[p]) /\ position[p] \in 0..MaxLog
           /\ log[p][position[p]] \in Entities
           /\ PartitionOf[log[p][position[p]]] = p
           /\ position[p] > stored[p]
<1>1. TypeOK /\ position[p] \in 1..Len(log[p]) /\ position[p] \in 0..MaxLog
  BY Typed DEF Inv
<1> QED BY <1>1, Typed DEF Inv, LogKeyed, AlreadyApplied

\* The node starts with nothing applied.
LEMMA InitInv == Init => Inv
<1> SUFFICES ASSUME Init PROVE Inv
  OBVIOUS
<1>1. \A p \in Partitions : log[p] = <<>>
  BY DEF Init
<1>2. TypeOK
  BY <1>1 DEF Init, TypeOK
<1> QED BY <1>1, <1>2 DEF Init, Inv, LogKeyed

\* A delta is put at the end of its entity's partition.
LEMMA UpsertedInv == ASSUME Inv, NEW e \in Entities, Upserted(e) PROVE Inv'
<1> DEFINE q == PartitionOf[e]
<1>1. q \in Partitions /\ TypeOK /\ log[q] \in Seq(Entities)
  BY DEF Inv, TypeOK
<1>2. /\ \A p \in Partitions \ {q} : log'[p] = log[p]
      /\ log'[q] = Append(log[q], e)
  BY <1>1 DEF TypeOK, Upserted
<1>3. /\ Len(log'[q]) = Len(log[q]) + 1
      /\ log'[q][Len(log[q]) + 1] = e
      /\ \A o \in 1..Len(log[q]) : log'[q][o] = log[q][o]
  BY <1>1, <1>2
<1>4. TypeOK'
  <2>1. log' \in [Partitions -> Seq(Entities)]
    BY <1>1 DEF TypeOK, Upserted
  <2>2. ASSUME NEW p \in Partitions PROVE Len(log'[p]) <= MaxLog
    BY <1>1, <1>2, <1>3, Typed, <2>2 DEF Upserted
  <2> QED BY <2>1, <2>2, <1>1 DEF TypeOK, Upserted, store, bounds
<1>5. ASSUME NEW p \in Partitions, NEW o \in 1..Len(log'[p])
      PROVE  PartitionOf[log'[p][o]] = p
  <2>1. CASE p # q
    BY <1>2, <2>1 DEF Inv, LogKeyed
  <2>2. CASE p = q /\ o \in 1..Len(log[q])
    BY <1>1, <1>3, <2>2 DEF Inv, LogKeyed
  <2>3. CASE p = q /\ o = Len(log[q]) + 1
    BY <1>3, <2>3
  <2> QED BY <1>1, <1>3, <2>1, <2>2, <2>3, Typed
<1>6. ASSUME NEW p \in Partitions, applying = p PROVE HeldDelta(p)'
  <2>1. HeldDelta(p)
    BY <1>6 DEF Inv
  <2>2. Len(log'[p]) >= Len(log[p]) /\ Len(log'[p]) \in Nat
    BY <1>1, <1>2, <1>3, Typed
  <2>3. log'[p][position[p]] = log[p][position[p]]
    BY <1>2, <1>3, <2>1 DEF HeldDelta
  <2> QED BY <1>1, <2>1, <2>2, <2>3, Typed DEF HeldDelta, AlreadyApplied, Upserted, store
<1> QED BY <1>4, <1>5, <1>6 DEF Inv, LogKeyed, Upserted

\* A process start and a rejoin move the consumer while no handler runs.
LEMMA JoinInv == ASSUME Inv, Start \/ Rejoin PROVE Inv'
<1>1. applying = None /\ applying' = None /\ TypeOK
  BY DEF Inv, TypeOK, HeldDelta, Start, Rejoin
<1>2. ASSUME NEW p \in Partitions PROVE Resume(p) \in 1..(MaxLog + 1)
  BY <1>1, Typed DEF Resume
<1>3. position' \in [Partitions -> 1..(MaxLog + 1)]
  <2>1. CASE Rejoin
    BY <1>2, <2>1 DEF Rejoin
  <2>2. CASE Start
    <3>1. PICK back \in 0..Early :
            position' = [p \in Partitions |->
               IF stored[p] = 0 THEN Resume(p)
               ELSE IF stored[p] >= back THEN stored[p] + 1 - back ELSE 1]
      BY <2>2 DEF Start
    <3>2. ASSUME NEW p \in Partitions
          PROVE  (IF stored[p] = 0 THEN Resume(p)
                  ELSE IF stored[p] >= back THEN stored[p] + 1 - back ELSE 1)
                    \in 1..(MaxLog + 1)
      BY <1>1, <1>2, Typed
    <3> QED BY <3>1, <3>2
  <2> QED BY <2>1, <2>2
<1>4. TypeOK'
  BY <1>1, <1>3 DEF TypeOK, Start, Rejoin, store, bounds
<1> QED BY <1>1, <1>4 DEF Inv, LogKeyed, Start, Rejoin

\* The comparison and the first statement.
LEMMA ApplyInv == ASSUME Inv, NEW p \in Partitions, Apply(p) PROVE Inv'
<1>1. /\ position[p] \in 1..Len(log[p]) /\ position[p] \in 0..MaxLog
      /\ log[p][position[p]] \in Entities
  BY DeliveryIsNew DEF Apply, Delivered
<1>2. TypeOK'
  <2>1. mirror' \in [Entities -> 0..MaxLog]
    BY <1>1 DEF Inv, TypeOK, Apply
  <2> QED BY <2>1 DEF Inv, TypeOK, Apply, bounds
<1>3. HeldDelta(p)'
  <2>1. mirror'[log[p][position[p]]] = position[p]
    BY <1>1 DEF Inv, TypeOK, Apply
  <2> QED BY <1>1, <2>1 DEF HeldDelta, Apply, Delivered, AlreadyApplied
<1> QED BY <1>2, <1>3 DEF Inv, LogKeyed, Apply

\* The second statement, or its failure.
LEMMA SetOffsetInv ==
    ASSUME Inv, NEW p \in Partitions, SetOffset(p) \/ SetOffsetThrows(p) PROVE Inv'
<1>1. position[p] \in 1..Len(log[p]) /\ ~AlreadyApplied(p)
  BY DEF Inv, HeldDelta, SetOffset, SetOffsetThrows
<1>2. position[p] \in 0..MaxLog /\ position[p] + 1 \in 1..(MaxLog + 1)
  BY <1>1, DeliveryIsNew, Typed
<1>3. TypeOK'
  <2>1. CASE SetOffset(p)
    <3>1. /\ stored' \in [Partitions -> 0..MaxLog]
          /\ resolved' \in [Partitions -> 0..MaxLog]
          /\ position' \in [Partitions -> 1..(MaxLog + 1)]
      BY <1>2, <2>1 DEF Inv, TypeOK, SetOffset
    <3> QED BY <2>1, <3>1 DEF Inv, TypeOK, SetOffset, bounds
  <2>2. CASE SetOffsetThrows(p)
    <3>1. crashes' \in 0..MaxCrashes
      BY <2>2 DEF Inv, TypeOK, SetOffsetThrows
    <3> QED BY <2>2, <3>1 DEF Inv, TypeOK, SetOffsetThrows, store
  <2> QED BY <2>1, <2>2
<1> QED BY <1>3 DEF Inv, LogKeyed, SetOffset, SetOffsetThrows

\* A delivery that is not applied, and what the broker does by itself.
LEMMA SkipInv ==
    ASSUME Inv, NEW p \in Partitions, Skip(p) \/ AutoCommit(p) PROVE Inv'
<1>1. CASE Skip(p)
  <2>1. position[p] \in 0..MaxLog /\ position[p] + 1 \in 1..(MaxLog + 1)
    BY <1>1, Typed DEF Inv, Skip, Delivered
  <2>2. /\ resolved' \in [Partitions -> 0..MaxLog]
        /\ position' \in [Partitions -> 1..(MaxLog + 1)]
    BY <1>1, <2>1 DEF Inv, TypeOK, Skip
  <2>3. TypeOK'
    BY <1>1, <2>2 DEF Inv, TypeOK, Skip, store, bounds
  <2> QED BY <1>1, <2>3 DEF Inv, LogKeyed, Skip, Delivered
<1>2. CASE AutoCommit(p)
  <2>1. committed' \in [Partitions -> 0..MaxLog]
    BY <1>2 DEF Inv, TypeOK, AutoCommit
  <2>2. TypeOK'
    BY <1>2, <2>1 DEF Inv, TypeOK, AutoCommit, store, bounds
  <2> QED BY <1>2, <2>2 DEF Inv, LogKeyed, HeldDelta, AlreadyApplied, AutoCommit, store
<1> QED BY <1>1, <1>2

\* Going down, offline, or being forgotten.
LEMMA AwayInv == ASSUME Inv, Crash \/ Disconnect \/ Expire PROVE Inv'
<1>1. applying' = None
  BY DEF Inv, TypeOK, HeldDelta, Crash, Disconnect, Expire
<1>2. /\ crashes' \in 0..MaxCrashes
      /\ disconnects' \in 0..MaxDisconnects
      /\ expiries' \in 0..MaxExpiries
  <2>1. /\ crashes \in 0..MaxCrashes
        /\ disconnects \in 0..MaxDisconnects
        /\ expiries \in 0..MaxExpiries
    BY DEF Inv, TypeOK
  <2> QED BY <2>1 DEF Crash, Disconnect, Expire
<1>3. TypeOK'
  BY <1>1, <1>2 DEF Inv, TypeOK, Crash, Disconnect, Expire, store
<1> QED BY <1>1, <1>3 DEF Inv, LogKeyed, Crash, Disconnect, Expire

\* Every step keeps the invariant.
LEMMA NextInv == Inv /\ [Next]_vars => Inv'
<1> SUFFICES ASSUME Inv, [Next]_vars PROVE Inv'
  OBVIOUS
<1>1. ASSUME NEW e \in Entities, Upserted(e) PROVE Inv'
  BY <1>1, UpsertedInv
<1>2. ASSUME NEW p \in Partitions, EachMessage(p) \/ SetOffsetThrows(p) \/ AutoCommit(p)
      PROVE  Inv'
  BY <1>2, SkipInv, ApplyInv, SetOffsetInv DEF EachMessage
<1>3. CASE Start \/ Crash \/ Disconnect \/ Rejoin \/ Expire
  BY <1>3, JoinInv, AwayInv
<1>4. CASE UNCHANGED vars
  BY <1>4 DEF Inv, TypeOK, LogKeyed, HeldDelta, AlreadyApplied, vars, store, bounds
<1> QED BY <1>1, <1>2, <1>3, <1>4 DEF Next

\* The invariant holds in every state.
LEMMA InvAlways == Spec => []Inv
BY InitInv, NextInv, PTL DEF Spec

------------------------------------------------------------------------------
\* A row is overwritten by a handler that has compared its delta with the offset, and
\* an offset by the position of that delta.
LEMMA StepGoesOn ==
    ASSUME Inv, [Next]_vars
    PROVE  /\ \A p \in Partitions : stored'[p] >= stored[p]
           /\ \A e \in Entities :
                 mirror[e] <= stored[PartitionOf[e]] + 1 => mirror'[e] >= mirror[e]
<1>1. /\ \A p \in Partitions : stored[p] \in Nat
      /\ \A e \in Entities : mirror[e] \in Nat
  BY DEF Inv, TypeOK
<1>2. CASE UNCHANGED store
  BY <1>1, <1>2 DEF store
<1>3. ASSUME NEW p \in Partitions, Apply(p), NEW e \in Entities,
             mirror[e] <= stored[PartitionOf[e]] + 1
      PROVE  mirror'[e] >= mirror[e]
  <2>1. PartitionOf[log[p][position[p]]] = p /\ position[p] \in Nat /\ position[p] > stored[p]
    BY <1>3, DeliveryIsNew DEF Apply, Delivered
  <2>2. CASE e = log[p][position[p]]
    <3>1. mirror'[e] = position[p]
      BY <1>3, <2>2 DEF Inv, TypeOK, Apply
    <3> QED BY <1>1, <1>3, <2>1, <2>2, <3>1
  <2>3. CASE e # log[p][position[p]]
    <3>1. mirror'[e] = mirror[e]
      BY <1>3, <2>3 DEF Inv, TypeOK, Apply
    <3> QED BY <1>1, <3>1
  <2> QED BY <2>2, <2>3
<1>4. ASSUME NEW p \in Partitions, SetOffset(p), NEW q \in Partitions
      PROVE  stored'[q] >= stored[q]
  <2>1. position[p] \in Nat /\ position[p] > stored[p]
    BY <1>4, DeliveryIsNew DEF Inv, HeldDelta, SetOffset
  <2>2. stored'[q] = IF q = p THEN position[p] ELSE stored[q]
    BY <1>4 DEF Inv, TypeOK, SetOffset
  <2> QED BY <1>1, <2>1, <2>2
<1>5. \/ UNCHANGED store
      \/ \E p \in Partitions : Apply(p) /\ stored' = stored
      \/ \E p \in Partitions : SetOffset(p) /\ mirror' = mirror
  BY DEF Next, vars, EachMessage, Upserted, Skip, Apply, SetOffset, SetOffsetThrows,
         AutoCommit, Start, Crash, Disconnect, Rejoin, Expire, store
<1> QED BY <1>1, <1>2, <1>3, <1>4, <1>5

\* Whatever is delivered again, after a crash or a rejoin, neither the stored offsets
\* nor the rows they vouch for ever go back (deltaSync.ts's eachMessage).
THEOREM OffsetsGrow == Spec => NeverGoesBack
<1>1. Inv /\ [Next]_vars =>
        [/\ \A p \in Partitions : stored'[p] >= stored[p]
         /\ \A e \in Entities :
               mirror[e] <= stored[PartitionOf[e]] + 1 => mirror'[e] >= mirror[e]]_vars
  BY StepGoesOn
<1> QED BY <1>1, InvAlways, PTL DEF Spec, NeverGoesBack

------------------------------------------------------------------------------
\* The broker never knows more than the node has stored.
BrokerBehind ==
    \A p \in Partitions : resolved[p] <= stored[p] /\ committed[p] <= stored[p]

\* The handler returns from deltas at or below the stored offset only, and kafkajs
\* commits what the handler returned from.
LEMMA StepKeepsBrokerBehind ==
    ASSUME Inv, BrokerBehind, [Next]_vars PROVE BrokerBehind'
<1>1. ASSUME NEW p \in Partitions
      PROVE  /\ resolved[p] \in Nat /\ committed[p] \in Nat
             /\ stored[p] \in Nat /\ stored'[p] \in Nat /\ stored'[p] >= stored[p]
  <2>1. Inv'
    BY NextInv
  <2>2. /\ resolved[p] \in 0..MaxLog /\ committed[p] \in 0..MaxLog
        /\ stored[p] \in 0..MaxLog /\ stored'[p] \in 0..MaxLog
    BY <2>1 DEF Inv, TypeOK
  <2> QED BY <2>2, StepGoesOn
<1>2. ASSUME NEW p \in Partitions,
             \/ resolved'[p] \in {0, resolved[p]}
             \/ resolved'[p] \in Nat /\ resolved'[p] <= stored'[p],
             committed'[p] \in {0, committed[p], resolved[p]}
      PROVE  resolved'[p] <= stored'[p] /\ committed'[p] <= stored'[p]
  BY <1>1, <1>2 DEF BrokerBehind
<1>3. ASSUME NEW p \in Partitions, NEW q \in Partitions, Skip(p)
      PROVE  resolved'[q] <= stored'[q] /\ committed'[q] = committed[q]
  <2>1. resolved'[q] = IF q = p THEN position[p] ELSE resolved[q]
    BY <1>3 DEF Inv, TypeOK, Skip
  <2> QED BY <1>1, <1>3, <2>1 DEF BrokerBehind, Skip, AlreadyApplied, store
<1>4. ASSUME NEW p \in Partitions, NEW q \in Partitions, SetOffset(p)
      PROVE  resolved'[q] <= stored'[q] /\ committed'[q] = committed[q]
  <2>1. /\ resolved'[q] = IF q = p THEN position[p] ELSE resolved[q]
        /\ stored'[q] = IF q = p THEN position[p] ELSE stored[q]
        /\ position[p] \in 1..(MaxLog + 1)
    BY <1>4 DEF Inv, TypeOK, SetOffset
  <2> QED BY <1>4, <2>1 DEF BrokerBehind, SetOffset
<1>5. ASSUME NEW p \in Partitions, NEW q \in Partitions, AutoCommit(p)
      PROVE  resolved'[q] <= stored'[q] /\ committed'[q] <= stored'[q]
  <2>1. committed'[q] = IF q = p THEN resolved[p] ELSE committed[q]
    BY <1>5 DEF Inv, TypeOK, AutoCommit
  <2> QED BY <1>5, <2>1 DEF BrokerBehind, AutoCommit, store
<1>6. ASSUME NEW q \in Partitions,
             \/ UNCHANGED <<resolved, committed>>
             \/ resolved' = [p \in Partitions |-> 0] /\ UNCHANGED committed
             \/ committed' = [p \in Partitions |-> 0] /\ UNCHANGED resolved
      PROVE  resolved'[q] <= stored'[q] /\ committed'[q] <= stored'[q]
  BY <1>1, <1>2, <1>6
<1>7. \/ \E p \in Partitions : Skip(p) \/ SetOffset(p) \/ AutoCommit(p)
      \/ UNCHANGED <<resolved, committed>>
      \/ resolved' = [p \in Partitions |-> 0] /\ UNCHANGED committed
      \/ committed' = [p \in Partitions |-> 0] /\ UNCHANGED resolved
  BY DEF Next, vars, EachMessage, Upserted, Apply, SetOffsetThrows,
         Start, Crash, Disconnect, Rejoin, Expire
<1> QED BY <1>1, <1>3, <1>4, <1>5, <1>6, <1>7 DEF BrokerBehind

\* A place is lost in one case only: the broker has no offset of the group any more when
\* the running node, which does not seek again, rejoins.
LEMMA OnlyRejoinLoses ==
    ASSUME Inv, BrokerBehind, Next, NEW p \in PlaceLost' \ PlaceLost
    PROVE  Rejoin /\ committed[p] = 0
<1>0. p \in Partitions /\ p \in PlaceLost' /\ p \notin PlaceLost
  BY DEF PlaceLost
<1>1. /\ stored[p] \in Nat /\ position[p] \in Nat /\ committed[p] \in Nat
      /\ node' = "online" /\ stored'[p] > 0 /\ position'[p] > stored'[p] + 1
  BY <1>0, Typed DEF Inv, PlaceLost
<1>2. CASE UNCHANGED <<node, stored, position>>
  BY <1>2 DEF PlaceLost
<1>3. ASSUME NEW q \in Partitions, Skip(q) PROVE FALSE
  <2>1. position'[p] = IF p = q THEN position[p] + 1 ELSE position[p]
    BY <1>3 DEF Inv, TypeOK, Skip
  <2> QED BY <1>1, <1>3, <2>1 DEF Skip, AlreadyApplied, PlaceLost, store
<1>4. ASSUME NEW q \in Partitions, SetOffset(q) PROVE FALSE
  <2>1. /\ position'[p] = IF p = q THEN position[p] + 1 ELSE position[p]
        /\ stored'[p] = IF p = q THEN position[p] ELSE stored[p]
    BY <1>4 DEF Inv, TypeOK, SetOffset
  <2> QED BY <1>1, <1>4, <2>1 DEF SetOffset, PlaceLost
<1>5. ASSUME Start PROVE FALSE
  <2>1. PICK back \in 0..Early :
          position' = [r \in Partitions |->
             IF stored[r] = 0 THEN Resume(r)
             ELSE IF stored[r] >= back THEN stored[r] + 1 - back ELSE 1]
    BY <1>5 DEF Start
  <2>2. stored' = stored
    BY <1>5 DEF Start, store
  <2>3. position'[p] = IF stored[p] >= back THEN stored[p] + 1 - back ELSE 1
    BY <1>0, <1>1, <2>1, <2>2
  <2> QED BY <1>1, <2>2, <2>3
<1>6. ASSUME Rejoin PROVE committed[p] = 0
  <2>1. position'[p] = Resume(p) /\ stored' = stored
    BY <1>0, <1>6 DEF Rejoin, store
  <2> QED BY <1>0, <1>1, <2>1 DEF Resume, BrokerBehind
<1>7. CASE Crash \/ Disconnect
  BY <1>1, <1>7 DEF Crash, Disconnect
<1>8. \/ UNCHANGED <<node, stored, position>>
      \/ \E q \in Partitions : Skip(q) \/ SetOffset(q)
      \/ Start \/ Rejoin \/ Crash \/ Disconnect
  BY DEF Next, EachMessage, Upserted, Apply, SetOffsetThrows, AutoCommit, Expire, store
<1> QED BY <1>2, <1>3, <1>4, <1>5, <1>6, <1>7, <1>8

LEMMA BrokerAlwaysBehind == Spec => []BrokerBehind
<1>1. Init => BrokerBehind
  <2> SUFFICES ASSUME Init, NEW p \in Partitions
               PROVE  resolved[p] <= stored[p] /\ committed[p] <= stored[p]
    BY DEF BrokerBehind
  <2>1. resolved[p] = 0 /\ committed[p] = 0 /\ stored[p] = 0
    BY DEF Init
  <2> QED BY <2>1
<1>2. Inv /\ BrokerBehind /\ [Next]_vars => BrokerBehind'
  BY StepKeepsBrokerBehind
<1> QED BY <1>1, <1>2, InvAlways, PTL DEF Spec

\* Deltas are missed in one case only: the broker has no offset of the group any more
\* when the running node, which does not seek again, rejoins.  No start, no crash, no
\* failing statement and no other rejoin loses a place (deltaSync.ts seeks at its start).
THEOREM LostByExpiryOnly ==
    Spec => [][\A p \in PlaceLost' \ PlaceLost : Rejoin /\ committed[p] = 0]_vars
<1>1. Inv /\ BrokerBehind /\ [Next]_vars
        => [\A p \in PlaceLost' \ PlaceLost : Rejoin /\ committed[p] = 0]_vars
  BY OnlyRejoinLoses
<1> QED BY <1>1, InvAlways, BrokerAlwaysBehind, PTL DEF Spec

------------------------------------------------------------------------------
\* Where the consumer stands relative to its offset decides which step of the mirror
\* a delta taken is.
LEMMA TakenIsAllowed ==
    ASSUME Inv, NEW p \in Partitions, node = "online", ~AlreadyApplied(p),
           position[p] \in 1..Len(log[p]), Mirror!Takes(p, position[p])
    PROVE  Mirror!Next
<1>1. CASE stored[p] = 0
  <2>1. Mirror!Join(p, position[p])
    BY <1>1 DEF Mirror!Join
  <2> QED BY <2>1 DEF Mirror!Next
<1>2. CASE stored[p] > 0 /\ position[p] = stored[p] + 1
  <2>1. Mirror!Take(p)
    BY <1>2 DEF Inv, TypeOK, Mirror!Take
  <2> QED BY <2>1 DEF Mirror!Next
<1>3. CASE stored[p] > 0 /\ position[p] > stored[p] + 1
  <2>1. p \in PlaceLost
    BY <1>3 DEF PlaceLost
  <2>2. Mirror!Jump(p, position[p])
    BY <1>3, <2>1 DEF Inv, TypeOK, Mirror!Jump
  <2> QED BY <2>2 DEF Mirror!Next
<1> QED BY <1>1, <1>2, <1>3, DeliveryIsNew, Typed DEF Inv

\* The first statement shows the delta, the second moves the cursor too.
LEMMA HandlerSteps ==
    ASSUME Inv, NEW p \in Partitions, Apply(p) \/ SetOffset(p)
    PROVE  Mirror!Next
<1>1. CASE Apply(p)
  <2>1. node = "online" /\ ~AlreadyApplied(p) /\ position[p] \in 1..Len(log[p])
    BY <1>1 DEF Inv, TypeOK, Apply, Delivered
  <2>2. Mirror!Takes(p, position[p])
    BY <1>1, <2>1 DEF Apply, PlaceLost, Remembered, Mirror!Takes
  <2> QED BY <2>1, <2>2, TakenIsAllowed
<1>2. CASE SetOffset(p)
  <2>1. HeldDelta(p)
    BY <1>2 DEF Inv, SetOffset
  <2>2. mirror' = [mirror EXCEPT ![log[p][position[p]]] = position[p]]
    BY <1>2, <2>1 DEF Inv, TypeOK, HeldDelta, SetOffset
  <2>3. PlaceLost' = PlaceLost \ {p}
    <3>1. p \notin PlaceLost'
      BY <1>2 DEF Inv, TypeOK, SetOffset, PlaceLost
    <3>2. \A q \in Partitions \ {p} : q \in PlaceLost' <=> q \in PlaceLost
      BY <1>2 DEF Inv, TypeOK, SetOffset, PlaceLost
    <3> QED BY <3>1, <3>2 DEF PlaceLost
  <2>4. Mirror!Takes(p, position[p])
    BY <1>2, <2>1, <2>2, <2>3 DEF SetOffset, Remembered, HeldDelta, Mirror!Takes
  <2> QED BY <2>1, <2>4, TakenIsAllowed DEF HeldDelta
<1> QED BY <1>1, <1>2

\* Nodes come and go; what the broker knows grows by commits and is forgotten.
LEMMA OtherSteps ==
    ASSUME Inv, BrokerBehind, Next,
           \/ Start \/ Crash \/ Disconnect \/ Rejoin \/ Expire
           \/ \E p \in Partitions : AutoCommit(p)
    PROVE  [Mirror!Next]_(Mirror!vars)
<1>1. UNCHANGED <<log, stored, mirror>>
  BY DEF Start, Crash, Disconnect, Rejoin, Expire, AutoCommit, store
<1>2. node # "online" => PlaceLost = {}
  BY DEF PlaceLost
<1>3. node' # "online" => PlaceLost' = {}
  BY DEF PlaceLost
<1>4. CASE Start
  <2>1. node = "down" /\ node' = "online" /\ Remembered' = Remembered /\ ~Rejoin
    BY <1>4 DEF Start, Rejoin, Remembered
  <2>2. PlaceLost' = PlaceLost
    BY <1>2, <2>1, OnlyRejoinLoses
  <2>3. Mirror!Start
    BY <1>1, <2>1, <2>2 DEF Mirror!Start
  <2> QED BY <2>3 DEF Mirror!Next
<1>5. CASE Rejoin
  <2>1. node = "offline" /\ node' = "online" /\ Remembered' = Remembered
    BY <1>5 DEF Rejoin, Remembered
  <2>2. ASSUME NEW p \in PlaceLost' PROVE p \in Partitions \ Remembered /\ stored[p] > 0
    BY <1>1, <1>2, <2>1, <2>2, OnlyRejoinLoses DEF PlaceLost, Remembered
  <2>3. Mirror!Rejoin
    BY <1>1, <2>1, <2>2 DEF Mirror!Rejoin
  <2> QED BY <2>3 DEF Mirror!Next
<1>6. CASE Crash \/ Disconnect
  <2>1. Remembered' = Remembered
    BY <1>6 DEF Crash, Disconnect, Remembered
  <2>2. Mirror!Leave
    BY <1>1, <1>3, <1>6, <2>1 DEF Crash, Disconnect, Mirror!Leave
  <2> QED BY <2>2 DEF Mirror!Next
<1>7. CASE Expire
  <2>1. node # "online" /\ UNCHANGED <<node, position>> /\ Remembered' = {}
    BY <1>7 DEF Expire, Remembered
  <2>2. PlaceLost' = PlaceLost
    BY <1>1, <2>1 DEF PlaceLost
  <2>3. Mirror!Forget
    BY <1>1, <2>1, <2>2 DEF Mirror!Forget
  <2> QED BY <2>3 DEF Mirror!Next
<1>8. ASSUME NEW p \in Partitions, AutoCommit(p) PROVE Mirror!Next
  <2>1. /\ node = "online" /\ UNCHANGED <<node, position>> /\ resolved[p] # 0
        /\ committed' = [committed EXCEPT ![p] = resolved[p]]
    BY <1>8 DEF AutoCommit
  <2>2. resolved[p] \in Nat /\ stored[p] \in Nat /\ committed \in [Partitions -> Nat]
    BY DEF Inv, TypeOK
  <2>3. stored[p] > 0
    BY <2>1, <2>2 DEF BrokerBehind
  <2>4. Remembered' = Remembered \cup {p}
    BY <2>1, <2>2 DEF Remembered
  <2>5. PlaceLost' = PlaceLost
    BY <1>1, <2>1 DEF PlaceLost
  <2>6. Mirror!Commit(p)
    BY <1>1, <2>1, <2>3, <2>4, <2>5 DEF Mirror!Commit
  <2> QED BY <2>6 DEF Mirror!Next
<1> QED BY <1>4, <1>5, <1>6, <1>7, <1>8

\* A delivery that is skipped leaves the consumer where it is or behind its offset.
LEMMA SkipStutters == ASSUME Inv, NEW p \in Partitions, Skip(p)
                      PROVE  UNCHANGED Mirror!vars
<1>1. ASSUME NEW q \in Partitions PROVE q \in PlaceLost' <=> q \in PlaceLost
  <2>1. position'[q] = IF q = p THEN position[p] + 1 ELSE position[q]
    BY DEF Inv, TypeOK, Skip
  <2> QED BY <2>1, Typed DEF Inv, Skip, AlreadyApplied, PlaceLost, store
<1>2. PlaceLost' = PlaceLost
  BY <1>1 DEF PlaceLost
<1> QED BY <1>2 DEF Skip, Mirror!vars, Remembered, store

\* The mirror is a replay of the topic: EdgeDeltaSync implements EntityMirror.
THEOREM MirrorReplays == Spec => ReplaysTheTopic
<1>1. Init => Mirror!Init
  BY DEF Init, Mirror!Init, PlaceLost, Remembered
<1>2. Inv /\ BrokerBehind /\ [Next]_vars => [Mirror!Next]_(Mirror!vars)
  <2> SUFFICES ASSUME Inv, BrokerBehind, [Next]_vars PROVE [Mirror!Next]_(Mirror!vars)
    OBVIOUS
  <2>1. ASSUME NEW e \in Entities, Upserted(e) PROVE Mirror!Next
    <3>1. Mirror!Upserted(e)
      BY <2>1 DEF Upserted, Mirror!Upserted, PlaceLost, Remembered, store
    <3> QED BY <3>1 DEF Mirror!Next
  <2>2. ASSUME NEW p \in Partitions, EachMessage(p) PROVE [Mirror!Next]_(Mirror!vars)
    BY <2>2, SkipStutters, HandlerSteps DEF EachMessage
  <2>3. ASSUME NEW p \in Partitions, SetOffsetThrows(p)
        PROVE  UNCHANGED Mirror!vars
    BY <2>3 DEF SetOffsetThrows, Mirror!vars, PlaceLost, Remembered, store
  <2>4. CASE Next /\ (\/ Start \/ Crash \/ Disconnect \/ Rejoin \/ Expire
                     \/ \E p \in Partitions : AutoCommit(p))
    BY <2>4, OtherSteps
  <2>5. CASE UNCHANGED vars
    BY <2>5 DEF vars, store, Mirror!vars, PlaceLost, Remembered
  <2> QED BY <2>1, <2>2, <2>3, <2>4, <2>5 DEF Next
<1> QED BY <1>1, <1>2, InvAlways, BrokerAlwaysBehind, PTL DEF Spec, ReplaysTheTopic, Mirror!Spec
=============================================================================
