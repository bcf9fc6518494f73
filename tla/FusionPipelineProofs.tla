------------------------ MODULE FusionPipelineProofs ------------------------
(***************************************************************************)
(* What the pipeline writes, announces and publishes, for any entities,    *)
(* positions, timeouts and batches, however often calls fail and fusion-svc*)
(* restarts; and that it follows each target with one track, as long as    *)
(* targets do not cross.                                                   *)
(***************************************************************************)
EXTENDS FusionPipeline, TLAPS

\* The steps that process an observation once it is on a track.
Processing == {"zone", "upsert", "queue", "publish"}

\* Where the cycle stands tells which track it is at and what is written of it.
AtWork ==
    /\ pc \in Processing => current \in EntityIds /\ Live(current)
    /\ pc \in {"queue", "publish"} => rows[current] # NoRow

\* A row that says LOST is not of a live track, a client is only told of what has
\* a row, and of a loss only when the row says so.
RowsLead ==
    \A id \in EntityIds :
        /\ rows[id].status = "LOST" => ~Live(id)
        /\ said[id] # "nothing" => rows[id] # NoRow
        /\ said[id] = "lost" => rows[id].status = "LOST"

\* An evicted track that is not yet written is LOST in memory only; the one being
\* published is written and announced.
NotYetWritten(id) == tracks[id].status = "LOST" /\ rows[id].status # "LOST"
Evicting ==
    /\ justLost # {} => pc \in {"evictUpsert", "evictPublish"}
    /\ pc = "evictUpsert" => \A id \in justLost : NotYetWritten(id)
    /\ pc = "evictPublish" =>
          /\ current \in justLost
          /\ rows[current].status = "LOST" /\ said[current] = "lost"
          /\ \A id \in justLost \ {current} : NotYetWritten(id)

\* Inductive: the table leads, whatever fails.
OrderInv == TypeOK /\ AtWork /\ RowsLead /\ Evicting /\ PublishedIsPersisted

\* What WrittenThrough says of a live track, and of a lost one.
InForce(id) ==
    /\ rows[id] = EntityOf(id)
    /\ topic[id] = rows[id]
    /\ said[id] \in {"new", "updated"}
Buried(id) == rows[id].status = "LOST" /\ topic[id] = LostMessage /\ said[id] = "lost"

\* WrittenThrough in the middle of a cycle: all but the track at work and the
\* tracks still to be written.
SyncedButCurrent ==
    failures = 0 =>
        /\ \A id \in EntityIds : Live(id) => InForce(id) \/ (pc \in Processing /\ id = current)
        /\ pc \in {"queue", "publish"} =>
              rows[current] = EntityOf(current) /\ said[current] \in {"new", "updated"}
        /\ \A id \in EntityIds : tracks[id].status = "LOST" => Buried(id) \/ id \in justLost

SyncInv == OrderInv /\ SyncedButCurrent

\* No track and no observation is from the future.
NothingAhead ==
    /\ \A id \in EntityIds : Live(id) => tracks[id].last <= now
    /\ \A i \in DOMAIN batch : batch[i].ts <= now

\* NoPhantomTrack without the clock: of two live tracks within the gate of each
\* other one had its last update too long before the other's to be compared with
\* the other's next observation.
FarApart(a, b) ==
    \/ tracks[a].last - tracks[b].last > MaxGap
    \/ tracks[b].last - tracks[a].last > MaxGap
OneIsOld ==
    \A a, b \in EntityIds :
        (a # b /\ Live(a) /\ Live(b) /\ Near(tracks[a].pos, tracks[b].pos)
               /\ {a, b} \cap (late \cup narrow) = {}) => FarApart(a, b)

TrackInv == OrderInv /\ NothingAhead /\ OneIsOld

\* Targets do not cross: for each domain, being within its gate is transitive, and no
\* track that still correlates is reckoned to have left it.
TargetsApart ==
    \A source \in Sources :
        /\ \A p, q, r \in Positions :
              InGate(source, p, q) /\ InGate(source, q, r) => InGate(source, p, r)
        /\ \A p, q \in Positions, gap \in 0..MaxGap :
              Distance(p, q) <= MaxSpeed * gap => InGate(source, p, q)

------------------------------------------------------------------------------
\* The bounds are natural numbers.
LEMMA Bounds ==
    /\ MaxBatch \in Nat /\ MaxNow \in Nat /\ MaxFailures \in Nat /\ MaxRestarts \in Nat
    /\ Gate \in [Sources -> Nat] /\ MaxGap \in Nat /\ LostTimeout \in Nat /\ MaxSpeed \in Nat
BY PipelineAssumption DEF PipelineAssumption

\* A track that is one has a position, a class and a status to write.
LEMMA OnTrack ==
    ASSUME TypeOK, NEW id \in EntityIds, Live(id) \/ tracks[id].status = "LOST"
    PROVE  /\ tracks[id] \in Track
           /\ EntityOf(id) \in Entity
           /\ EntityOf(id).status = tracks[id].status
<1>1. tracks[id] \in Track
  BY DEF TypeOK, Live, NoTrack
<1> QED BY <1>1 DEF EntityOf, Track, Entity

\* An observation that correlates leaves a live track as of its own time.
LEMMA CorrelateTyped ==
    ASSUME TypeOK, Correlate
    PROVE  /\ Head(batch) \in Observation
           /\ Tail(batch) \in Seq(Observation) /\ Len(Tail(batch)) <= MaxBatch
           /\ \E id \in EntityIds, track \in Track :
                 /\ current' = id
                 /\ tracks' = [tracks EXCEPT ![id] = track]
                 /\ track.status \in {"ACTIVE", "CONFLICTED"}
                 /\ track.last = Head(batch).ts
                 /\ Live(id) \/ id \in Fresh
<1> DEFINE obs == Head(batch)
<1>1. obs \in Observation /\ Tail(batch) \in Seq(Observation) /\ Len(Tail(batch)) <= MaxBatch
  BY Bounds DEF TypeOK, Correlate
<1> HIDE DEF obs
<1>2. CASE \E id \in EntityIds, p \in Positions :
             /\ Nearest(id, p, obs)
             /\ \E estimate \in Estimates(p, obs.pos) :
                   tracks' = [tracks EXCEPT ![id] = Updated(@, estimate, obs)]
             /\ current' = id
  <2>1. PICK id \in EntityIds, p \in Positions :
             /\ Nearest(id, p, obs)
             /\ \E estimate \in Estimates(p, obs.pos) :
                   tracks' = [tracks EXCEPT ![id] = Updated(@, estimate, obs)]
             /\ current' = id
    BY <1>2
  <2>2. PICK estimate \in Positions :
             tracks' = [tracks EXCEPT ![id] = Updated(@, estimate, obs)]
    BY <2>1 DEF Estimates
  <2>3. Live(id) /\ tracks[id] \in Track
    BY <2>1, OnTrack DEF Nearest, Comparable
  <2>4. /\ Updated(tracks[id], estimate, obs) \in Track
        /\ Updated(tracks[id], estimate, obs).status \in {"ACTIVE", "CONFLICTED"}
        /\ Updated(tracks[id], estimate, obs).last = obs.ts
    BY <1>1, <2>3 DEF Updated, Track, Observation
  <2>5. tracks' = [tracks EXCEPT ![id] = Updated(tracks[id], estimate, obs)]
    BY <2>2
  <2> QED BY <1>1, <2>1, <2>3, <2>4, <2>5 DEF obs
<1>3. CASE \E id \in Fresh : tracks' = [tracks EXCEPT ![id] = Spawned(obs)] /\ current' = id
  <2>1. /\ Spawned(obs) \in Track
        /\ Spawned(obs).status \in {"ACTIVE", "CONFLICTED"}
        /\ Spawned(obs).last = obs.ts
    BY <1>1 DEF Spawned, Track, Observation
  <2> QED BY <1>1, <1>3, <2>1 DEF obs, Fresh
<1> QED BY <1>2, <1>3 DEF Correlate, obs

\* The types, which AtWork and Evicting are needed for: what is written is a track.
LEMMA NextTyped == ASSUME OrderInv, [Next]_vars PROVE TypeOK'
<1>1. TypeOK /\ AtWork /\ Evicting
  BY DEF OrderInv
<1>2. CASE Poll
  <2>1. PICK n \in 0..MaxBatch : \E b \in [1..n -> Observation] : batch' = b
    BY <1>2 DEF Poll
  <2>2. batch' \in Seq(Observation) /\ Len(batch') <= MaxBatch
    BY <2>1, Bounds
  <2> QED BY <1>1, <1>2, <2>2 DEF TypeOK, Poll
<1>3. CASE Correlate
  <2>1. PICK id \in EntityIds, track \in Track :
             current' = id /\ tracks' = [tracks EXCEPT ![id] = track]
    BY <1>1, <1>3, CorrelateTyped
  <2>2. tracks' \in [EntityIds -> Track \cup {NoTrack}]
    BY <1>1, <2>1 DEF TypeOK
  <2>3. batch' \in Seq(Observation) /\ Len(batch') <= MaxBatch
    BY <1>1, <1>3, CorrelateTyped DEF Correlate
  <2>4. late' \subseteq EntityIds /\ narrow' \subseteq EntityIds
    BY <1>1, <1>3, <2>1 DEF TypeOK, Correlate
  <2> QED BY <1>1, <1>3, <2>1, <2>2, <2>3, <2>4 DEF TypeOK, Correlate
<1>4. CASE CheckZone \/ Enqueue
  BY <1>1, <1>4 DEF TypeOK, CheckZone, Enqueue
<1>5. CASE Upsert
  <2>1. EntityOf(current) \in Entity /\ current \in EntityIds
    BY <1>1, <1>5, OnTrack DEF AtWork, Processing, Upsert
  <2> QED BY <1>1, <1>5, <2>1 DEF TypeOK, Upsert
<1>6. CASE Publish
  <2>1. EntityOf(current) \in Entity /\ current \in EntityIds
    BY <1>1, <1>6, OnTrack DEF AtWork, Processing, Publish
  <2> QED BY <1>1, <1>6, <2>1 DEF TypeOK, Publish
<1>7. CASE Evict
  <2>1. ASSUME NEW id \in EntityIds, Stale(id)
        PROVE  [tracks[id] EXCEPT !.status = "LOST"] \in Track
    <3>1. tracks[id] \in Track
      BY <1>1, <2>1, OnTrack DEF Stale
    <3> QED BY <3>1 DEF Track
  <2>2. tracks' \in [EntityIds -> Track \cup {NoTrack}] /\ justLost' \subseteq EntityIds
    BY <1>1, <1>7, <2>1 DEF TypeOK, Evict
  <2>3. /\ pc' \in {"poll", "evictUpsert"}
        /\ UNCHANGED <<now, rows, topic, said, batch, current, late, narrow, failures, restarts>>
    BY <1>7 DEF Evict
  <2> QED BY <1>1, <2>2, <2>3 DEF TypeOK
<1>8. ASSUME NEW id \in justLost, pc = "evictUpsert"
      PROVE  id \in EntityIds /\ EntityOf(id) \in Entity
  BY <1>1, <1>8, OnTrack DEF TypeOK, Evicting, NotYetWritten
<1>9. CASE EvictUpsert
  <2>1. PICK id \in justLost : /\ current' = id
                               /\ rows' = [rows EXCEPT ![id] = EntityOf(id)]
                               /\ said' = [said EXCEPT ![id] = "lost"]
    BY <1>9 DEF EvictUpsert
  <2>2. id \in EntityIds /\ EntityOf(id) \in Entity
    BY <1>8, <1>9 DEF EvictUpsert
  <2> QED BY <1>1, <1>9, <2>1, <2>2 DEF TypeOK, EvictUpsert
<1>10. CASE EvictPublish
  <2>1. pc' \in {"poll", "evictUpsert"} /\ justLost' \subseteq EntityIds
    BY <1>1, <1>10 DEF TypeOK, EvictPublish
  <2> QED BY <1>1, <1>10, <2>1 DEF TypeOK, EvictPublish
<1>11. ASSUME rows' \in [EntityIds -> Entity \cup {NoRow}], Abort PROVE TypeOK'
  <2>1. failures' \in 0..MaxFailures
    BY <1>1, <1>11, Bounds DEF TypeOK, Abort
  <2> QED BY <1>1, <1>11, <2>1, Bounds DEF TypeOK, Abort
<1>12. CASE Fail
  <2>1. rows' \in [EntityIds -> Entity \cup {NoRow}]
    BY <1>1, <1>12 DEF TypeOK, Fail
  <2> QED BY <1>11, <1>12, <2>1 DEF Fail
<1>13. CASE FailAfterWrite
  <2>1. \E id \in EntityIds : rows' = [rows EXCEPT ![id] = EntityOf(id)] /\ EntityOf(id) \in Entity
    <3>1. CASE pc = "upsert" /\ rows' = [rows EXCEPT ![current] = EntityOf(current)]
      BY <1>1, <3>1, OnTrack DEF AtWork, Processing
    <3>2. CASE pc = "evictUpsert" /\ \E id \in justLost : rows' = [rows EXCEPT ![id] = EntityOf(id)]
      BY <1>8, <3>2
    <3> QED BY <1>13, <3>1, <3>2 DEF FailAfterWrite
  <2>2. rows' \in [EntityIds -> Entity \cup {NoRow}]
    BY <1>1, <2>1 DEF TypeOK
  <2> QED BY <1>11, <1>13, <2>2 DEF FailAfterWrite
<1>14. CASE Restart
  <2>1. restarts' \in 0..MaxRestarts
    BY <1>1, <1>14, Bounds DEF TypeOK, Restart
  <2> QED BY <1>1, <1>14, <2>1, Bounds DEF TypeOK, Restart
<1>15. CASE Tick
  <2>1. now' \in Times
    BY <1>1, <1>15, Bounds DEF TypeOK, Tick, Times
  <2> QED BY <1>1, <1>15, <2>1 DEF TypeOK, Tick, loop
<1>16. CASE UNCHANGED vars
  BY <1>1, <1>16 DEF TypeOK, vars, loop
<1> QED BY <1>2, <1>3, <1>4, <1>5, <1>6, <1>7, <1>9, <1>10, <1>12, <1>13, <1>14, <1>15,
           <1>16 DEF Next, Cycle

------------------------------------------------------------------------------
\* What a step does to an entity that LostIsFinal is about.
NothingAfterLoss ==
    \A id \in EntityIds :
        /\ rows[id].status = "LOST" => rows'[id] = rows[id]
        /\ said'[id] # said[id] =>
              \/ said[id] = "nothing"
              \/ said[id] \in {"new", "updated"} /\ said'[id] \in {"updated", "lost"}

\* The parts of OrderInv that a step has to bring about.
Ordered == AtWork /\ RowsLead /\ Evicting /\ PublishedIsPersisted

\* At first nothing is tracked, written or said.
LEMMA OrderInit == Init => OrderInv
<1> SUFFICES ASSUME Init PROVE OrderInv
  OBVIOUS
<1>1. TypeOK
  BY Bounds DEF Init, TypeOK, Times
<1>2. Ordered
  BY DEF Init, Ordered, AtWork, Processing, RowsLead, Evicting, PublishedIsPersisted,
         NoRow, NoMessage, LostMessage
<1> QED BY <1>1, <1>2 DEF OrderInv, Ordered

\* An observation comes onto a track that no row calls LOST: a live one, or one of
\* its own.
LEMMA CorrelateOrdered == ASSUME OrderInv, Correlate PROVE Ordered'
<1>1. PICK id \in EntityIds, track \in Track :
             /\ current' = id
             /\ tracks' = [tracks EXCEPT ![id] = track]
             /\ track.status \in {"ACTIVE", "CONFLICTED"}
             /\ Live(id) \/ id \in Fresh
  BY CorrelateTyped DEF OrderInv
<1>2. /\ tracks'[id] = track
      /\ \A other \in EntityIds \ {id} : tracks'[other] = tracks[other]
  BY <1>1 DEF OrderInv, TypeOK
<1>3. rows[id].status # "LOST"
  BY <1>1 DEF OrderInv, RowsLead, Fresh, NoRow
<1>4. pc' = "zone" /\ justLost' = {} /\ UNCHANGED <<rows, topic, said>>
  BY DEF OrderInv, Evicting, Correlate
<1>5. AtWork' /\ Evicting'
  BY <1>1, <1>2, <1>4 DEF AtWork, Evicting, Live, Processing
<1>6. RowsLead'
  <2>1. ASSUME NEW other \in EntityIds, rows[other].status = "LOST" PROVE ~Live(other)'
    BY <1>2, <1>3, <2>1 DEF OrderInv, RowsLead, Live
  <2> QED BY <1>4, <2>1 DEF OrderInv, RowsLead
<1> QED BY <1>4, <1>5, <1>6 DEF Ordered, OrderInv, PublishedIsPersisted

\* A live track is written as it is.
LEMMA WriteLive ==
    ASSUME OrderInv, pc = "upsert", rows' = [rows EXCEPT ![current] = EntityOf(current)],
           UNCHANGED tracks
    PROVE  /\ current \in EntityIds /\ Live(current)
           /\ rows[current].status # "LOST"
           /\ rows'[current] # NoRow /\ rows'[current].status # "LOST"
           /\ \A other \in EntityIds \ {current} : rows'[other] = rows[other]
<1>1. current \in EntityIds /\ Live(current)
  BY DEF OrderInv, AtWork, Processing
<1>2. rows'[current] \in Entity /\ rows'[current].status = tracks[current].status
  BY <1>1, OnTrack DEF OrderInv, TypeOK
<1> QED BY <1>1, <1>2 DEF OrderInv, TypeOK, RowsLead, Live, Entity, NoRow

\* A lost track is written as LOST.
LEMMA WriteLost ==
    ASSUME OrderInv, pc = "evictUpsert", NEW id \in justLost,
           rows' = [rows EXCEPT ![id] = EntityOf(id)]
    PROVE  /\ id \in EntityIds /\ tracks[id].status = "LOST"
           /\ rows[id].status # "LOST"
           /\ rows'[id] # NoRow /\ rows'[id].status = "LOST"
           /\ \A other \in EntityIds \ {id} : rows'[other] = rows[other]
<1>1. id \in EntityIds /\ tracks[id].status = "LOST" /\ rows[id].status # "LOST"
  BY DEF OrderInv, TypeOK, Evicting, NotYetWritten
<1>2. rows'[id] \in Entity /\ rows'[id].status = "LOST"
  BY <1>1, OnTrack DEF OrderInv, TypeOK
<1> QED BY <1>1, <1>2 DEF OrderInv, TypeOK, Entity, NoRow

\* A call that throws leaves what it may have written, and no track at work.
LEMMA AbortOrdered ==
    ASSUME OrderInv, Fail \/ FailAfterWrite PROVE Ordered' /\ NothingAfterLoss
<1>1. pc' = "poll" /\ justLost' = {} /\ UNCHANGED <<tracks, topic, said>>
  BY DEF Fail, FailAfterWrite, Abort
<1>2. \/ UNCHANGED rows
      \/ \E id \in EntityIds :
            /\ rows[id].status # "LOST"
            /\ rows'[id] # NoRow
            /\ rows'[id].status = "LOST" => ~Live(id)
            /\ \A other \in EntityIds \ {id} : rows'[other] = rows[other]
  <2>1. CASE Fail
    BY <2>1 DEF Fail
  <2>2. CASE pc = "upsert" /\ rows' = [rows EXCEPT ![current] = EntityOf(current)]
    BY <1>1, <2>2, WriteLive
  <2>3. CASE pc = "evictUpsert" /\ \E id \in justLost : rows' = [rows EXCEPT ![id] = EntityOf(id)]
    <3>1. PICK id \in justLost : rows' = [rows EXCEPT ![id] = EntityOf(id)]
      BY <2>3
    <3>2. /\ id \in EntityIds /\ tracks[id].status = "LOST"
          /\ rows[id].status # "LOST" /\ rows'[id] # NoRow
          /\ \A other \in EntityIds \ {id} : rows'[other] = rows[other]
      BY <2>3, <3>1, WriteLost
    <3> QED BY <3>2 DEF Live
  <2> QED BY <2>1, <2>2, <2>3 DEF FailAfterWrite
<1>3. \A id \in EntityIds :
         /\ rows[id].status = "LOST" => rows'[id] = rows[id]
         /\ rows[id] # NoRow => rows'[id] # NoRow
         /\ rows'[id].status = "LOST" => ~Live(id)
  BY <1>2 DEF OrderInv, RowsLead
<1>4. AtWork' /\ Evicting'
  BY <1>1 DEF AtWork, Evicting, Processing
<1>5. RowsLead'
  BY <1>1, <1>3 DEF OrderInv, RowsLead, Live
<1>6. PublishedIsPersisted'
  BY <1>1, <1>3 DEF OrderInv, PublishedIsPersisted
<1> QED BY <1>1, <1>3, <1>4, <1>5, <1>6 DEF Ordered, NothingAfterLoss

\* The other steps of a cycle, one by one.
LEMMA CycleOrdered ==
    ASSUME OrderInv, Cycle PROVE Ordered' /\ NothingAfterLoss
<1>1. CASE Poll \/ CheckZone \/ Enqueue
  BY <1>1 DEF OrderInv, Ordered, NothingAfterLoss, AtWork, Processing, RowsLead, Evicting, Live,
         NotYetWritten, PublishedIsPersisted, Poll, CheckZone, Enqueue
<1>2. CASE Correlate
  BY <1>2, CorrelateOrdered DEF NothingAfterLoss, Correlate
<1>3. CASE Upsert
  <2>1. /\ pc' = "queue" /\ justLost = {} /\ justLost' = {}
        /\ UNCHANGED <<tracks, topic, current>>
    BY <1>3 DEF OrderInv, Evicting, Upsert
  <2>2. /\ current \in EntityIds /\ Live(current)
        /\ rows[current].status # "LOST"
        /\ rows'[current] # NoRow /\ rows'[current].status # "LOST"
        /\ \A other \in EntityIds \ {current} : rows'[other] = rows[other]
    BY <1>3, <2>1, WriteLive DEF Upsert
  <2>3. /\ said'[current] = IF rows[current] = NoRow THEN "new" ELSE "updated"
        /\ \A other \in EntityIds \ {current} : said'[other] = said[other]
    BY <1>3, <2>2 DEF OrderInv, TypeOK, Upsert
  <2>4. said[current] \in {"nothing", "new", "updated"} /\ topic[current] # LostMessage
    BY <2>2 DEF OrderInv, TypeOK, RowsLead, PublishedIsPersisted
  <2>5. AtWork' /\ Evicting'
    BY <2>1, <2>2 DEF AtWork, Evicting, Live
  <2>6. RowsLead'
    BY <2>1, <2>2, <2>3 DEF OrderInv, RowsLead, Live
  <2>7. PublishedIsPersisted'
    BY <2>1, <2>2, <2>3, <2>4 DEF OrderInv, PublishedIsPersisted
  <2>8. NothingAfterLoss
    BY <2>2, <2>3, <2>4 DEF NothingAfterLoss, OrderInv, RowsLead
  <2> QED BY <2>5, <2>6, <2>7, <2>8 DEF Ordered
<1>4. CASE Publish
  <2>1. pc' = "next" /\ justLost' = {} /\ UNCHANGED <<tracks, rows, said>>
    BY <1>4 DEF OrderInv, Evicting, Publish
  <2>2. current \in EntityIds /\ rows[current] # NoRow /\ EntityOf(current) # LostMessage
    BY <1>4, OnTrack DEF OrderInv, AtWork, Processing, Publish, Entity, LostMessage
  <2>3. /\ topic'[current] = EntityOf(current)
        /\ \A other \in EntityIds \ {current} : topic'[other] = topic[other]
    BY <1>4, <2>2 DEF OrderInv, TypeOK, Publish
  <2>4. PublishedIsPersisted'
    BY <2>1, <2>2, <2>3 DEF OrderInv, PublishedIsPersisted
  <2> QED BY <2>1, <2>4 DEF OrderInv, Ordered, NothingAfterLoss, AtWork, Processing, Evicting,
             RowsLead, Live
<1>5. CASE Evict
  <2>1. /\ justLost' = {id \in EntityIds : Stale(id)}
        /\ pc' = IF justLost' = {} THEN "poll" ELSE "evictUpsert"
        /\ UNCHANGED <<rows, topic, said>>
    BY <1>5 DEF Evict
  <2>2. ASSUME NEW id \in EntityIds
        PROVE  /\ id \in justLost' => NotYetWritten(id)'
               /\ Live(id)' => Live(id)
    <3>1. CASE id \in justLost'
      <4>1. tracks[id] \in Track /\ rows[id].status # "LOST"
        BY <2>1, <3>1, OnTrack DEF OrderInv, RowsLead, Stale
      <4>2. tracks'[id] = [tracks[id] EXCEPT !.status = "LOST"]
        BY <1>5, <3>1 DEF Evict
      <4> QED BY <2>1, <4>1, <4>2 DEF NotYetWritten, Live, Track
    <3>2. CASE id \notin justLost'
      <4>1. tracks'[id] = tracks[id]
        BY <1>5, <3>2 DEF Evict
      <4> QED BY <3>2, <4>1 DEF Live
    <3> QED BY <3>1, <3>2
  <2>3. AtWork' /\ Evicting'
    BY <2>1, <2>2 DEF AtWork, Processing, Evicting
  <2>4. RowsLead'
    BY <2>1, <2>2 DEF OrderInv, RowsLead
  <2> QED BY <2>1, <2>3, <2>4 DEF OrderInv, Ordered, PublishedIsPersisted, NothingAfterLoss
<1>6. CASE EvictUpsert
  <2>1. PICK id \in justLost : /\ current' = id
                               /\ rows' = [rows EXCEPT ![id] = EntityOf(id)]
                               /\ said' = [said EXCEPT ![id] = "lost"]
    BY <1>6 DEF EvictUpsert
  <2>2. pc = "evictUpsert" /\ pc' = "evictPublish" /\ UNCHANGED <<tracks, topic, justLost>>
    BY <1>6 DEF EvictUpsert
  <2>3. /\ id \in EntityIds /\ tracks[id].status = "LOST"
        /\ rows[id].status # "LOST"
        /\ rows'[id] # NoRow /\ rows'[id].status = "LOST"
        /\ \A other \in EntityIds \ {id} : rows'[other] = rows[other]
    BY <2>1, <2>2, WriteLost
  <2>4. /\ said'[id] = "lost" /\ said[id] \in {"nothing", "new", "updated"}
        /\ \A other \in EntityIds \ {id} : said'[other] = said[other]
    BY <2>1, <2>3 DEF OrderInv, TypeOK, RowsLead
  <2>5. justLost \subseteq EntityIds /\ \A other \in justLost : NotYetWritten(other)
    BY <2>2 DEF OrderInv, TypeOK, Evicting
  <2>6. AtWork' /\ Evicting'
    BY <2>1, <2>2, <2>3, <2>4, <2>5 DEF AtWork, Processing, Evicting, NotYetWritten
  <2>7. RowsLead'
    BY <2>2, <2>3, <2>4 DEF OrderInv, RowsLead, Live
  <2>8. PublishedIsPersisted'
    BY <2>2, <2>3, <2>4 DEF OrderInv, PublishedIsPersisted
  <2>9. NothingAfterLoss
    BY <2>3, <2>4 DEF NothingAfterLoss
  <2> QED BY <2>6, <2>7, <2>8, <2>9 DEF Ordered
<1>7. CASE EvictPublish
  <2>1. /\ justLost' = justLost \ {current} /\ UNCHANGED <<tracks, rows, said>>
        /\ pc' = IF justLost' = {} THEN "poll" ELSE "evictUpsert"
    BY <1>7 DEF EvictPublish
  <2>2. /\ current \in EntityIds
        /\ rows[current].status = "LOST" /\ said[current] = "lost"
        /\ \A id \in justLost' : NotYetWritten(id)
    BY <1>7, <2>1 DEF OrderInv, TypeOK, Evicting, EvictPublish
  <2>3. /\ topic'[current] = LostMessage
        /\ \A other \in EntityIds \ {current} : topic'[other] = topic[other]
    BY <1>7, <2>2 DEF OrderInv, TypeOK, EvictPublish
  <2>4. AtWork' /\ Evicting'
    BY <2>1, <2>2 DEF AtWork, Processing, Evicting, NotYetWritten
  <2>5. PublishedIsPersisted'
    BY <2>1, <2>2, <2>3 DEF OrderInv, PublishedIsPersisted, NoRow
  <2> QED BY <2>1, <2>4, <2>5 DEF OrderInv, Ordered, NothingAfterLoss, RowsLead, Live
<1> QED BY <1>1, <1>2, <1>3, <1>4, <1>5, <1>6, <1>7, AbortOrdered DEF Cycle

\* Every step keeps the order, and nothing follows a loss.
LEMMA NextOrdered == OrderInv /\ [Next]_vars => OrderInv' /\ NothingAfterLoss
<1> SUFFICES ASSUME OrderInv, [Next]_vars PROVE Ordered' /\ NothingAfterLoss
  BY NextTyped DEF OrderInv, Ordered
<1>1. CASE Restart
  BY <1>1 DEF OrderInv, Ordered, NothingAfterLoss, AtWork, Processing, RowsLead, Evicting, Live,
         NoTrack, PublishedIsPersisted, Restart
<1>2. CASE Tick \/ UNCHANGED vars
  BY <1>2 DEF OrderInv, Ordered, NothingAfterLoss, AtWork, RowsLead, Evicting, Live,
         NotYetWritten, PublishedIsPersisted, Tick, vars, loop
<1> QED BY <1>1, <1>2, CycleOrdered DEF Next

\* The order holds in every state.
LEMMA OrderAlways == Spec => []OrderInv
BY OrderInit, NextOrdered, PTL DEF Spec

\* Whatever throws, and whenever fusion-svc restarts, the topic speaks only of
\* entities that the table has, and of a loss only when the table shows it and the
\* clients were told (the order of the awaits of runPipelineOnce).
THEOREM TableFirst == Spec => []PublishedIsPersisted
<1>1. OrderInv => PublishedIsPersisted
  BY DEF OrderInv
<1> QED BY <1>1, OrderAlways, PTL

\* A loss is the last thing that is written and announced of an entity
\* (TrackManager never goes back to a LOST track, and evicts a track once).
THEOREM NothingFollowsLoss == Spec => LostIsFinal
<1>1. OrderInv /\ [Next]_vars =>
        [\A id \in EntityIds :
            /\ rows[id].status = "LOST" => rows'[id] = rows[id]
            /\ said'[id] # said[id] =>
                  \/ said[id] = "nothing"
                  \/ said[id] \in {"new", "updated"} /\ said'[id] \in {"updated", "lost"}]_vars
  BY NextOrdered DEF NothingAfterLoss
<1> QED BY <1>1, OrderAlways, PTL DEF Spec, LostIsFinal

------------------------------------------------------------------------------
\* What a step leaves alone it leaves in force, or buried.
Untouched(id) ==
    /\ tracks'[id] = tracks[id] /\ rows'[id] = rows[id]
    /\ topic'[id] = topic[id] /\ said'[id] = said[id]
LEMMA UntouchedStays ==
    ASSUME NEW id \in EntityIds, Untouched(id)
    PROVE  /\ Live(id)' <=> Live(id)
           /\ EntityOf(id)' = EntityOf(id)
           /\ InForce(id) => InForce(id)'
           /\ Buried(id) => Buried(id)'
BY DEF Untouched, Live, EntityOf, InForce, Buried

\* A step after which the track at work is in force, or is still at work, and every
\* other entity is as it was.
LEMMA OneTouched ==
    ASSUME SyncInv, failures = 0, NEW id \in EntityIds,
           \A other \in EntityIds \ {id} : Untouched(other),
           pc \in Processing => current = id,
           Live(id)' => InForce(id)' \/ (pc' \in Processing /\ id = current'),
           tracks'[id].status = "LOST" => Buried(id)' \/ id \in justLost',
           justLost \ {id} \subseteq justLost',
           pc' \in {"queue", "publish"} =>
               rows'[current'] = EntityOf(current)' /\ said'[current'] \in {"new", "updated"}
    PROVE  SyncedButCurrent'
<1>1. ASSUME NEW other \in EntityIds \ {id}
      PROVE  /\ Live(other)' => InForce(other)'
             /\ tracks'[other].status = "LOST" => Buried(other)' \/ other \in justLost'
  BY <1>1, UntouchedStays DEF SyncInv, SyncedButCurrent, Untouched
<1> QED BY <1>1 DEF SyncedButCurrent

\* At first there is no track.
LEMMA SyncInit == Init => SyncInv
BY OrderInit DEF Init, SyncInv, SyncedButCurrent, Live, NoTrack

\* Every step of a cycle without a failure touches one entity at most, but for the
\* eviction in memory.
LEMMA CycleSynced == ASSUME SyncInv, Cycle, failures' = 0 PROVE SyncedButCurrent'
<1>1. OrderInv /\ TypeOK /\ failures = 0
  BY DEF SyncInv, OrderInv, TypeOK, Cycle, Poll, Correlate, CheckZone, Upsert, Enqueue, Publish,
         Evict, EvictUpsert, EvictPublish, Fail, FailAfterWrite, Abort
<1>2. CASE Poll \/ CheckZone \/ Enqueue
  BY <1>1, <1>2 DEF SyncInv, SyncedButCurrent, Processing, InForce, Buried, Live, EntityOf,
                    OrderInv, Evicting, Poll, CheckZone, Enqueue
<1>3. CASE Correlate
  <2>1. PICK id \in EntityIds, track \in Track :
             /\ current' = id
             /\ tracks' = [tracks EXCEPT ![id] = track]
             /\ track.status \in {"ACTIVE", "CONFLICTED"}
    BY <1>1, <1>3, CorrelateTyped
  <2>2. pc = "next" /\ pc' = "zone" /\ UNCHANGED <<rows, topic, said, justLost>>
    BY <1>3 DEF Correlate
  <2>3. tracks'[id].status # "LOST" /\ \A other \in EntityIds \ {id} : Untouched(other)
    BY <1>1, <2>1, <2>2 DEF TypeOK, Untouched
  <2> QED BY <1>1, <2>1, <2>2, <2>3, OneTouched DEF Processing
<1>4. CASE Upsert
  <2>1. pc = "upsert" /\ pc' = "queue" /\ UNCHANGED <<tracks, topic, current, justLost>>
    BY <1>4 DEF Upsert
  <2>2. current \in EntityIds /\ Live(current)
    BY <1>1, <2>1 DEF OrderInv, AtWork, Processing, TypeOK
  <2>3. /\ rows'[current] = EntityOf(current) /\ said'[current] \in {"new", "updated"}
        /\ \A other \in EntityIds \ {current} : Untouched(other)
    BY <1>1, <1>4, <2>1, <2>2 DEF TypeOK, Untouched, Upsert
  <2>4. EntityOf(current)' = EntityOf(current) /\ tracks'[current].status # "LOST"
    BY <2>1, <2>2 DEF EntityOf, Live
  <2> QED BY <1>1, <2>1, <2>2, <2>3, <2>4, OneTouched DEF Processing
<1>5. CASE Publish
  <2>1. pc = "publish" /\ pc' = "next" /\ UNCHANGED <<tracks, rows, said, justLost>>
    BY <1>5 DEF Publish
  <2>2. current \in EntityIds /\ Live(current)
    BY <1>1, <2>1 DEF OrderInv, AtWork, Processing
  <2>3. rows[current] = EntityOf(current) /\ said[current] \in {"new", "updated"}
    BY <1>1, <2>1 DEF SyncInv, SyncedButCurrent
  <2>4. /\ topic'[current] = EntityOf(current)
        /\ \A other \in EntityIds \ {current} : Untouched(other)
    BY <1>1, <1>5, <2>1, <2>2 DEF TypeOK, Untouched, Publish
  <2>5. PICK id \in EntityIds : id = current
    BY <2>2
  <2>6. InForce(id)' /\ tracks'[id].status # "LOST"
    BY <2>1, <2>2, <2>3, <2>4, <2>5 DEF InForce, EntityOf, Live
  <2> QED BY <1>1, <2>1, <2>4, <2>5, <2>6, OneTouched
<1>6. CASE Evict
  <2>1. /\ justLost = {} /\ justLost' = {id \in EntityIds : Stale(id)}
        /\ pc = "next" /\ pc' \notin Processing /\ UNCHANGED <<rows, topic, said>>
    BY <1>1, <1>6 DEF OrderInv, Evicting, Evict, Processing
  <2>2. ASSUME NEW id \in EntityIds
        PROVE  /\ Live(id)' => InForce(id)'
               /\ tracks'[id].status = "LOST" => Buried(id)' \/ id \in justLost'
    <3>1. CASE id \in justLost'
      <4>1. tracks[id] \in Track
        BY <1>1, <2>1, <3>1, OnTrack DEF Stale
      <4>2. tracks'[id] = [tracks[id] EXCEPT !.status = "LOST"]
        BY <1>6, <3>1 DEF Evict
      <4> QED BY <3>1, <4>1, <4>2 DEF Live, Track
    <3>2. CASE id \notin justLost'
      <4>1. Untouched(id)
        BY <1>6, <2>1, <3>2 DEF Evict, Untouched
      <4>2. /\ Live(id) => InForce(id)
            /\ tracks[id].status = "LOST" => Buried(id)
        BY <1>1, <2>1 DEF SyncInv, SyncedButCurrent, Processing
      <4> QED BY <4>1, <4>2, UntouchedStays DEF Untouched
    <3> QED BY <3>1, <3>2
  <2> QED BY <2>1, <2>2 DEF SyncedButCurrent, Processing
<1>7. CASE EvictUpsert
  <2>1. PICK id \in justLost : /\ current' = id
                               /\ rows' = [rows EXCEPT ![id] = EntityOf(id)]
                               /\ said' = [said EXCEPT ![id] = "lost"]
    BY <1>7 DEF EvictUpsert
  <2>2. pc = "evictUpsert" /\ pc' = "evictPublish" /\ UNCHANGED <<tracks, topic, justLost>>
    BY <1>7 DEF EvictUpsert
  <2>3. id \in EntityIds /\ tracks[id].status = "LOST"
    BY <1>1, <2>1, <2>2, WriteLost
  <2>4. \A other \in EntityIds \ {id} : Untouched(other)
    BY <1>1, <2>1, <2>2, <2>3 DEF TypeOK, Untouched
  <2>5. ~Live(id)'
    BY <2>2, <2>3 DEF Live
  <2> QED BY <1>1, <2>1, <2>2, <2>3, <2>4, <2>5, OneTouched DEF Processing
<1>8. CASE EvictPublish
  <2>1. /\ pc = "evictPublish" /\ pc' \in {"poll", "evictUpsert"}
        /\ justLost' = justLost \ {current} /\ UNCHANGED <<tracks, rows, said>>
    BY <1>8 DEF EvictPublish
  <2>2. current \in EntityIds /\ rows[current].status = "LOST" /\ said[current] = "lost"
    BY <1>1, <2>1 DEF OrderInv, TypeOK, Evicting
  <2>3. topic'[current] = LostMessage /\ \A other \in EntityIds \ {current} : Untouched(other)
    BY <1>1, <1>8, <2>1, <2>2 DEF TypeOK, Untouched, EvictPublish
  <2>4. PICK id \in EntityIds : id = current
    BY <2>2
  <2>5. Buried(id)' /\ ~Live(id)'
    BY <1>1, <2>1, <2>2, <2>3, <2>4 DEF Buried, Live, OrderInv, RowsLead
  <2> QED BY <1>1, <2>1, <2>3, <2>4, <2>5, OneTouched DEF Processing
<1>9. ~Fail /\ ~FailAfterWrite
  BY <1>1 DEF Fail, FailAfterWrite, Abort
<1> QED BY <1>2, <1>3, <1>4, <1>5, <1>6, <1>7, <1>8, <1>9 DEF Cycle

\* A failure makes it void for good; a restart forgets the tracks it is about.
LEMMA NextSynced == SyncInv /\ [Next]_vars => SyncInv'
<1> SUFFICES ASSUME SyncInv, [Next]_vars PROVE SyncInv'
  OBVIOUS
<1>1. OrderInv'
  BY NextOrdered DEF SyncInv
<1>2. CASE Cycle
  <2>1. failures' = 0 => SyncedButCurrent'
    BY <1>2, CycleSynced
  <2> QED BY <1>1, <2>1 DEF SyncInv, SyncedButCurrent
<1>3. CASE Restart
  BY <1>1, <1>3 DEF SyncInv, SyncedButCurrent, Restart, Live, NoTrack
<1>4. CASE Tick \/ UNCHANGED vars
  BY <1>1, <1>4 DEF SyncInv, SyncedButCurrent, Live, InForce, Buried, EntityOf, Tick, vars, loop
<1> QED BY <1>2, <1>3, <1>4 DEF Next

\* When a cycle is over, and no call has failed so far, the memory of fusion-svc, the
\* table, the topic and the clients tell the same of every track (runPipelineOnce
\* processes one observation to its end before the next, and every evicted track).
THEOREM AllAgree == Spec => []WrittenThrough
<1>1. SyncInv => WrittenThrough
  <2> SUFFICES ASSUME SyncInv, pc = "poll", failures = 0, NEW id \in EntityIds
               PROVE  /\ Live(id) => InForce(id)
                      /\ tracks[id].status = "LOST" => Buried(id)
    <3>1. ASSUME SyncInv, NEW id \in EntityIds, Live(id), InForce(id)
          PROVE  /\ rows[id] # NoRow
                 /\ rows[id].pos = tracks[id].pos
                 /\ rows[id].status = tracks[id].status
                 /\ topic[id] = rows[id]
                 /\ said[id] \in {"new", "updated"}
      BY <3>1 DEF SyncInv, OrderInv, RowsLead, InForce, EntityOf
    <3> QED BY <3>1 DEF WrittenThrough, Buried
  <2>1. justLost = {} /\ pc \notin Processing
    BY DEF SyncInv, OrderInv, Evicting, Processing
  <2> QED BY <2>1 DEF SyncInv, SyncedButCurrent
<1> QED BY <1>1, SyncInit, NextSynced, PTL DEF Spec

------------------------------------------------------------------------------
\* Distance is a distance.
LEMMA GateFacts ==
    ASSUME NEW p \in Positions, NEW q \in Positions, NEW e \in Positions, NEW source \in Sources
    PROVE  /\ InGate(source, p, q) <=> InGate(source, q, p)
           /\ e \in Estimates(p, q) /\ InGate(source, p, q) => InGate(source, e, q)
<1>1. p \in Int /\ q \in Int /\ e \in Int /\ Gate[source] \in Nat
  BY Bounds, PipelineAssumption DEF PipelineAssumption
<1> QED BY <1>1 DEF InGate, Distance, Abs, Estimates

LEMMA NearFacts ==
    ASSUME NEW p \in Positions, NEW q \in Positions
    PROVE  Near(p, q) <=> Near(q, p)
BY GateFacts DEF Near

\* The wider of two gates makes one target of what either does.
LEMMA NearTransitive ==
    ASSUME TargetsApart, NEW p \in Positions, NEW q \in Positions, NEW r \in Positions,
           Near(p, q), Near(q, r)
    PROVE  Near(p, r)
<1>1. PICK s \in Sources, t \in Sources : InGate(s, p, q) /\ InGate(t, q, r)
  BY DEF Near
<1>2. Gate[s] \in Nat /\ Gate[t] \in Nat /\ p \in Int /\ q \in Int /\ r \in Int
  BY Bounds, PipelineAssumption DEF PipelineAssumption
<1>3. Distance(p, q) \in Int /\ Distance(q, r) \in Int
  BY <1>2 DEF Distance, Abs
<1>4. CASE Gate[s] <= Gate[t]
  <2>1. InGate(t, p, q)
    BY <1>1, <1>2, <1>3, <1>4 DEF InGate
  <2> QED BY <1>1, <2>1 DEF TargetsApart, Near
<1>5. CASE Gate[t] <= Gate[s]
  <2>1. InGate(s, q, r)
    BY <1>1, <1>2, <1>3, <1>5 DEF InGate
  <2> QED BY <1>1, <2>1 DEF TargetsApart, Near
<1> QED BY <1>2, <1>4, <1>5

\* A track that correlates is where the observation is, before and after.
LEMMA OnTarget ==
    ASSUME TargetsApart, NEW track \in Track, NEW obs \in Observation, NEW gap \in 0..MaxGap,
           NEW p \in Reckoned(track, gap), InGate(obs.source, p, obs.pos)
    PROVE  /\ Near(track.pos, obs.pos)
           /\ \A e \in Estimates(p, obs.pos) : Near(e, obs.pos)
<1>1. /\ track.pos \in Positions /\ obs.pos \in Positions /\ p \in Positions
      /\ obs.source \in Sources
  BY DEF Track, Observation, Reckoned
<1>2. InGate(obs.source, p, track.pos)
  BY <1>1 DEF Reckoned, TargetsApart
<1>3. InGate(obs.source, track.pos, obs.pos)
  BY <1>1, <1>2, GateFacts DEF TargetsApart
<1>4. ASSUME NEW e \in Estimates(p, obs.pos) PROVE InGate(obs.source, e, obs.pos)
  <2>1. e \in Positions
    BY DEF Estimates
  <2> QED BY <1>1, <2>1, GateFacts
<1> QED BY <1>1, <1>3, <1>4 DEF Near

\* The track that takes an observation, and any other live track of the target: either
\* the observation is older than that track, or that track is old.
LEMMA CorrelateOld ==
    ASSUME TargetsApart, TrackInv, Correlate
    PROVE  \E id \in EntityIds, track \in Track :
              /\ tracks' = [tracks EXCEPT ![id] = track]
              /\ current' = id
              /\ track.last = Head(batch).ts
              /\ \A b \in EntityIds \ {id} :
                    (/\ Live(b) /\ Near(track.pos, tracks[b].pos)
                     /\ {id, b} \cap (late' \cup narrow') = {})
                    => track.last - tracks[b].last > MaxGap
<1> DEFINE obs == Head(batch)
<1>1. obs \in Observation /\ TypeOK
  BY CorrelateTyped DEF TrackInv, OrderInv
<1>2. obs.pos \in Positions /\ obs.ts \in Nat /\ obs.source \in Sources
  BY <1>1, Bounds DEF Observation, Times
<1>3. ASSUME NEW b \in EntityIds, Live(b)
      PROVE  tracks[b] \in Track /\ tracks[b].pos \in Positions /\ tracks[b].last \in Nat
  BY <1>1, <1>3, OnTrack, Bounds DEF Track, Times
<1>4. /\ late' = late \cup {id \in {current'} : Overtaken(obs)}
      /\ narrow' = narrow \cup {id \in {current'} \cap Fresh : OutOfItsGate(obs)}
  BY DEF Correlate
<1>5. ASSUME NEW b \in EntityIds, Live(b), Near(tracks[b].pos, obs.pos), current' \notin late'
      PROVE  obs.ts >= tracks[b].last
  <2>1. ~(obs.ts < tracks[b].last)
    BY <1>4, <1>5 DEF Overtaken
  <2> QED BY <1>2, <1>3, <1>5, <2>1
<1> HIDE DEF obs
<1>6. CASE \E id \in EntityIds, p \in Positions :
             /\ Nearest(id, p, obs)
             /\ \E estimate \in Estimates(p, obs.pos) :
                   tracks' = [tracks EXCEPT ![id] = Updated(@, estimate, obs)]
             /\ current' = id
  <2>1. PICK id \in EntityIds, p \in Positions :
             /\ Nearest(id, p, obs)
             /\ \E estimate \in Estimates(p, obs.pos) :
                   tracks' = [tracks EXCEPT ![id] = Updated(@, estimate, obs)]
             /\ current' = id
    BY <1>6
  <2>2. PICK e \in Estimates(p, obs.pos) :
             tracks' = [tracks EXCEPT ![id] = Updated(tracks[id], e, obs)]
    BY <2>1
  <2> DEFINE track == Updated(tracks[id], e, obs)
  <2>3. /\ Live(id) /\ GapOf(id, obs) \in 0..MaxGap
        /\ p \in Reckoned(tracks[id], GapOf(id, obs)) /\ InGate(obs.source, p, obs.pos)
    BY <2>1 DEF Nearest, Comparable
  <2>4. Near(tracks[id].pos, obs.pos) /\ Near(e, obs.pos) /\ e \in Positions
    BY <1>1, <1>3, <2>3, OnTarget DEF Estimates
  <2>5. track \in Track /\ track.pos = e /\ track.last = obs.ts
    BY <1>1, <1>3, <2>3, <2>4 DEF Updated, Track, Observation
  <2> HIDE DEF track
  <2>6. ASSUME NEW b \in EntityIds \ {id}, Live(b), Near(track.pos, tracks[b].pos),
               {id, b} \cap (late' \cup narrow') = {}
        PROVE  track.last - tracks[b].last > MaxGap
    <3>1. Near(tracks[b].pos, obs.pos) /\ Near(tracks[id].pos, tracks[b].pos)
      BY <1>2, <1>3, <2>3, <2>4, <2>5, <2>6, NearFacts, NearTransitive
    <3>2. obs.ts >= tracks[b].last
      BY <1>5, <2>1, <2>6, <3>1
    <3>3. FarApart(id, b)
      BY <1>4, <2>3, <2>6, <3>1 DEF TrackInv, OneIsOld
    <3>4. /\ tracks[b].last \in Nat /\ tracks[id].last \in Nat
          /\ obs.ts - tracks[id].last \in 0..MaxGap
      BY <1>3, <2>3, <2>6 DEF GapOf
    <3>5. \/ tracks[id].last - tracks[b].last > MaxGap
          \/ tracks[b].last - tracks[id].last > MaxGap
      BY <3>3 DEF FarApart
    <3> QED BY <1>2, <2>5, <3>2, <3>4, <3>5, Bounds
  <2> QED BY <2>1, <2>2, <2>5, <2>6 DEF track, obs
<1>7. CASE /\ Unmatched(obs)
           /\ \E id \in Fresh : tracks' = [tracks EXCEPT ![id] = Spawned(obs)] /\ current' = id
  <2>1. PICK id \in Fresh : tracks' = [tracks EXCEPT ![id] = Spawned(obs)] /\ current' = id
    BY <1>7
  <2>2. id \in EntityIds
    BY <2>1 DEF Fresh
  <2>3. Spawned(obs) \in Track /\ Spawned(obs).pos = obs.pos /\ Spawned(obs).last = obs.ts
    BY <1>1 DEF Spawned, Track, Observation
  <2>4. ASSUME NEW b \in EntityIds \ {id}, Live(b), Near(obs.pos, tracks[b].pos),
               {id, b} \cap (late' \cup narrow') = {}
        PROVE  obs.ts - tracks[b].last > MaxGap
    <3>1. Near(tracks[b].pos, obs.pos)
      BY <1>2, <1>3, <2>4, NearFacts
    <3>2. obs.ts >= tracks[b].last /\ tracks[b].last \in Nat
      BY <1>3, <1>5, <2>1, <2>4, <3>1
    <3>3. CASE obs.ts - tracks[b].last \in 0..MaxGap
      <4>1. PICK p \in Reckoned(tracks[b], GapOf(b, obs)) : ~InGate(obs.source, p, obs.pos)
        BY <1>7, <2>4, <3>3 DEF Unmatched, Comparable, GapOf
      <4>2. p \in Positions /\ InGate(obs.source, p, tracks[b].pos)
        BY <1>2, <1>3, <2>4, <3>3, <4>1, GateFacts DEF Reckoned, GapOf, TargetsApart
      <4>3. InGate(obs.source, tracks[b].pos, obs.pos)
        BY <1>4, <2>1, <2>4, <3>1, <3>3 DEF OutOfItsGate, Comparable, GapOf
      <4>4. InGate(obs.source, p, obs.pos)
        BY <1>2, <1>3, <2>4, <4>2, <4>3 DEF TargetsApart
      <4> QED BY <4>1, <4>4
    <3> QED BY <1>2, <3>2, <3>3, Bounds
  <2> QED BY <2>1, <2>2, <2>3, <2>4 DEF obs
<1> QED BY <1>6, <1>7 DEF Correlate, obs

\* At first there is no track.
LEMMA TrackInit == Init => TrackInv
BY OrderInit DEF Init, TrackInv, NothingAhead, OneIsOld, Live, NoTrack

\* No step but Correlate sets a time or a position of a track.
LEMMA TracksKept ==
    ASSUME OrderInv, [Next]_vars, ~Correlate
    PROVE  /\ late' = late /\ narrow' = narrow
           /\ \A id \in EntityIds :
                 Live(id)' => /\ Live(id)
                              /\ tracks'[id].pos = tracks[id].pos
                              /\ tracks'[id].last = tracks[id].last
<1>1. late' = late /\ narrow' = narrow
  BY DEF Next, Cycle, Poll, CheckZone, Upsert, Enqueue, Publish, Evict, EvictUpsert, EvictPublish,
         Fail, FailAfterWrite, Abort, Restart, Tick, vars
<1>2. CASE Evict
  <2>1. ASSUME NEW id \in EntityIds, Live(id)' PROVE tracks'[id] = tracks[id]
    <3>1. CASE id \in justLost'
      <4>1. tracks[id] \in Track
        BY <1>2, <3>1, OnTrack DEF OrderInv, Evict, Stale
      <4>2. tracks'[id] = [tracks[id] EXCEPT !.status = "LOST"]
        BY <1>2, <3>1 DEF Evict
      <4> QED BY <2>1, <4>1, <4>2 DEF Live, Track
    <3>2. CASE id \notin justLost'
      BY <1>2, <3>2 DEF Evict
    <3> QED BY <3>1, <3>2
  <2> QED BY <1>1, <2>1 DEF Live
<1>3. CASE tracks' = tracks
  BY <1>1, <1>3 DEF Live
<1>4. CASE Restart
  BY <1>1, <1>4 DEF Restart, Live, NoTrack
<1> QED BY <1>2, <1>3, <1>4
        DEF Next, Cycle, Poll, CheckZone, Upsert, Enqueue, Publish, EvictUpsert, EvictPublish,
            Fail, FailAfterWrite, Abort, Tick, vars

\* Every step keeps the tracks of a target apart.
LEMMA NextTracked ==
    ASSUME TargetsApart PROVE TrackInv /\ [Next]_vars => TrackInv'
<1> SUFFICES ASSUME TrackInv, [Next]_vars PROVE NothingAhead' /\ OneIsOld'
  BY NextOrdered DEF TrackInv
<1>1. TypeOK /\ TypeOK' /\ OrderInv
  BY NextOrdered DEF TrackInv, OrderInv
<1>2. now \in Nat /\ now' \in Nat /\ now <= now'
  <2>1. now \in 0..MaxNow /\ now' \in 0..MaxNow
    BY <1>1 DEF TypeOK, Times
  <2>2. now' = now \/ now' = now + 1
    BY DEF Next, Cycle, Poll, Correlate, CheckZone, Upsert, Enqueue, Publish, Evict, EvictUpsert,
           EvictPublish, Fail, FailAfterWrite, Abort, Restart, Tick, vars
  <2> QED BY <2>1, <2>2, Bounds
<1>3. CASE Correlate
  <2>1. PICK id \in EntityIds, track \in Track :
              /\ tracks' = [tracks EXCEPT ![id] = track]
              /\ current' = id
              /\ track.last = Head(batch).ts
              /\ \A b \in EntityIds \ {id} :
                    (/\ Live(b) /\ Near(track.pos, tracks[b].pos)
                     /\ {id, b} \cap (late' \cup narrow') = {})
                    => track.last - tracks[b].last > MaxGap
    BY <1>3, CorrelateOld
  <2>2. /\ tracks'[id] = track
        /\ \A b \in EntityIds \ {id} : tracks'[b] = tracks[b] /\ (Live(b)' <=> Live(b))
    BY <1>1, <2>1 DEF TypeOK, Live
  <2>3. late \subseteq late' /\ narrow \subseteq narrow' /\ now' = now /\ batch' = Tail(batch) /\ batch # <<>>
    BY <1>3 DEF Correlate
  <2>4. batch \in Seq(Observation)
    BY <1>1 DEF TypeOK
  <2>5. /\ Head(batch).ts <= now
        /\ \A i \in DOMAIN Tail(batch) : Tail(batch)[i].ts <= now
    <3>1. 1 \in DOMAIN batch /\ Head(batch) = batch[1]
      BY <2>3, <2>4
    <3>2. \A i \in DOMAIN Tail(batch) : i + 1 \in DOMAIN batch /\ Tail(batch)[i] = batch[i + 1]
      BY <2>3, <2>4
    <3> QED BY <3>1, <3>2 DEF TrackInv, NothingAhead
  <2>6. NothingAhead'
    BY <2>1, <2>2, <2>3, <2>5 DEF TrackInv, NothingAhead
  <2>7. ASSUME NEW a \in EntityIds, NEW b \in EntityIds, a # b, Live(a)', Live(b)',
               Near(tracks'[a].pos, tracks'[b].pos), {a, b} \cap (late' \cup narrow') = {}
        PROVE  \/ tracks'[a].last - tracks'[b].last > MaxGap
               \/ tracks'[b].last - tracks'[a].last > MaxGap
    <3>1. CASE a = id
      BY <2>1, <2>2, <2>7, <3>1
    <3>2. CASE b = id
      <4>1. track.pos \in Positions /\ tracks[a].pos \in Positions
        BY <1>1, <2>2, <2>7, <3>2, OnTrack DEF Track
      <4>2. Near(track.pos, tracks[a].pos)
        BY <2>2, <2>7, <3>2, <4>1, NearFacts
      <4> QED BY <2>1, <2>2, <2>7, <3>2, <4>2
    <3>3. CASE a # id /\ b # id
      <4>1. FarApart(a, b)
        BY <2>2, <2>3, <2>7, <3>3 DEF TrackInv, OneIsOld
      <4> QED BY <2>2, <3>3, <4>1 DEF FarApart
    <3> QED BY <3>1, <3>2, <3>3
  <2>8. OneIsOld'
    BY <2>7 DEF OneIsOld, FarApart
  <2> QED BY <2>6, <2>8
<1>4. CASE ~Correlate
  <2>1. /\ late' = late /\ narrow' = narrow
        /\ \A id \in EntityIds :
              Live(id)' => /\ Live(id)
                           /\ tracks'[id].pos = tracks[id].pos
                           /\ tracks'[id].last = tracks[id].last
    BY <1>1, <1>4, TracksKept
  <2>2. ASSUME NEW id \in EntityIds, Live(id)' PROVE tracks'[id].last <= now'
    <3>1. tracks[id].last \in Nat
      BY <1>1, <2>1, <2>2, OnTrack, Bounds DEF Track, Times
    <3> QED BY <1>2, <2>1, <2>2, <3>1 DEF TrackInv, NothingAhead
  <2>3. ASSUME NEW i \in DOMAIN batch' PROVE batch'[i].ts <= now'
    <3>1. CASE Poll
      BY <3>1 DEF Poll
    <3>2. CASE batch' = batch
      <4>1. batch[i].ts \in Nat /\ batch[i].ts <= now
        <5>1. batch[i] \in Observation
          BY <1>1, <3>2 DEF TypeOK
        <5> QED BY <3>2, <5>1, Bounds DEF Observation, Times, TrackInv, NothingAhead
      <4> QED BY <1>2, <3>2, <4>1
    <3>3. CASE batch' = <<>>
      BY <3>3
    <3> QED BY <1>4, <3>1, <3>2, <3>3
            DEF Next, Cycle, CheckZone, Upsert, Enqueue, Publish, Evict, EvictUpsert,
                EvictPublish, Fail, FailAfterWrite, Abort, Restart, Tick, vars, loop
  <2>4. NothingAhead'
    BY <2>2, <2>3 DEF NothingAhead
  <2>5. OneIsOld'
    BY <2>1 DEF TrackInv, OneIsOld, FarApart
  <2> QED BY <2>4, <2>5
<1> QED BY <1>3, <1>4

\* As long as targets do not cross, and a track is evicted no later than it stops to
\* correlate (the code's 5 minutes and 300 seconds), no target is followed by two
\* tracks, whatever gates the domains have, unless one of them is stale, took an
\* observation that came late, or was spawned by one whose domain's gate did not reach
\* the other track (trackManager.ts:99).
THEOREM OneTrackPerTarget ==
    ASSUME TargetsApart, LostTimeout <= MaxGap
    PROVE  Spec => []NoPhantomTrack
<1>1. TrackInv => NoPhantomTrack
  <2> SUFFICES ASSUME TrackInv, NEW a \in EntityIds, NEW b \in EntityIds,
                      a # b, Live(a), Live(b), Near(tracks[a].pos, tracks[b].pos),
                      {a, b} \cap (late \cup narrow) = {}
               PROVE  Stale(a) \/ Stale(b)
    BY DEF NoPhantomTrack
  <2>1. FarApart(a, b)
    BY DEF TrackInv, OneIsOld
  <2>2. tracks[a].last \in Nat /\ tracks[b].last \in Nat /\ now \in Nat
    BY OnTrack, Bounds DEF TrackInv, OrderInv, TypeOK, Track, Times
  <2>3. tracks[a].last <= now /\ tracks[b].last <= now
    BY DEF TrackInv, NothingAhead
  <2>4. now - tracks[a].last > LostTimeout \/ now - tracks[b].last > LostTimeout
    BY <2>1, <2>2, <2>3, Bounds DEF FarApart
  <2> QED BY <2>4 DEF Stale
<1>2. TrackInv /\ [Next]_vars => TrackInv'
  BY NextTracked
<1> QED BY <1>1, <1>2, TrackInit, PTL DEF Spec
==============================================================================
