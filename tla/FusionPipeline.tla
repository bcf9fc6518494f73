--------------------------- MODULE FusionPipeline ---------------------------
(***************************************************************************)
(* One cycle after the other of fusion-svc's pipeline: correlate every     *)
(* observation of a batch onto a track in memory, write the entity row,    *)
(* tell the Socket.io clients, queue the geofence check, publish to the    *)
(* entity topic; then evict the stale tracks the same way.  Every database,*)
(* queue and Kafka call is an await that may throw; the loop logs it, drops *)
(* the rest of the cycle and starts the next one.                          *)
(*                                                                         *)
(* A position is a point on a line.  Where a track is reckoned to be after *)
(* a while, and what the Kalman filter makes of that and of an observation,*)
(* are any of the points the filter may come to.  An observation's domain, *)
(* its classification and whether its confidence is above 0.5 go together: *)
(* its source.  The remaining fields of an entity are left out.            *)
(***************************************************************************)
EXTENDS Integers, Sequences

CONSTANTS
    EntityIds,        \* bound: what randomUUID() may return; no track is spawned without one
    Positions,        \* a set of integers
    Sources,          \* what an observation may be: fromAis, fromAdsb, fromEwRf, fromIot
    Sure,             \* the sources with a confidence above 0.5
    Gate,             \* gateMeters: the correlation gate of each source's domain
    MaxSpeed,         \* bound: how far a filter may take a target to go in a second
    MaxGap,           \* correlationMaxGapSeconds
    LostTimeout,      \* lostTimeoutMs
    MaxBatch,         \* bound: observations per batch
    MaxNow,           \* bound: the clock
    MaxFailures,      \* bound: calls that throw
    MaxRestarts       \* bound: restarts of fusion-svc

ASSUME PipelineAssumption ==
    /\ Positions \subseteq Int
    /\ Gate \in [Sources -> Nat]
    /\ {MaxSpeed, MaxGap, LostTimeout, MaxBatch, MaxNow, MaxFailures, MaxRestarts} \subseteq Nat

VARIABLES
    now,       \* the wall clock
    tracks,    \* TrackManager.tracks
    rows,      \* the entities table
    topic,     \* the last message per entity on {env}.vektor.entities.upserted
    said,      \* the last event per entity the gateway emitted
    pc,        \* where the cycle stands
    batch,     \* observations of the batch still to process
    current,   \* the track being processed
    justLost,  \* tracks evicted and not yet written
    \* History:
    late,      \* tracks spawned or updated although a newer live one was near
    narrow,    \* tracks spawned although a live one was within another domain's gate
    failures,  \* calls that have thrown
    restarts   \* restarts of fusion-svc

loop == <<pc, batch, current, justLost>>
vars == <<now, tracks, rows, topic, said, loop, late, narrow, failures, restarts>>

Times == 0..MaxNow
Observation == [pos: Positions, source: Sources, ts: Times]
Track == [pos: Positions, class: Sources, sure: BOOLEAN,
          status: {"ACTIVE", "CONFLICTED", "LOST"}, last: Times]
Entity == [pos: Positions, status: {"ACTIVE", "CONFLICTED", "LOST"}]
NoTrack == [status |-> "none"]
NoRow == [status |-> "none"]
NoMessage == [status |-> "none"]
LostMessage == [status |-> "null"]
NoId == [id |-> "none"]

TypeOK ==
    /\ now \in Times
    /\ tracks \in [EntityIds -> Track \cup {NoTrack}]
    /\ rows \in [EntityIds -> Entity \cup {NoRow}]
    /\ topic \in [EntityIds -> Entity \cup {NoMessage, LostMessage}]
    /\ said \in [EntityIds -> {"nothing", "new", "updated", "lost"}]
    /\ pc \in {"poll", "next", "zone", "upsert", "queue", "publish",
               "evictUpsert", "evictPublish"}
    /\ batch \in Seq(Observation) /\ Len(batch) <= MaxBatch
    /\ current \in EntityIds \cup {NoId}
    /\ justLost \subseteq EntityIds
    /\ late \subseteq EntityIds
    /\ narrow \subseteq EntityIds
    /\ failures \in 0..MaxFailures
    /\ restarts \in 0..MaxRestarts

Live(id) == tracks[id].status \in {"ACTIVE", "CONFLICTED"}
Abs(n) == IF n < 0 THEN -n ELSE n
Distance(p, q) == Abs(p - q)
InGate(source, p, q) == Distance(p, q) <= Gate[source]

\* Within the gate of some domain: one target, as far as the sensors can tell.
Near(p, q) == \E source \in Sources : InGate(source, p, q)

\* extrapolate(): where a track may be reckoned to be after a number of seconds.
Reckoned(track, gap) == {p \in Positions : Distance(p, track.pos) <= MaxSpeed * gap}

\* What the filter may make of a prediction and an observation: a point between.
Estimates(p, q) == {e \in Positions : Distance(p, e) + Distance(e, q) = Distance(p, q)}

Stale(id) == Live(id) /\ now - tracks[id].last > LostTimeout

Init ==
    /\ now = 0
    /\ tracks = [id \in EntityIds |-> NoTrack]
    /\ rows = [id \in EntityIds |-> NoRow]
    /\ topic = [id \in EntityIds |-> NoMessage]
    /\ said = [id \in EntityIds |-> "nothing"]
    /\ pc = "poll"
    /\ batch = <<>>
    /\ current = NoId
    /\ justLost = {}
    /\ late = {}
    /\ narrow = {}
    /\ failures = 0
    /\ restarts = 0

------------------------------------------------------------------------------
\* poll() returns a batch in sensor_ts order.  An event that was late for the
\* window may be older than what earlier batches held (see WatermarkWindow).
InOrder(b) == \A i, j \in DOMAIN b : i < j => b[i].ts <= b[j].ts

Fresh == {id \in EntityIds : tracks[id] = NoTrack /\ rows[id] = NoRow}

Poll ==
    /\ pc = "poll"
    /\ \E n \in 0..MaxBatch : \E b \in [1..n -> Observation] :
          /\ InOrder(b)
          /\ \A i \in 1..n : b[i].ts <= now
          /\ batch' = b
    /\ pc' = "next"
    /\ UNCHANGED <<now, tracks, rows, topic, said, current, justLost, late, narrow, failures, restarts>>

GapOf(id, obs) == obs.ts - tracks[id].last

\* Bug: LOST tracks are not skipped.
ComparableWithLost(obs) ==
    {id \in EntityIds : tracks[id] # NoTrack /\ GapOf(id, obs) \in 0..MaxGap}

\* Bug: a gap of exactly correlationMaxGapSeconds no longer correlates.
ComparableShortGap(obs) ==
    {id \in EntityIds : Live(id) /\ GapOf(id, obs) \in 0..(MaxGap - 1)}

\* The tracks an observation is compared with.
Comparable(obs) ==
    {id \in EntityIds : Live(id) /\ GapOf(id, obs) \in 0..MaxGap}

\* A track that may be the nearest, reckoned to be at p.
Nearest(id, p, obs) ==
    /\ id \in Comparable(obs)
    /\ p \in Reckoned(tracks[id], GapOf(id, obs))
    /\ InGate(obs.source, p, obs.pos)
    /\ \A other \in Comparable(obs) \ {id} :
          \E q \in Reckoned(tracks[other], GapOf(other, obs)) :
             Distance(p, obs.pos) <= Distance(q, obs.pos)

\* Every track may be reckoned to be outside the gate of the observation's domain.
Unmatched(obs) ==
    \A id \in Comparable(obs) :
        \E p \in Reckoned(tracks[id], GapOf(id, obs)) : ~InGate(obs.source, p, obs.pos)

Updated(track, estimate, obs) ==
    [track EXCEPT !.pos = estimate,
                  !.last = obs.ts,
                  !.status = IF obs.source # track.class /\ obs.source \in Sure /\ track.sure
                             THEN "CONFLICTED" ELSE "ACTIVE",
                  !.sure = @ \/ obs.source \in Sure]

Spawned(obs) ==
    [pos |-> obs.pos, class |-> obs.source, sure |-> obs.source \in Sure,
     status |-> "ACTIVE", last |-> obs.ts]

\* A live track near an observation has a newer one already.
Overtaken(obs) ==
    \E id \in EntityIds : Live(id) /\ Near(tracks[id].pos, obs.pos) /\ obs.ts < tracks[id].last

\* A live track is near an observation, but not within the gate of its domain.
OutOfItsGate(obs) ==
    \E id \in Comparable(obs) :
        Near(tracks[id].pos, obs.pos) /\ ~InGate(obs.source, tracks[id].pos, obs.pos)

\* The next observation of the batch: correlate() changes the track in memory,
\* before anything is written.
Correlate ==
    /\ pc = "next"
    /\ batch # <<>>
    /\ LET obs == Head(batch) IN
       \/ \E id \in EntityIds, p \in Positions :
             /\ Nearest(id, p, obs)
             /\ \E estimate \in Estimates(p, obs.pos) :
                   tracks' = [tracks EXCEPT ![id] = Updated(@, estimate, obs)]
             /\ current' = id
       \/ /\ Unmatched(obs)
          /\ \E id \in Fresh :
                /\ tracks' = [tracks EXCEPT ![id] = Spawned(obs)]
                /\ current' = id
    /\ late' = late \cup {id \in {current'} : Overtaken(Head(batch))}
    /\ narrow' = narrow \cup {id \in {current'} \cap Fresh : OutOfItsGate(Head(batch))}
    /\ batch' = Tail(batch)
    /\ pc' = "zone"
    /\ UNCHANGED <<now, rows, topic, said, justLost, failures, restarts>>

\* isInNoStrikeZone: one more call that may throw.  Its answer is a field of the
\* entity that is left out here.
CheckZone ==
    /\ pc = "zone"
    /\ pc' = "upsert"
    /\ UNCHANGED <<now, tracks, rows, topic, said, batch, current, justLost, late, narrow, failures, restarts>>

EntityOf(id) == [pos |-> tracks[id].pos, status |-> tracks[id].status]

\* upsertEntity, and the event that its answer calls for.  correlate() has just
\* added a point to the trajectory, so a row that exists has changed fields.
Upsert ==
    /\ pc = "upsert"
    /\ rows' = [rows EXCEPT ![current] = EntityOf(current)]
    /\ said' = [said EXCEPT ![current] = IF rows[current] = NoRow THEN "new" ELSE "updated"]
    /\ pc' = "queue"
    /\ UNCHANGED <<now, tracks, topic, batch, current, justLost, late, narrow, failures, restarts>>

\* enqueueGeofenceCheck.
Enqueue ==
    /\ pc = "queue"
    /\ pc' = "publish"
    /\ UNCHANGED <<now, tracks, rows, topic, said, batch, current, justLost, late, narrow, failures, restarts>>

\* publishEntityUpserted.
Publish ==
    /\ pc = "publish"
    /\ topic' = [topic EXCEPT ![current] = EntityOf(current)]
    /\ pc' = "next"
    /\ current' = NoId
    /\ UNCHANGED <<now, tracks, rows, said, batch, justLost, late, narrow, failures, restarts>>

\* evictStale(): every stale track is marked LOST at once, before the first of
\* them is written.
Evict ==
    /\ pc = "next"
    /\ batch = <<>>
    /\ justLost' = {id \in EntityIds : Stale(id)}
    /\ tracks' = [id \in EntityIds |->
                    IF id \in justLost' THEN [tracks[id] EXCEPT !.status = "LOST"] ELSE tracks[id]]
    /\ pc' = IF justLost' = {} THEN "poll" ELSE "evictUpsert"
    /\ UNCHANGED <<now, rows, topic, said, batch, current, late, narrow, failures, restarts>>

\* Bug: the event goes out without the row being written.
EvictEmitOnly ==
    /\ pc = "evictUpsert"
    /\ \E id \in justLost :
          /\ current' = id
          /\ said' = [said EXCEPT ![id] = "lost"]
    /\ pc' = "evictPublish"
    /\ UNCHANGED <<now, tracks, rows, topic, batch, justLost, late, narrow, failures, restarts>>

\* One of the lost tracks, in the order of the map: the row, then the event.
EvictUpsert ==
    /\ pc = "evictUpsert"
    /\ \E id \in justLost :
          /\ current' = id
          /\ rows' = [rows EXCEPT ![id] = EntityOf(id)]
          /\ said' = [said EXCEPT ![id] = "lost"]
    /\ pc' = "evictPublish"
    /\ UNCHANGED <<now, tracks, topic, batch, justLost, late, narrow, failures, restarts>>

\* Bug: the entity itself is published instead of null.
EvictPublishEntity ==
    /\ pc = "evictPublish"
    /\ topic' = [topic EXCEPT ![current] = EntityOf(current)]
    /\ justLost' = justLost \ {current}
    /\ pc' = IF justLost' = {} THEN "poll" ELSE "evictUpsert"
    /\ current' = NoId
    /\ UNCHANGED <<now, tracks, rows, said, batch, late, narrow, failures, restarts>>

EvictPublish ==
    /\ pc = "evictPublish"
    /\ topic' = [topic EXCEPT ![current] = LostMessage]
    /\ justLost' = justLost \ {current}
    /\ pc' = IF justLost' = {} THEN "poll" ELSE "evictUpsert"
    /\ current' = NoId
    /\ UNCHANGED <<now, tracks, rows, said, batch, late, narrow, failures, restarts>>

\* The call at pc throws: the loop logs it and starts over, without the rest of
\* the batch and of the lost tracks.
Abort ==
    /\ failures < MaxFailures
    /\ failures' = failures + 1
    /\ pc' = "poll"
    /\ batch' = <<>>
    /\ justLost' = {}
    /\ current' = NoId
    /\ UNCHANGED <<now, tracks, topic, said, late, narrow, restarts>>

Fail ==
    /\ \/ pc \in {"zone", "upsert", "queue", "publish", "evictUpsert", "evictPublish"}
       \/ pc = "next" /\ batch # <<>>
    /\ Abort
    /\ UNCHANGED rows

\* A write whose answer is lost throws although the row was changed.
FailAfterWrite ==
    /\ \/ pc = "upsert" /\ rows' = [rows EXCEPT ![current] = EntityOf(current)]
       \/ pc = "evictUpsert" /\ \E id \in justLost : rows' = [rows EXCEPT ![id] = EntityOf(id)]
    /\ Abort

\* fusion-svc restarts: the tracks are gone, the rows are not.
Restart ==
    /\ restarts < MaxRestarts
    /\ restarts' = restarts + 1
    /\ tracks' = [id \in EntityIds |-> NoTrack]
    /\ pc' = "poll"
    /\ batch' = <<>>
    /\ justLost' = {}
    /\ current' = NoId
    /\ UNCHANGED <<now, rows, topic, said, late, narrow, failures>>

\* The pipeline waits for nothing but its calls; time passes meanwhile.
Tick ==
    /\ now < MaxNow
    /\ now' = now + 1
    /\ UNCHANGED <<tracks, rows, topic, said, loop, late, narrow, failures, restarts>>

Cycle ==
    \/ Poll \/ Correlate \/ CheckZone \/ Upsert \/ Enqueue \/ Publish
    \/ Evict \/ EvictUpsert \/ EvictPublish
    \/ Fail \/ FailAfterWrite

Next == Cycle \/ Restart \/ Tick

\* while (running): the cycles follow each other.
Spec == Init /\ [][Next]_vars /\ WF_vars(Cycle)

------------------------------------------------------------------------------
\* Nothing follows a loss.  An entity that the table shows as LOST stays as it is:
\* no observation, no repeated eviction and no restart brings it back.  And a
\* Socket.io client hears entity:new of it at most once and before anything else,
\* entity:lost at most once and after everything else.
LostIsFinal ==
    [][\A id \in EntityIds :
          /\ rows[id].status = "LOST" => rows'[id] = rows[id]
          /\ said'[id] # said[id] =>
                \/ said[id] = "nothing"
                \/ said[id] \in {"new", "updated"} /\ said'[id] \in {"updated", "lost"}]_vars

\* One track per target: of two live tracks that are near each other, be it by the
\* widest gate only, one has had no update for so long that it is due for eviction,
\* or took an observation although the other was newer, or was spawned by a sensor
\* whose own gate is narrower than the distance (trackManager.ts:99: an AIS fix
\* does not find the track of an EW/RF fix 2 km away, although the EW/RF fix would
\* have found the track of the AIS fix).  (Positions and MaxSpeed are taken so that
\* being within a gate is transitive and no target is reckoned to leave it: targets
\* do not cross.)
NoPhantomTrack ==
    \A a, b \in EntityIds :
        (a # b /\ Live(a) /\ Live(b) /\ Near(tracks[a].pos, tracks[b].pos))
        => Stale(a) \/ Stale(b) \/ {a, b} \cap (late \cup narrow) # {}

\* Nothing reaches the durable topic before the table: an entity on the topic
\* has a row, and one that the topic declares lost is LOST there and was announced.
PublishedIsPersisted ==
    \A id \in EntityIds :
        /\ topic[id] # NoMessage => rows[id] # NoRow
        /\ topic[id] = LostMessage => rows[id].status = "LOST" /\ said[id] = "lost"

\* Between two cycles, and as long as no call has failed, memory, table, topic
\* and clients agree on every entity this process tracks.
WrittenThrough ==
    pc = "poll" /\ failures = 0 =>
        \A id \in EntityIds :
            /\ Live(id) => /\ rows[id] # NoRow
                           /\ rows[id].pos = tracks[id].pos
                           /\ rows[id].status = tracks[id].status
                           /\ topic[id] = rows[id]
                           /\ said[id] \in {"new", "updated"}
            /\ tracks[id].status = "LOST" => /\ rows[id].status = "LOST"
                                            /\ topic[id] = LostMessage
                                            /\ said[id] = "lost"

==============================================================================
