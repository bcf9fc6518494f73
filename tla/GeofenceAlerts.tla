---------------------------- MODULE GeofenceAlerts ----------------------------
(***************************************************************************)
(* alert-svc's worker: one job per position update of an entity, queued by *)
(* fusion-svc in BullMQ.  The zones that hold the position are compared    *)
(* with the zones Redis remembers for the entity, Redis is updated, and    *)
(* then every crossing becomes an alert row that is dispatched.  Last the  *)
(* anomaly detector sees the job.  Operators create and delete zones       *)
(* meanwhile.                                                              *)
(*                                                                         *)
(* The worker runs one job at a time.  A job that throws has failed for    *)
(* good, for the queue is given no attempts.  BullMQ puts a job whose      *)
(* worker died back to the front of the queue once its lock has expired,   *)
(* by which time the new worker may have run later jobs; a job that loses  *)
(* its worker a second time fails.                                         *)
(*                                                                         *)
(* A zone holds some of the positions and alerts on entry, on exit or on   *)
(* both.  The affiliation filter is part of which positions it holds.  A   *)
(* channel that cannot be reached is recorded in the dispatch log and      *)
(* changes nothing else.                                                   *)
(***************************************************************************)
EXTENDS Naturals, FiniteSets, Sequences, SequencesExt

CONSTANTS
    Entities, Positions, Zones,
    Holds,        \* the positions inside each zone
    Trigger,      \* the events of {"ENTRY", "EXIT"} that each zone alerts on
    None,
    Warmup,       \* WARMUP_SAMPLES
    MaxJobs,      \* bound: jobs
    MaxEdits,     \* bound: zones created or deleted
    MaxFailures,  \* bound: calls that throw
    MaxCrashes    \* bound: crashes of alert-svc

ASSUME AlertAssumption ==
    /\ Holds \in [Zones -> SUBSET Positions]
    /\ Trigger \in [Zones -> SUBSET {"ENTRY", "EXIT"}]
    /\ {Warmup, MaxJobs, MaxEdits, MaxFailures, MaxCrashes} \subseteq Nat
    /\ Warmup > 0
    /\ None \notin 1..MaxJobs

VARIABLES
    jobs,       \* every job so far, in the order fusion-svc queued them
    queue,      \* BullMQ: the jobs waiting, as positions in jobs
    stalled,    \* BullMQ: the jobs whose worker died
    stalls,     \* BullMQ: how often each job has lost its worker
    zones,      \* the geofence_zones table
    inside,     \* Redis: alert-svc:entity-zones
    alerts,     \* the alerts table
    job,        \* the job the worker runs, or None
    pc,         \* where processJob stands
    containing, \* currentZones
    leaving,    \* exitedIds still to look up
    todo,       \* the transitions without an alert so far
    samples,    \* the detector's sample count per entity
    edits, failures, crashes,
    \* History:
    steady,     \* zones that were there from the start and still are
    overtaken,  \* jobs broken off before another job of the entity has started
    broken      \* entities with a job that ended before the last of its alerts

bullmq == <<jobs, queue, stalled, stalls>>
worker == <<job, pc, containing, leaving, todo>>
bounds == <<edits, failures, crashes>>
past == <<steady, overtaken, broken>>
vars == <<bullmq, zones, inside, alerts, worker, samples, bounds, past>>

JobIds == 1..MaxJobs
Transitions == Zones \X {"ENTRY", "EXIT"}
AlertRow == [job: JobIds, what: Transitions \cup {<<"ANOMALY">>}, sent: 0..1, logged: BOOLEAN]

TypeOK ==
    /\ jobs \in Seq(Entities \X Positions) /\ Len(jobs) <= MaxJobs
    /\ queue \in Seq(JobIds) /\ stalled \subseteq JobIds
    /\ stalls \in [JobIds -> 0..2]
    /\ zones \subseteq Zones
    /\ inside \in [Entities -> SUBSET Zones]
    /\ alerts \in Seq(AlertRow)
    /\ job \in JobIds \cup {None}
    /\ pc \in {"take", "query", "lookup", "alert", "dispatch", "log", "score", "note"}
    /\ containing \subseteq Zones /\ leaving \subseteq Zones
    /\ todo \subseteq Transitions
    /\ samples \in [Entities -> 0..(Warmup + 1)]
    /\ edits \in 0..MaxEdits /\ failures \in 0..MaxFailures /\ crashes \in 0..MaxCrashes
    /\ steady \subseteq zones
    /\ overtaken \subseteq JobIds
    /\ broken \subseteq Entities

Init ==
    /\ jobs = <<>> /\ queue = <<>> /\ stalled = {} /\ stalls = [j \in JobIds |-> 0]
    /\ zones \in SUBSET Zones
    /\ inside = [e \in Entities |-> {}]
    /\ alerts = <<>>
    /\ job = None /\ pc = "take" /\ containing = {} /\ leaving = {} /\ todo = {}
    /\ samples = [e \in Entities |-> 0]
    /\ edits = 0 /\ failures = 0 /\ crashes = 0
    /\ steady = zones
    /\ overtaken = {}
    /\ broken = {}

EntityOf(j) == jobs[j][1]
PositionOf(j) == jobs[j][2]
entity == EntityOf(job)

------------------------------------------------------------------------------
\* enqueueGeofenceCheck by fusion-svc.
Add(e, pos) ==
    /\ Len(jobs) < MaxJobs
    /\ jobs' = Append(jobs, <<e, pos>>)
    /\ queue' = Append(queue, Len(jobs) + 1)
    /\ UNCHANGED <<stalled, stalls, zones, inside, alerts, worker, samples, bounds, past>>

\* POST /geofence-zones.  The id of the zone is new.
CreateZone(z) ==
    /\ edits < MaxEdits /\ edits' = edits + 1
    /\ z \notin zones \cup containing \cup leaving \cup UNION {inside[e] : e \in Entities}
    /\ \A i \in DOMAIN alerts : alerts[i].what[1] # z
    /\ zones' = zones \cup {z}
    /\ UNCHANGED <<bullmq, inside, alerts, worker, samples, failures, crashes, past>>

\* DELETE /geofence-zones/:id.
DeleteZone(z) ==
    /\ edits < MaxEdits /\ edits' = edits + 1
    /\ z \in zones
    /\ zones' = zones \ {z}
    /\ steady' = steady \ {z}
    /\ UNCHANGED <<bullmq, inside, alerts, worker, samples, failures, crashes, overtaken, broken>>

\* The commander's routes.
EditZones == \E z \in Zones : CreateZone(z) \/ DeleteZone(z)

\* The worker takes the next job.
Take ==
    /\ pc = "take" /\ queue # <<>>
    /\ job' = Head(queue)
    /\ queue' = Tail(queue)
    /\ pc' = "query"
    /\ overtaken' = overtaken \cup
          {j \in JobIds \ {job'} : stalls[j] > 0 /\ EntityOf(j) = EntityOf(job')}
    /\ UNCHANGED <<jobs, stalled, stalls, zones, inside, alerts, containing, leaving, todo,
                   samples, bounds, steady, broken>>

\* Bug: every zone that holds the position counts as entered.
EnteredAlways(now, before) == {<<z, "ENTRY">> : z \in {y \in now : "ENTRY" \in Trigger[y]}}

Entered(now, before) == {<<z, "ENTRY">> : z \in {y \in now \ before : "ENTRY" \in Trigger[y]}}

\* zonesContaining: the active zones around a position.
Containing(pos) == {z \in zones : pos \in Holds[z]}

\* zonesContaining, then smembers; only this worker writes the set.
Query ==
    /\ pc = "query"
    /\ containing' = Containing(PositionOf(job))
    /\ todo' = Entered(containing', inside[entity])
    /\ leaving' = inside[entity] \ containing'
    /\ pc' = "lookup"
    /\ UNCHANGED <<bullmq, zones, inside, alerts, job, samples, bounds, past>>

\* zoneById of one zone that was left; a deleted zone gives no transition.
Lookup(z) ==
    /\ pc = "lookup" /\ z \in leaving
    /\ leaving' = leaving \ {z}
    /\ todo' = todo \cup {<<y, "EXIT">> : y \in {z} \cap {x \in zones : "EXIT" \in Trigger[x]}}
    /\ UNCHANGED <<bullmq, zones, inside, alerts, job, pc, containing, samples, bounds, past>>

\* Bug: what was left is never removed.
RememberAdded ==
    /\ pc = "lookup" /\ leaving = {}
    /\ inside' = [inside EXCEPT ![entity] = @ \cup containing]
    /\ pc' = "alert"
    /\ UNCHANGED <<bullmq, zones, alerts, job, containing, leaving, todo, samples, bounds, past>>

\* Bug: Redis is not updated.
RememberNothing ==
    /\ pc = "lookup" /\ leaving = {}
    /\ pc' = "alert"
    /\ UNCHANGED <<bullmq, zones, inside, alerts, job, containing, leaving, todo, samples, bounds, past>>

\* MULTI DEL SADD EXEC.
Remember ==
    /\ pc = "lookup" /\ leaving = {}
    /\ inside' = [inside EXCEPT ![entity] = containing]
    /\ pc' = "alert"
    /\ UNCHANGED <<bullmq, zones, alerts, job, containing, leaving, todo, samples, bounds, past>>

NewAlert(what) == Append(alerts, [job |-> job, what |-> what, sent |-> 0, logged |-> FALSE])
LastAlert == alerts[Len(alerts)]

\* createAlert of the next transition, entries first.
Alert(t) ==
    /\ pc = "alert" /\ t \in todo
    /\ t[2] = "EXIT" => \A u \in todo : u[2] = "EXIT"
    /\ todo' = todo \ {t}
    /\ alerts' = NewAlert(t)
    /\ pc' = "dispatch"
    /\ UNCHANGED <<bullmq, zones, inside, job, containing, leaving, samples, bounds, past>>

\* dispatchAlert.
Dispatch ==
    /\ pc = "dispatch"
    /\ alerts' = [alerts EXCEPT ![Len(alerts)].sent = @ + 1]
    /\ pc' = "log"
    /\ UNCHANGED <<bullmq, zones, inside, job, containing, leaving, todo, samples, bounds, past>>

\* setDispatchLog.
Log ==
    /\ pc = "log"
    /\ alerts' = [alerts EXCEPT ![Len(alerts)].logged = TRUE]
    /\ pc' = "alert"
    /\ UNCHANGED <<bullmq, zones, inside, job, containing, leaving, todo, samples, bounds, past>>

Finished ==
    /\ job' = None /\ pc' = "take"
    /\ containing' = {} /\ leaving' = {} /\ todo' = {}

\* detector.update: any z-score beyond the threshold once it is warm.
Score ==
    /\ pc = "alert" /\ todo = {}
    /\ samples' = [samples EXCEPT ![entity] = IF @ > Warmup THEN @ ELSE @ + 1]
    /\ \/ /\ Finished
          /\ UNCHANGED alerts
       \/ /\ samples'[entity] > Warmup
          /\ alerts' = NewAlert(<<"ANOMALY">>)
          /\ pc' = "note"
          /\ UNCHANGED <<job, containing, leaving, todo>>
    /\ UNCHANGED <<bullmq, zones, inside, bounds, past>>

\* setDispatchLog of an anomaly alert, which goes to no channel.
Note ==
    /\ pc = "note"
    /\ alerts' = [alerts EXCEPT ![Len(alerts)].logged = TRUE]
    /\ Finished
    /\ UNCHANGED <<bullmq, zones, inside, samples, bounds, past>>

\* The job ends here, with alerts still to be written.
BreaksOff ==
    broken' = broken \cup {e \in Entities :
        pc \in {"alert", "dispatch", "log"} /\ todo # {} /\ e = entity}

\* A call of processJob throws: the job is in the failed set.
Fail ==
    /\ pc # "take"
    /\ failures < MaxFailures /\ failures' = failures + 1
    /\ Finished
    /\ BreaksOff
    /\ UNCHANGED <<bullmq, zones, inside, alerts, samples, edits, crashes, steady, overtaken>>

\* alert-svc dies and is started again.
Crash ==
    /\ crashes < MaxCrashes /\ crashes' = crashes + 1
    /\ Finished
    /\ BreaksOff
    /\ samples' = [e \in Entities |-> 0]
    /\ stalled' = stalled \cup ({job} \ {None})
    /\ stalls' = [j \in JobIds |-> IF j = job THEN stalls[j] + 1 ELSE stalls[j]]
    /\ UNCHANGED <<jobs, queue, zones, inside, alerts, edits, failures, steady, overtaken>>

\* Bug: nobody looks for stalled jobs.
RecoverNever(j) == FALSE /\ UNCHANGED vars

\* The lock of a stalled job has expired.
Recover(j) ==
    /\ j \in stalled
    /\ stalled' = stalled \ {j}
    /\ queue' = IF stalls[j] <= 1 THEN <<j>> \o queue ELSE queue
    /\ UNCHANGED <<jobs, stalls, zones, inside, alerts, worker, samples, bounds, past>>

ProcessJob ==
    \/ Take \/ Query \/ \E z \in Zones : Lookup(z)
    \/ Remember
    \/ \E t \in Transitions : Alert(t)
    \/ Dispatch \/ Log \/ Score \/ Note

Next ==
    \/ \E e \in Entities, pos \in Positions : Add(e, pos)
    \/ EditZones
    \/ ProcessJob
    \/ Fail \/ Crash
    \/ \E j \in JobIds : Recover(j)

\* The worker works and BullMQ looks for stalled jobs, every 30 seconds.
Fairness == WF_vars(ProcessJob) /\ \A j \in JobIds : WF_vars(Recover(j))

Spec == Init /\ [][Next]_vars /\ Fairness

------------------------------------------------------------------------------
\* Everything queued was run, once and to its end.
Calm == pc = "take" /\ queue = <<>> /\ failures = 0 /\ crashes = 0

\* Where the first n jobs leave an entity, and the jobs that take it over a zone's border.
IsIn(e, n, z) == \E k \in 1..n :
    EntityOf(k) = e /\ PositionOf(k) \in Holds[z] /\ \A h \in (k + 1)..n : EntityOf(h) # e
Crosses(j, z, event) ==
    LET before == IsIn(EntityOf(j), j - 1, z)
        after  == PositionOf(j) \in Holds[z]
    IN  IF event = "ENTRY" THEN after /\ ~before ELSE before /\ ~after
AlertsOf(e, z, event) ==
    {i \in DOMAIN alerts : EntityOf(alerts[i].job) = e /\ alerts[i].what = <<z, event>>}

\* Without failures every crossing of a zone that asks for it becomes exactly one
\* alert, of the job that crosses, dispatched once and logged, and nothing else does,
\* although the worker compares with a set that it keeps up itself from job to job.
OneAlertPerCrossing ==
    Calm => \A e \in Entities, z \in steady, event \in {"ENTRY", "EXIT"} :
        LET found == AlertsOf(e, z, event) IN
        /\ {alerts[i].job : i \in found}
              = {j \in DOMAIN jobs : EntityOf(j) = e /\ event \in Trigger[z] /\ Crosses(j, z, event)}
        /\ \A i, k \in found : alerts[i].job = alerts[k].job => i = k
        /\ \A i \in found : alerts[i].sent = 1 /\ alerts[i].logged

\* A job that is run again after a crash does not alert or notify a second time,
\* unless another job of the entity came in between.
NoSecondAlert ==
    \A i, j \in DOMAIN alerts :
        /\ alerts[i].sent <= 1
        /\ (i # j /\ alerts[i].job = alerts[j].job) =>
              alerts[i].what # alerts[j].what \/ alerts[i].job \in overtaken

\* In whatever order jobs are run again, the alerts of an entity add up to what Redis
\* remembers of a zone nobody edited: in it, the entity has been announced once more
\* than it has been seen off.  Jobs may fail, or stall and be run again, before the
\* Redis update or after the last alert; one that ends in between spoils the sum for
\* its entity, which is left out from then on (worker.ts:156, 159-184).
AlertsMatchMemory ==
    pc = "take" => \A e \in Entities \ broken : \A z \in steady :
        Trigger[z] = {"ENTRY", "EXIT"} =>
            Cardinality(AlertsOf(e, z, "ENTRY"))
              = Cardinality(AlertsOf(e, z, "EXIT")) + (IF z \in inside[e] THEN 1 ELSE 0)

\* Every job is run to its end, or fails: none is left behind by a dead worker.
EveryJobEnds ==
    \A j \in JobIds : j \in DOMAIN jobs ~> j \notin stalled \cup {job} \cup ToSet(queue)
==============================================================================
