# Vektor backend: TLA+ models, checks and proofs

This directory specifies the control of the vektor-backend services in TLA+:
what each handler, loop and timer changes, in which order, and what can come in
between. TLC checks the specifications on small instances; TLAPS proves the
central ones for all values of their constants. `PROJECT.json` lists the
components, the runs, the source lines of every definition (`map`), the mutated
definitions that each property was seen to reject (`mutants`), the hazards and the
theorems.

Contents

1. The system: inventory of its parts
2. The modules, and how they correspond to the code
3. The runs: what each checks, with which bounds, and what it shows
4. Fairness
5. What is proved, and how
6. Disagreements between the code and what is said of it
7. What is not modelled
8. Plan

## 1. The system

A monorepo of TypeScript services. Sensors feed Kafka; `fusion-svc` fuses their
observations into tracks; the entities go to PostgreSQL, to Socket.io clients, to
a BullMQ queue for geofence checks and to a Kafka topic that edge nodes mirror.
Operators triage alerts, keep the blue-force registry and decide on courses of
action (COAs). Each service runs one replica and one event loop, so within a
service concurrency means handlers and timers that interleave at every `await`;
between services it means processes that crash and messages that are repeated.

| Component | State | Operations | Interaction | What is hard | What makes it correct |
|---|---|---|---|---|---|
| `packages/redis` window | streams (Redis); cursors, buffer, newest `sensor_ts` (memory) | `publishToStream`, `poll` | written by the ingest handlers, polled by the pipeline | merging domains that race; an idle read flushes; memory lost at restart | nothing lost or repeated while the process lives; `sensor_ts` order up to lateness and flushes |
| fusion ingest | Kafka offsets, the Redis connection | `eachMessage`, the loop in `index.ts` | one connection for XADD and blocking XREAD | offsets against crashes and rejoins; commands that wait for each other | a committed message was streamed; everything arrives |
| fusion pipeline | tracks (memory), `entities` (Postgres), entity topic, client events | `runPipelineOnce` | reads the window, feeds gateway, geofence queue and topic | five awaits per observation, each may throw; late observations; eviction | one track per target, as far as the gates agree; topic never ahead of table; clients see new, updated, lost in this order |
| Socket.io gateway | subscriptions | handshake, subscribe, emit | called by the pipeline | messages in transit while events are emitted; entities that leave an area of interest | a client is sent what it asked for; its picture is wrong only of what left its area |
| blue-force registry | `blue_force_assets`, `no_strike_zones` | upsert and delete assets and zones | zones are read by the pipeline and by coa-svc | four statements without a transaction | the buffer zone follows the asset |
| geofence alerting (alert-svc) | job queue, remembered zones (Redis), alerts, detector | `processJob`, zone edits | queued by fusion, dispatches to channels | Redis updated before the alerts; stalled jobs run again, late | one alert per crossing |
| alert triage (alert-svc) | `alerts`, `alert_actions` | `applyAlertAction` | operators side by side, edge nodes | three statements without a transaction | the action log is true and complete |
| edge delta sync | SQLite mirror and offsets; group offsets at the broker | `startDeltaSync` | consumes the entity topic | crash between two statements; rejoin; expired offsets | the mirror is a replay of the topic |
| edge intake queue | BullMQ jobs | queue and forward an action | posts to alert-svc | one attempt; the forward has no token; a worker that dies | nobody acts on an alert who may not; what is done was logged |
| COA generation (coa-svc) | the mode, the embedding pipeline | search, ask, gate, store | Qdrant, the language models, then approval | doctrine replaced meanwhile; the edge's gate on an average | what is stored passed the gates |
| COA approval (coa-svc, audit-svc) | `coas`, `audit_log` | generate, approve, reject | audit POST before the answer | decision and trail in two databases | who was answered is audited; the trail tells the truth |
| inventory and forecast (logistics-svc) | items, history, forecasts, alerts | CDC consumer, recompute timer | reads ERP changes, writes alerts | redelivery; errors swallowed; read-then-write across awaits, of two cycles at once | the copy catches up; one alert per low spell |
| routing (logistics-svc) | road graph | find route, block edge | pgRouting | blocked edges only cost more | never a route over a blocked edge |
| report scheduling (reporting-svc) | schedules, reports, mails | `runScheduledDispatchTick` | timer, SMTP | overlapping ticks; failure between two mails; an expression that does not parse | nobody passed over; one report per firing |
| tracking (cv-inference-svc) | tracks per camera | `step`, `runFrameConsumer` | frames in, detections out | greedy association over many frames | one track per detection; identities survive occlusion |
| model hot swap (cv-inference-svc) | active session | `load`, `swap`, `infer` | uploads race with each other and with inference | the later upload may load first; a model that detects nothing | no frame in flight is dropped; what was answered is not undone by an older request |
| ingest adapters (ingest-svc) | byte and line buffers, frame numbers, the inbox | split, decode, number, produce | produce to Kafka, share its producer and the shutdown | markers split over chunks; sends that overtake and fail; a shutdown with requests under way; counters lost at a restart | every whole frame or line is taken up once, in order; answers are true |
| authentication (packages/auth) | none | verify, `requireRole` | all HTTP routes, the gateway's handshake | one role chosen out of several | more roles never allow less, with one exception |
| doctrine retrieval (packages/qdrant) | vector collection, cached pipeline | ingest, retrieve | coa-svc | delete, embed and upsert are separate; the delete is only acknowledged | the doctrine found is that of one run, whole or none |
| geospatial-svc, map-tile-server, packages config/db/kafka/shared/load-test | none of their own | read, serve, declare | | | |

## 2. The modules

Each module is one component: its stored and in-memory state as variables, one
action per statement, callback or timer that the event loop or another process
can get in between, and history variables (named as such) where a property
relates a state to what happened before. A handler whose steps nobody can observe
apart is one action. Statements that throw, and processes that die, are actions
of their own that leave behind exactly what was written.

| Module | Models | Uses |
|---|---|---|
| `WatermarkWindow` | `packages/redis`: `publishToStream`, `WatermarkWindow.poll` | |
| `FusionIngest` | `ingestConsumers.ts`, the loop and the shared connection of fusion `index.ts`, kafkajs offsets | extends `WatermarkWindow` |
| `FusionPipeline` | `pipeline.ts`, `trackManager.ts`, `upsertEntity.ts`, the producers | what `poll()` returns is any batch in order, with events that may be late for earlier ones: what `WatermarkWindow` shows of the output |
| `EntityMirror` | abstract: what an edge node promises of its mirror | |
| `EdgeDeltaSync` | `deltaSync.ts`, `localStore.ts` | implements `EntityMirror` |
| `GeofenceAlerts` | alert-svc worker, `checkZones.ts`, dispatch, the detector's warm-up, BullMQ's stalled jobs | |
| `Access` | `jwt.ts`, `roles.ts`, `plugin.ts` | |
| `AlertTriage` | `applyAlertAction` | |
| `EdgeIntake` | `intakeQueue.ts`, `routes/sync.ts`, the guarded route of alert-svc | extends `AlertTriage`, `Access` |
| `OperatorGateway` | `gateway.ts` | extends `Access`; takes from `FusionPipeline` that new comes first, lost last, and that any cycle may stay silent |
| `CoaApproval` | `routes/coa.ts`, `coaQueries.ts`, the audit client, `insertAuditEntry` | |
| `CoaGeneration` | `generateCoa.ts`, the clients of the models, `retrieveDoctrine.ts`, `packages/qdrant`, `ingest-doctrine.ts` | extends `CoaApproval` |
| `BlueForceZones` | `blueforce/queries.ts` | |
| `InventoryForecast` | `inventoryConsumer.ts`, `recompute.ts`, `regression.ts` | |
| `ReportDispatch` | `scheduler.ts`, `orchestrator.ts`, the timer | |
| `FrameTracking` | `deepSortTracker.ts`, `trackAssociation.ts`, `runFrameConsumer` | |
| `CvInference` | `session.ts`, `models.ts`, the frames around them | extends `FrameTracking` |
| `FeedDecoders` | the MJPEG splitter, the line splitters, the AIS and SBS-1 decoders | |
| `IngestAdapters` | the adapters, `http/app.ts`, `publishFrame.ts`, `watchInbox.ts`, the shutdown | extends `FeedDecoders` |
| `FusionIngestProofs`, `FusionPipelineProofs`, `OperatorGatewayProofs`, `EdgeDeltaSyncProofs`, `EdgeIntakeProofs`, `CoaGenerationProofs` | proofs | extend their module, and with it the modules that one extends |
| `CvInferenceProofs` | proofs | extends `CvInference` and, for a section of its own, `IngestAdapters` |
| `StandaloneProofs` | proofs | extends `BlueForceZones`, `ReportDispatch`, `InventoryForecast` and `GeofenceAlerts` |

The last two hold the proofs about components that are no part of one another. What they
extend shares no names: `BlueForceZones` has a `RegistrySpec`, `ReportDispatch` a
`DispatchSpec`, `InventoryForecast` a `StockSpec`, `IngestAdapters` an `AdaptersSpec`, and
so on for the initial states, the steps and the variables. Each theorem is about one
specification and uses the assumption of that module only.

A module that extends another adds what happens around it: it takes its actions as
they are, so that the properties of both are checked of the composition, and a run of
its own for the inner one would show nothing more. `MC<Module>` gives the outermost
module its model values and symmetry, `<Module>.cfg` the bounds and the properties.
`TypeOK` is in each module the declaration of its variables' types. An operator whose comment starts with "Bug:" is a
mutation of the definition below it; nothing refers to it.

How data is abstracted, where it is not obvious:

- *Timestamps and clocks* are small integers. Equal timestamps of two domains may
  come out of the window in either order: the JavaScript sort is stable, and the
  order before the sort depends on the reply of Redis.
- *Positions* are points on a line. `extrapolate` may put a track anywhere within
  `MaxSpeed` of where it was, and the Kalman filter may come to any point between
  that prediction and the observation. Each source of observations has the gate of its
  domain (`Gate`, `gateMeters` in `trackManager.ts:54-60`). The run takes positions where,
  for each gate, being within it is transitive and no track is reckoned out of it, so that
  targets do not cross; the same two tracks may well be within one gate and outside another.
- *No-strike containment, geofence containment, cron expressions* are constants: a
  relation or a set of minutes. What PostGIS and cron-parser compute is trusted. The
  pipeline's `CheckZone` is a call that may throw; the flag it computes is left out, for
  nothing but the display depends on it.
- *kafkajs, Redis, BullMQ* are modelled from how the code uses them: one handler
  at a time per consumer, an offset resolved when the handler returns and
  committed later, a consumer that crashes or joins its group again and gets what was not
  committed once more, a group without offsets starting at the end
  (`fromBeginning: false`; logistics-svc reads from the beginning); commands of a
  connection served in order; a job given no `attempts` failing for good, a
  stalled one put back once.
- *Lost answers*: a statement or a call may be carried out although its caller hears that it
  failed. Where that matters for a promise (`BlueForceZones`, `CoaApproval`,
  `FusionPipeline`, `EdgeIntake`, `CoaGeneration`) writing and answering are two steps.
- *Tokens* (`Access`) are records: whether the token verifies, its subject, its realm
  roles. *Areas of interest* are boxes over pairs of integers.
- *Streams of bytes* (`FeedDecoders`) keep the bytes the splitter and the dimension
  parser ask for, and one for all others; lines are sent in halves, so that a chunk may
  end inside one. `FirstFrame` and `FirstLine` are one pass of the loops in the code,
  `Split` as many of them as find something. A frame is what ffmpeg's MJPEG muxer writes
  (`IsJpeg`, an assumption): its start and its end marker are nowhere else in it. *Clocks* of devices are in step, out of step, or no date.
- *Language models* (`CoaGeneration`) answer anything their grammar or the parser lets
  through. A search returns any `TopK` of the chunks that are in Qdrant, or all if there are
  fewer. Qdrant applies the updates it has accepted in their order and piece by piece; a
  delete is answered when accepted, an upsert with `wait` when applied.
- *Regression* (`InventoryForecast`) is the exact least-squares line in integers:
  `RunsOut` cross-multiplies where the code divides.
- *Overlap of boxes* (`FrameTracking`) is one of a few scores per pair, any of
  them; greedy association with ties is the set of matchings it can produce.

The correspondence of state: `stream` is the Redis streams, `lastIds`, `buffer`,
`maxSensorTs` the fields of `WatermarkWindow`; `tracks`, `rows`, `topic`, `said`
are `TrackManager.tracks`, the `entities` table, the last message per key of
`{env}.vektor.entities.upserted` and the last event emitted per entity; `stored`
and `mirror` are the SQLite tables `sync_offsets` and `entities_mirror`; `inside`
is the Redis set `alert-svc:entity-zones`; every other variable carries its table
or field in its comment.

## 3. The runs

All runs are exhaustive within their bounds and pass. All but `gateway` and `adapters`
have `CHECK_DEADLOCK FALSE`: with their bounds used up the models stop.

**pipeline** (`FusionPipeline.cfg`). Two entity ids; two sources, one with gate 1 and one
with gate 3; positions 0, 1 and 3, of which 0 and 1 are one target for both sources and 3
is another for the first only; clock 0..2, batches of one, one throwing
call, one restart; behaviours end where a third id would be needed. Two ids are enough for
a track and its phantom, three instants for fresh, at the limit and beyond it.
`NoPhantomTrack`: two live tracks never stand for one target, except when one of them is
due for eviction, or has been spawned or updated by a late observation, one older than a
live track nearby, or was spawned by a source whose own gate is narrower than the distance
(`narrow`; section 6). That an update may do the second takes a failure: the cycle that should
have evicted a stale track throws before it gets there, and a late observation in the next
one finds that track again. `PublishedIsPersisted`: the topic never shows what the table does
not have. `WrittenThrough`: without failures memory, table, topic and clients
agree between cycles. `LostIsFinal`: nothing follows a loss, in the table across
restarts, and in the events of a client, which are new, updated, lost in this order.

**ingest** (`FusionIngest.cfg`). Two domains, three messages with timestamps 1..3,
a watermark of 1, one failing XADD, and one more join of the group, after a crash or of the
running consumer. Three messages are enough for one that is held, one that overtakes it and
one that moves the watermark past both: with the newest at 3 the events of 1 and 2 are ready
together, so that a batch holds different times and has an order to get wrong; and the join
repeats all of them. `NothingLostOrRepeated`,
`InOrderUnlessLateOrFlushed`: the window's promises, checked while it is driven by
the real interplay of handlers and loop. `CommittedIsStreamed`,
`OnceInOrderPerJoin`: the offsets; a message is copied again only by a consumer that has
joined its group again. `ReachesThePipeline` (liveness): the shared
connection delays but never stops an event.

**edge** (`EdgeDeltaSync.cfg`). Two partitions, three entities, three deltas per
partition; one crash or failing statement, one lost connection, one expiry of the
group's offsets. `ReplaysTheTopic` is the refinement of `EntityMirror` with the cursor
mapped to the stored offset, the view to the rows, the lost places to the
partitions where the consumer stands beyond what was applied, and `known` to the partitions
with an offset at the broker. The abstract mirror loses a place in one way only, by
rejoining while running when the broker has forgotten the group; a start goes on from what
is stored, so a consumer without the seek of `deltaSync.ts:57-61` does not refine it (that
is its mutant). `NeverGoesBack`: repeated
deliveries do not show an older row. `CatchesUp` (liveness): a node that keeps its
place reaches the end.

**geofence** (`GeofenceAlerts.cfg`). One entity, three jobs, a zone within a zone
and a position outside, one zone edit, one throwing call, one crash. Entities share
only the queue, so one is followed. `OneAlertPerCrossing` compares the alerts with
the jobs that cross a zone's border, as the positions of all jobs have it, when nothing
failed; `NoSecondAlert` says what is left of that when jobs are run again late, and
`AlertsMatchMemory` when they fail or die before the Redis update or after the last alert:
an entity with a job that ended in between, and a zone somebody edited, are left out of it.
`EveryJobEnds` is liveness.

**coa** (`CoaGeneration.cfg`). One COA, both modes, two options asked for, searches that
return two chunks, two runs of the ingestion, of a document of three chunks and of one of
one; two requests to decide, one failing POST, lost answer or failing load, one crash. Two
ingestions are enough for one that replaces, one that fails and two that
overlap; three chunks for a search that cannot return all. `TrailIsTrue`: every entry of the
trail was decided, once, in order, and whoever
was answered has one. `TrailEndsInForce`: the trail ends in the decision in force; it
needs decisions that follow one another, for two that overlap may be stored in one order
and audited in the other. `DoctrineIsOfOneRun`: while runs do not overlap, a COA rests on
chunks of one run, or on none, although the old ones are deleted by a call that Qdrant only
acknowledges; and once a run has reported what it ingested, that is all there is. How many
of a document's chunks a COA sees is `topK`'s affair; they may also be fewer while an update
is applied. `EdgeStoresAllOptions`: although a NaN passes the edge's gate, no COA without
options does, since the grammar pins their number.

**triage** (`EdgeIntake.cfg`). One alert, two operators with tokens of every standing,
three requests, one broken off, one intake job whose worker may die or hear nothing.
`LogIsTrue`, `AcknowledgedByLast`: the action log and the row under overlapping requests.
`OnlyEntitled`: nobody without the role acts, and the log names the token's subject.
`OfflineIsDone`: a job of the intake queue completes only when alert-svc has logged its
action or does not know the alert, and the action is done no oftener than the worker heard
nothing, and once. The worker sets no bearer token, and the route admits nobody without one;
for the code's handling of 2xx and 404 to be reached at all, forwards arrive in this run
without a token or with an analyst's (`WorkerTokens`), as they would behind something that
adds one. `NothingArrives` (section 5) says what becomes of them as the code stands.

**blueforce** (`BlueForceZones.cfg`). Two assets, two footprints, three zone ids,
three requests, one that breaks off before a statement or after it is committed; assets and
zones deleted at any time. `ZoneInSync`
holds for assets no two requests about which ever overlapped. `AnsweredIsCovered` holds
regardless: an asset about which a request was answered has a zone, that of the request that
wrote last, which is the answered one or a later one. The later one need not have been
answered: a committed write whose answer is lost replaces the zone just the same.

**inventory** (`InventoryForecast.cfg`). One item, three changes with quantities
1 and 2, a threshold of 1 and a lead time of 14 days, one mishap (a restart or a failing
statement), two recompute cycles that may overlap, as the timer lets them
(`index.ts:49`). An item is low at 1, and at 2 when it has been falling; three
changes are the least with two spells of being low (1, 2, 1), and the least with which a
redelivered point can turn a slope. `CaughtUp`:
the copy equals the ERP once everything is consumed, for items whose last event was
not lost to a swallowed error. `OneAlertPerSpell`: one alert per spell of being low, no
more and no less, but for two exceptions that are in the property: an item two cycles have before
them at once (`contested`, until a cycle that has it to itself finds it not low), and one
whose cycle was broken off between forecast and alert (`unannounced`). `LowIsAlerted` is
liveness, with the same exceptions.

**dispatch** (`ReportDispatch.cfg`). Three schedules, of which one has an expression that
does not parse, two recipients, minutes 0..3,
one failure, one restart; ticks may overlap or be missed. A tick looks at the schedules in
any order and ends at the broken one, as the code does (`PickThrows`), so each order of the
three is met. `AtLeastOnce`: no recipient of a stamped firing is passed over, and a firing
is left behind only by a last tick that was itself cut short; what an earlier one failed at
is made up for. `OnePerFiring`: nor mailed twice, where
ticks do not overlap and the tick of the first mail was not cut short.

**tracking** (`CvInference.cfg`). Five frames, two detections, three track ids, up to
two missed frames, one failed send, swap or restart; two uploads, of which either may be
no model, a broken one, one that detects nothing, or a detector, with up to two frames
around them. `IdentityKept`: every detection has one track, and a track lasts exactly
as long an occlusion as configured. `AcceptedStands`: an answered upload is not undone by
an earlier request. `SwapDropsNoFrame`.

**adapters** (`IngestAdapters.cfg`). Every adapter in turn, three frames, lines,
messages, requests or file events, one failing send, chunks that end anywhere, a shutdown
at any time, and a new start at any time, with new items, empty buffers and counters at 0
(`StartAgain`). `WholeItemsInOrder` (but for a split start marker), `RequestsOutlastShutdown`,
`OnlySnapshotsSkewed`, and `FrameNumbersRise`, which says that numbers are not repeated between
two starts; across them they are (section 6).

**gateway** (`OperatorGateway.cfg`). Two sockets, one entity, four positions, two areas
that touch, two messages of a client in transit. One entity is enough: the entries of the
map and the pictures are per entity and socket. `PictureTrueInside`: what a client shows
is wrong only of an entity that left its area or was not heard of since it was set.
`OnlyWhatIsAskedFor`: no event outside the area last asked for, but while a request is in
transit.

Every property was also run against a mutated definition (a dropped guard, an
off-by-one, a missing reset, an await left out) and TLC found it violated.

## 4. Fairness

Only what the code schedules by itself is fair.

- *Ingest*: the loop of `index.ts` polls as long as the service runs; a blocking
  read ends after `blockMs`; kafkajs hands out the next message; Redis answers.
  Weak fairness of these steps. Adapters and crashes are not fair.
- *Pipeline*: `while (running)` gives weak fairness of a cycle. Its properties are
  safety properties and do not depend on it.
- *Edge*: the process is started again by its supervisor, kafkajs reconnects and
  delivers. Weak fairness of `Start`, `Rejoin` and the handler; no fairness of the
  commit, which the code leaves to kafkajs' timer.
- *Geofence*: the worker works, and BullMQ looks for stalled jobs every 30 s.
- *Inventory*: the consumer consumes and the timer fires.
- *COA, triage, blue force, dispatch, tracking, adapters, gateway*: none. The audit client's `fetch`
  has no timeout, so a request may hang for ever, and no liveness is claimed.

## 5. What is proved

The modules named `...Proofs` are checked by tlapm to the last leaf. Each
theorem holds for all constants that meet the assumption of its module (finitely many
domains and integer timestamps above the stand-in for minus infinity in the window, natural
bounds everywhere), and so for any number of domains, messages, operators, failures and
restarts; where it has hypotheses beyond that, they are named below. The invariants are
conjunctions of named parts; a lemma per action says that it keeps them.

*The window.* `TypeCorrect`, `ExactlyOnce`, `HeldBack`, `OutputOrder`. The order of
the output is not inductive: it says nothing about what is still to come out. The
invariant `Inv` adds `Cursors` (a cursor never passes the end of its stream, so the
timestamp of an event that was read is fixed) and `Split`: everything released by
the watermark is at or below it, everything held is above it. A read moves the
watermark up only (`PollReadInv`), so what it releases comes after all that was
released before, except what arrived below the old watermark; a flush releases
events above the watermark, and records them. `BatchListsReady` is where the sort
comes in: a batch lists the ready events, each once, pairwise in order; it rests on
the finiteness of the event set and the counting theorem for injections.

*The ingest.* `NothingSkipped`, `CopiedInOrder`, `WindowBehindIngest`. Every step of
the ingest is a step of the window or leaves it alone (`IngestStepsWindow`), given
that a handler that waits for its XADD has a message on its topic (`Handlers`): the
ingest implements the window but for its fairness (`IngestDrivesWindow`), and the
invariant of the window carries over. `CommittedIsStreamed` alone is not inductive,
for a commit copies the resolved offset: `ResolvedIsHandled` says the same of what is
resolved, where it is preserved by the handler that resolves and by a join, which
falls back to a committed offset or passes over the topic and records that.
`OnceInOrderPerJoin` needs `OriginBehind`: what a stream got since the last join is of
resolved messages, so the next one is larger. Crashes and rejoins of the running consumer
resume alike.

*The pipeline.* Three invariants of one shape: what the tables, the topic and the clients
show of an entity, given where the cycle stands with it (`AtWork`: the track in hand, what
has been written of it and what not).

- `TableFirst`, `NothingFollowsLoss`. `OrderInv` adds to `PublishedIsPersisted` what its
  statements are ahead of: a row that says LOST is of no live track, a client is told only
  of what has a row and of a loss only when the row says so (`RowsLead`), and what is being
  evicted is LOST in memory only, except for the one whose row is written and which is about to
  be announced (`Evicting`). Without the last, a loss could be written over.
- `AllAgree`. `WrittenThrough` speaks of the moments between cycles; `SyncInv` adds
  `SyncedButCurrent`: while nothing has failed, every entity but the one in hand and those
  still to be evicted agrees everywhere.
- `OneTrackPerTarget`. That two live tracks are apart needs time: `TrackInv` adds
  `NothingAhead` (no track and no observation is from the future) and `OneIsOld`: of two
  live tracks near each other, neither of them late nor spawned past a wider gate, the last
  updates lie more than `MaxGap` apart. It has two
  hypotheses. `LostTimeout <= MaxGap` is what `trackManager.ts:79-80` says, 300 s and 5 min:
  a track that is not yet lost can still be correlated with. `TargetsApart` says, of each
  domain's gate by itself, that being within it is transitive and that no track is reckoned
  out of it, as the run takes them: where targets cross, two tracks for one of them is what
  the gate must give. It does not relate the gates of different domains; where they disagree
  is what `narrow` records.

*The edge mirror.* `MirrorReplays` is the refinement: initial states map to initial
states, and every step of `EdgeDeltaSync` to a step of `EntityMirror` or to a stutter. The
invariant says that a consumer stands beyond the stored offset only where its place was
lost, and, of the two statements of the handler, that in between it holds a delta that was
not applied before and that the row already shows (`HeldDelta`). `OffsetsGrow`
(`NeverGoesBack`) is an action property from the same invariant. `LostByExpiryOnly`: a place
is lost only by rejoining without an offset at the broker; it needs `BrokerBehind` (what
the broker knows is never ahead of what is stored).

*Roles.* `MinimumBar`: whatever roles a token holds, and whatever is added to them, a
request that passed still passes, except where the requirement is analyst+ and the
logistics officer outranks the analyst. It rests on `HighestHeld` (among the roles held
one ranks highest), `PrimaryIsHighest` and `HigherMayMore`. Nothing is assumed.

*Triage and the intake queue.* `LogTells`, `AckStands`, `Entitled`, `OfflineDone`, for
any operators, requests and tokens, of the worker too; `IntakeTriages`, that what guards the alerts and queues
for them adds no step to what `AlertTriage` lets happen to them. The invariant puts each request's program counter against
the log (`Standing`): what was applied is in the log, about to be, or ended in an error;
`LogInOrder` keeps requests that did not overlap in their order there. `AckedByLast` is
`AcknowledgedByLast` over indices, where an append leaves all earlier ones alone; it is about
the order of the updates, which with overlapping requests need not be that of the log. `Entitled`
needs that a request past the guard has a token that passed it (`Passed`). `OfflineDone`
counts the requests made for a job against the times its worker died or heard nothing
(`JobsTried`). `NothingArrives` has the hypothesis `WorkerTokens = {None}`, which is what
`intakeQueue.ts:51` does: then no forward passes and no job completes.

*COA approval and generation.* `TrailTells`, `LastEntryInForce`, `OneRunsDoctrine`,
`AllOptionsStored`. `Standing` has the order of the statements: a request in the audit
step has decided; `TrailInOrder` and `SomeoneDecided` say of whom the entries are and in which
order, and `MadeFinite` that a crash, which may write the entries of all requests that were
waiting, writes finitely many. For the doctrine, `OneRun` follows the updates that Qdrant
has accepted and not yet applied, as long as no two runs overlapped: every upsert among them
comes after a delete (`UpsertsFollowDeletes`), and the last is the newest run's
(`NewestOnly`), so that the collection holds chunks of one run or none. `AllOptionsStored` needs only `StoredOptions`: what
passed the edge's gate had the number of options the grammar allows.

*The gateway.* `PicturesTrue`, for any sockets, areas and positions. The invariant adds
`Unheard`: a socket that is not connected has heard of nothing, so that the entry it is
given on connecting contradicts no picture. An event in scope makes picture and truth
agree (`EmitInv`), one out of scope makes the second disjunct true, and a changed entry
empties `since`. `FollowsTheRequest` (`OnlyWhatIsAskedFor`) needs the messages in transit:
`LastIsWanted` says that the last well-formed one is what the client wants, `EntryIsWanted`
that without one the entry of the map is.

*Tracking.* `OneTargetPerIdentity` (`IdentityKept`), for any number of detections, tracks
and missed frames, under `MinHits = 1`, the code's default (`deepSortTracker.ts:57`): with
more, a track is tentative first and has not reached the topic. `SurvivesOcclusion` counts
the frames since a track was matched against `MaxMissed`; `EveryDetectionOnce` rests on a
matching being a partial injection.

*The hot swap.* `AnsweredUploadStands`, for any uploads. `AcceptedStands` says nothing
before the later upload is answered; `SwappedStands` says the same from its swap on, and
`AnsweredIsSwapped` that an upload that was told 200 has had its swap and gets no other.
`NoFrameDropped` (`SwapDropsNoFrame`): a frame in hand ends by reaching the tracker or with
the process; every action is looked at in turn.

*Registry, reports, inventory.* `ZoneFollowsAsset` and `AnsweredStays`: `OneZone` says of an
asset no two requests about which overlapped that the request in flight, if there is one, is
alone with it, so that the zone it found, or that it found none, is still true when it
writes; `ZonesOwned` that a zone id in a request's hands is of its own asset, however
requests overlap; `WrittenStays` that the zone written last stays, answered or not, of which
an answer adds only that there is one. `NobodyPassedOver`: `NothingOwed` says that whoever a firing of the past
is about was mailed, is in the hands of the last tick, or was left by that tick because it
was cut short, by an error of its own or by an expression that does not parse.
`OncePerFiring`: under its premises one tick at a time is about a schedule (`OneTick`) and
what was mailed is stamped with a firing (`Stamped`) that `last_run_at` will pass.
`CopyCatchesUp`: neither an upsert nor a crash disturbs what `Copied` says, that the last
change of an item, once passed, is its row; going back over older changes puts older
quantities there for a while, but then the last one is ahead again. Of the `Max` in
`ErpAfter` it needs that the last change is unique (`IsLast`). `OneAlertEach`: `InHand` says
that what a recomputation remembers of the last forecast is still so when it writes the
next, `Told` that a spell has an alert or a cycle on its way to raise one, both of items
that are not contested: of such an item at most one cycle has it before it (`Alone`). The
theorem is of any number of cycles and has no hypothesis.

*Geofence alerts*, for any entities, zones, jobs, failures and crashes. `NothingSaidTwice`
(`NoSecondAlert`): `FenceInv` follows a job from the queue to its stall and back. It waits
once, or is run, or has lost its worker (`OnePlace`); an alert says where the entity was
(`SaidRightly`); and what keeps a job that is run again from repeating itself is that Redis
remembers what it said, or else that another job of its entity has started since
(`RunAgain` while it waits, `RunsOn` while it is run). For the anomaly the part of Redis is
played by the detector, which a crash leaves without samples. `MemoryAnnounced`
(`AlertsMatchMemory`), of entities none of whose jobs ended between the Redis update and its
last alert and of zones nobody edited: the property is about the moments between jobs; `MemoryInv` balances
alerts, transitions in hand and remembered zones at all of them (`Balanced`), and says what
the two sets differ in while nothing is announced yet (`Compared`). `CrossingsAnnounced`
(`OneAlertPerCrossing`): without failures the jobs are taken in their order (`InOrder`), so
Redis has each entity where the jobs up to here leave it (`RedisFollows`, with the
arithmetic of one more job in `InNext`), and a job has announced, has in hand or will find
by looking up exactly what it has to announce (`JobAnnounces`). That no crossing is
announced twice is then `SaidOnce` of `FenceInv`, for no job was overtaken.

*Adapters.* `PhonesAnswered` (`RequestsOutlastShutdown`): `SentInOrder` and `AllAnswered` say
of a request which answers go with being on the topic, and that none is waiting once the
producer is disconnected, which `app.close()` waits for. `ClocksInStep` (`OnlySnapshotsSkewed`) follows
the outcome of the check to the topic. `FramesNumbered` (`FrameNumbersRise`): `NumbersGiven`
has the numbers of a device below its counter and rising with the jobs; where a stream is
read the number is the job's place. `Begun` is what a new start establishes, and every
invariant follows from it as from the initial states; it forgets the numbers of the last
life, and so does the theorem.

*Streams.* `ItemsInOrder` (`WholeItemsInOrder`), for any frames, lines, and cuts into chunks.
The invariant `InStream` describes the adapter by a position: of `a` bytes that have come,
`d` items are whole, the buffer holds the bytes from the end of item `d` to `a`, or nothing
where the start marker of the next frame was torn, and the jobs are the whole items without
the torn ones. It rests on two groups of lemmas.

- What is on the wire: `SentBackToBack` says at which bytes an item lies, `FrameMarkers`
  where in a stream of frames the markers are. The latter is what `IsJpeg` is assumed for:
  were an end marker inside a frame, the splitter would cut there.
- What a handler does with a piece of it: `FirstFrameIs` and `FirstLineIs` say of one pass
  that it returns the next item if that is whole, and keeps the piece behind it. A pass may
  begin inside a torn frame, whose end marker is passed over for it has no start.
  `SplitIs` puts the passes together, up to the last whole item, and `FirstOfKept` says that
  the passes after that change nothing. `ChunkSplit` and `ChunkTaken` are the step.

Both recursions, what is sent and the passes, are functions over `0..n`. What they compute is
proved by least counterexample (`LeastNat`): the set of arguments for which a statement fails,
if it were not empty, would have a least element, and the equation of the function refutes
that. `SentDefined` and `PassesDefined` show by the same argument that the equations hold.

*Only model-checked*: all liveness (`ReachesThePipeline`, `CatchesUp`, `EveryJobEnds`,
`LowIsAlerted`), for fairness and ENABLED are out of the prover's reach. What the folds of
`InventoryForecast` compute for every history is used as it stands: `CopyCatchesUp` and
`OneAlertEach` hold whatever the forecast says.

## 6. Disagreements

Two promises are plainly not kept, as earlier runs of these models showed:

- `evictStale()` marks all stale tracks LOST "so the caller can emit entity:lost"
  (`trackManager.ts:142`). If writing the first of them throws (`pipeline.ts:105`), the
  others are LOST in memory, skipped for ever after, and stay ACTIVE in the table and on
  every client. `WrittenThrough` therefore asks that nothing failed.
- `watermarkWindow.ts:49` takes a read that timed out as "no domain has anything else in
  flight right now". The handlers write over the same connection (`index.ts:100`), so
  their XADDs wait behind that very read and the buffer is flushed ahead of them. Hence
  the flushed events in `InOrderUnlessLateOrFlushed`.

The following were met while modelling. The properties state what is left, and name
the condition:

- `trackManager.ts:99` measures the distance to a track against the gate of the observation's
  own domain (ais 1500 m, adsb 3000, ewrf 8000, iot 300): an AIS fix 2 km from a track that an
  EW/RF fix spawned starts a second one, which an EW/RF fix would have correlated. Line 1
  speaks of "Cross-sensor track correlation/dedup". `NoPhantomTrack` leaves
  out tracks spawned in this way (`narrow`).
- `scheduler.ts:56`, "checks every active schedule and fires the ones that are due": `isDue`
  is called at line 62, before the `try`, and throws for an expression that does not parse,
  which nothing validates (`cron_expr` is a text column). Every schedule the query lists after
  that one is never dispatched. `AtLeastOnce` promises nothing of a tick that was cut short.
- `frameExtractor.ts:100` and `http/app.ts:147` count frames in memory from 0: a `frame_id`
  (`publishFrame.ts:31`) is given again after every restart (`FrameNumbersRise` is about one
  life of the process).
- `checkZones.ts:65` updates Redis before the alerts are written: a job that ends in
  between loses them, although a transition is to be reported (`AlertsMatchMemory`
  excludes the entities of such jobs).
- `deltaSync.ts:57` seeks at the start only. A running node that rejoins after the
  group's offsets have expired skips deltas, against "idempotent by construction"
  (`PlaceLost`, and `Jump` in `EntityMirror`).
- `coa.ts:73`: a decision stays in force when its audit entry fails, against "full
  audit trail preserved" (`TrailEndsInForce` excludes requests that ended in an
  error). `alerts.ts:64` likewise for `alert_actions`.
- `blueforce/queries.ts:79`: overlapping requests leave two zones, or one drawn
  around the older position, against "kept in sync on every position update". A request that
  fails after its zone was committed has moved the zone of the request answered before.
- `inventoryConsumer.ts:89`: a redelivered event adds a second history point, against
  "one history point per CDC event". `:104` swallows errors. `recompute.ts:58` loses
  an alert when the insert fails after `low_stock` was written. "Only fire on the low-stock
  transition" (`recompute.ts`) is not so of two cycles that read the last forecast before
  either writes, which the unguarded timer of `index.ts:49` allows: both alert, or one on
  older quantities writes low over the other's not low and no alert follows
  (`OneAlertPerSpell` leaves such items out while they are `contested`).
- `scheduler.ts:71`: a failure for one recipient mails the earlier ones again at every
  tick; ticks that overlap deliver twice and can set `last_run_at` back.
- `deepSortTracker.ts:43` speaks of consecutive frames; hits accumulate over gaps.
- `intakeQueue.ts:4-6`: the action is "retried with backoff instead of silently lost". Jobs
  are added without attempts or backoff, and line 51 sends no bearer token to a route that
  answers 401 without one: the job fails at its first forward. The theorem `NothingArrives`
  says so, against the comment; the test (`intakeQueue.test.ts`) forwards to a stub that
  asks for no token.
- `jwt.ts:29` calls every requirement "a minimum bar". It is one but for analyst+, from
  which a logistics officer is excluded although the role ranks higher: an analyst who is
  given it loses what analysts may do (`MinimumBar`).
- `publishFrame.ts:41` says an out-of-sync clock "must never reach the topic"; line 42
  compares the capture time with itself (`OnlySnapshotsSkewed`).
- `frameExtractor.ts:73` discards half a start marker at the end of a chunk
  (`WholeItemsInOrder` excludes that frame). `aisAdapter.ts` and `adsbAdapter.ts` do not
  connect again after a lost connection. `watchInbox.ts:31` does not come back to a file
  that was still being copied after the settle delay.
- `gateway.ts:91`: a client is not told that an entity left its area, and goes on showing
  it there (`PictureTrueInside`). The token is looked at in the handshake only.
- `models.ts:47` says a model that declares "a shape onnxruntime can't run" is refused; one
  that runs and is no detector passes, and makes every frame throw from then on
  (`SwapDropsNoFrame` speaks of frames begun with a detector).
- `edgeClient.ts:114`: no options give a NaN average, which passes the gate; the grammar
  keeps it from happening. In the cloud no count is checked, against REQ-4.2's three
  options (`generateCoa.ts:38`).
- `ingest-doctrine.ts:4`, "safe to re-run": runs that overlap leave the chunks of both, and
  one that fails leaves none, or part of a document (`DoctrineIsOfOneRun`). One whose document
  has become empty sends no upsert and ends before the old chunks are deleted. `embed.ts:18` keeps a rejected promise,
  so that one failed load fails every search until a restart.

## 7. What is not modelled

- Floating-point parts: Kalman filters, threat score, z-scores, inference and boxes.
- What libraries and other programs compute: PostGIS, pgRouting (`findRoute.ts` only
  rewrites the cost of blocked edges), cron-parser, the language models, the cryptography
  of tokens.
- Rendering and export, read-only queries (geospatial-svc), static files, declarations,
  configuration, the load test; the MAVLink bridge, which publishes a datagram once and
  keeps nothing.
- The preview throttle and the sensor registry of fusion-svc: one comparison, and single
  statements on one table; neither is related to another part by anything a property
  could say. The gateway's broadcasts `sensor:status` and `video:frame` likewise.

The components table in `PROJECT.json` says for each part whether it is modelled, partly
or not, and why.

## 8. Plan

Done: the flow of data (adapters, window, ingest, pipeline, gateway, mirror), of
decisions (alerting, triage with roles and the intake queue, COAs from doctrine to trail),
registry, logistics, reports, tracking with the hot swap; the proofs of section 5.

Left out of the model for good, unless the code changes: see section 7.

Every invariant and action property of the runs is a theorem too. Next, to prove: what the
regression of `InventoryForecast` computes, by the least-counterexample argument of the
streams.
