---------------------------- MODULE IngestAdapters ----------------------------
(***************************************************************************)
(* ingest-svc with one of its adapters: the video source ("rtsp"), a TCP   *)
(* feed ("ais", "adsb"), the MQTT subscription ("mqtt"), the HTTP surface  *)
(* for phones ("http") or the GeoTIFF inbox ("geotiff").  Adapters share   *)
(* only the Kafka producer, whose sends do not wait for one another, and   *)
(* the shutdown.                                                           *)
(*                                                                         *)
(* A job is one frame, line, message, request or file an adapter has taken *)
(* up.  A clock is in step with that of ingest-svc ("synced"), more than   *)
(* MAX_SENSOR_CLOCK_SKEW_MS off ("skewed"), or its text is no date.        *)
(***************************************************************************)
EXTENDS FeedDecoders, SequencesExt

CONSTANTS
    Adapters,     \* the adapters looked at
    Frames,       \* what the video source may show
    AisLines, AdsbLines,
    Messages,     \* MQTT messages
    Requests,     \* HTTP requests
    Files,        \* the names of GeoTIFF files
    None,
    MaxItems,     \* bound: frames, lines, messages, requests or file events
    MaxSendFailures \* bound: sends that fail, and files that are cut short

ASSUME AdaptersAssumption ==
    /\ Adapters \subseteq {"rtsp", "ais", "adsb", "mqtt", "http", "geotiff"}
    /\ Frames \subseteq Seq(Bytes) /\ \A f \in Frames : IsJpeg(f)
    /\ \A r \in Requests : r.path \in {"telemetry", "snapshot"}
    /\ {MaxItems, MaxSendFailures} \subseteq Nat

VARIABLES
    kind,         \* the adapter whose environment variables are set
    source,       \* what a stream carries: frames or lines
    at,           \* how many of its bytes have been delivered
    buffer,       \* MjpegFrameSplitter.buffer, or the buffer of the TCP adapter
    connected,    \* ffmpeg runs, or the socket is open
    numbers,      \* snapshotFrameNumbers
    inbox,        \* the files in the inbox: "absent", "partial" or "whole"
    jobs,         \* [item, number, pc, outcome] in the order they were taken up
    topic,        \* the jobs whose event is on the topic
    phase,        \* "running", "stopping", "disconnected" or "exited"
    sendFailures,
    torn          \* history: the frames whose start marker was split over two chunks

adaptersVars == <<kind, source, at, buffer, connected, numbers, inbox, jobs, topic, phase, sendFailures, torn>>

Streams == {"rtsp", "ais", "adsb"}
Devices == {r.device : r \in Requests}

Lines(k) == CASE k = "ais" -> AisLines [] k = "adsb" -> AdsbLines [] k = "rtsp" -> Frames

\* What a stream may carry while the process lives.
Feeds(k) == IF k \in Streams THEN UNION {[1..n -> Lines(k)] : n \in 1..MaxItems} ELSE {<<>>}

AdaptersInit ==
    /\ kind \in Adapters
    /\ source \in Feeds(kind)
    /\ at = 0 /\ buffer = <<>>
    /\ connected = (kind \in Streams)
    /\ numbers = [d \in Devices |-> 0]
    /\ inbox = [f \in Files |-> "absent"]
    /\ jobs = <<>> /\ topic = <<>>
    /\ phase = "running"
    /\ sendFailures = 0
    /\ torn = {}

------------------------------------------------------------------------------
\* Bug: a message's own clock is trusted.
InStepTrusting(ts) == ts # "noDate"

\* assertValidSensorTs; a message without a time is given that of its receipt.
InStep(ts) == ts \in {"none", "synced"}

\* What becomes of an MQTT message: handleMessage up to the send.
MessageOutcome(m) == IF m.json /\ InStep(m.ts) THEN "send" ELSE "reported"

\* The same for a line: a line that is no report is skipped, and one whose numbers
\* the schema refuses is reported.
LineOutcome(line, isReport) ==
    IF ~isReport THEN "skipped" ELSE IF line.valid THEN "send" ELSE "reported"

\* POST /api/v1/field/telemetry up to the send.  The body is validated before the
\* key is looked at.
TelemetryOutcome(r) ==
    CASE r.body = "malformed" -> "400"
      [] r.body # "malformed" /\ ~r.key -> "401"
      [] r.body # "malformed" /\ r.key -> IF InStep(r.ts) THEN "send" ELSE "400"

\* POST /api/v1/field/snapshot: what is refused before the frame is numbered ...
SnapshotRefused(r) == ~r.key \/ r.device = None \/ r.body = "malformed" \/ r.ts = "noDate"

\* ... and publishFrame up to the send.  The frame's time is checked against
\* itself, which any date passes.
FrameOutcome(hasDimensions, rejected) == IF hasDimensions THEN "send" ELSE rejected

SnapshotOutcome(r) ==
    CASE ~r.key -> "401"
      [] r.key /\ SnapshotRefused(r) -> "400"
      [] ~SnapshotRefused(r) -> FrameOutcome(r.body = "ok", "400")

Outcome(item) ==
    CASE kind = "rtsp" -> FrameOutcome(HasDimensions(item), "reported")
      [] kind = "ais" -> LineOutcome(item, IsAisReport(item))
      [] kind = "adsb" -> LineOutcome(item, IsSbs1Message(item))
      [] kind = "mqtt" -> MessageOutcome(item)
      [] kind = "http" -> IF item.path = "telemetry" THEN TelemetryOutcome(item) ELSE SnapshotOutcome(item)

\* A job as its handler leaves it at its first await.
Taken(item, number) ==
    LET o == Outcome(item)
    IN  [item |-> item, number |-> number,
         pc |-> IF o = "send" THEN "sending" ELSE "done", outcome |-> IF o = "send" THEN "none" ELSE o]

Waiting(pc) == {j \in DOMAIN jobs : jobs[j].pc = pc}

------------------------------------------------------------------------------
\* A frame or a line on the wire, and the first n of them, back to back.
Wire(k, item) == IF k = "rtsp" THEN item ELSE OnTheWire(item)

SentUpto(k, items) ==
    LET sent[n \in 0..Len(items)] == IF n = 0 THEN <<>> ELSE sent[n - 1] \o Wire(k, items[n])
    IN  sent

Sent(k, items) == SentUpto(k, items)[Len(items)]
Upto(n) == Len(SentUpto(kind, source)[n])

First(k, b) == IF k = "rtsp" THEN FirstFrame(b) ELSE FirstLine(b)

\* The buffer is gone through until it holds no whole frame or line, which takes
\* fewer passes than it is long.
Split(k, b) ==
    LET after[n \in 0..Len(b)] ==
            IF n = 0 THEN [items |-> <<>>, rest |-> b]
            ELSE LET left == after[n - 1]
                     first == First(k, left.rest)
                 IN  [items |-> left.items \o first.items, rest |-> first.rest]
    IN  after[Len(b)]

\* The "data" handlers: the next n bytes arrive; every frame or line they complete
\* is taken up, without waiting for the ones before.
Receive(n) ==
    LET out == Split(kind, buffer \o SubSeq(Sent(kind, source), at + 1, at + n)) IN
    /\ phase = "running" /\ connected
    /\ at' = at + n
    /\ buffer' = out.rest
    /\ jobs' = jobs \o [i \in DOMAIN out.items |-> Taken(out.items[i], Len(jobs) + i)]
    /\ torn' = torn \cup {i \in DOMAIN source : kind = "rtsp" /\ at + n = Upto(i - 1) + 1}
    /\ UNCHANGED <<kind, source, connected, numbers, inbox, topic, phase, sendFailures>>

\* The socket fails or is closed, or ffmpeg ends.  Nothing connects again.
Disconnected ==
    /\ phase = "running" /\ connected
    /\ connected' = FALSE
    /\ UNCHANGED <<kind, source, at, buffer, numbers, inbox, jobs, topic, phase, sendFailures, torn>>

\* The MQTT client hands over a message.
Message(m) ==
    /\ kind = "mqtt" /\ phase \in {"running", "stopping"}
    /\ Len(jobs) < MaxItems
    /\ jobs' = Append(jobs, Taken(m, 0))
    /\ UNCHANGED <<kind, source, at, buffer, connected, numbers, inbox, topic, phase, sendFailures, torn>>

Numbered(r) == r.path = "snapshot" /\ ~SnapshotRefused(r)

\* A phone's request reaches its handler.
Request(r) ==
    /\ kind = "http" /\ phase = "running"
    /\ Len(jobs) < MaxItems
    /\ numbers' = [d \in Devices |-> numbers[d] + (IF Numbered(r) /\ d = r.device THEN 1 ELSE 0)]
    /\ jobs' = Append(jobs, Taken(r, IF Numbered(r) THEN numbers[r.device] + 1 ELSE 0))
    /\ UNCHANGED <<kind, source, at, buffer, connected, inbox, topic, phase, sendFailures, torn>>

------------------------------------------------------------------------------
\* A file is moved into the inbox, copied or removed.  Each gives fs.watch one
\* "rename" event, and the watcher a timer of settleDelayMs.
FileEvent(f, content) ==
    /\ kind = "geotiff"
    /\ inbox[f] = "absent" <=> content # "absent"
    /\ Len(jobs) < MaxItems
    /\ inbox' = [inbox EXCEPT ![f] = content]
    /\ jobs' = IF phase = "running"
               THEN Append(jobs, [item |-> f, number |-> 0, pc |-> "settling", outcome |-> "none"])
               ELSE jobs
    /\ UNCHANGED <<kind, source, at, buffer, connected, numbers, topic, phase, sendFailures, torn>>

\* The last byte of a copied file is written: a "change" event, which is ignored.
Copied(f) ==
    /\ inbox[f] = "partial"
    /\ inbox' = [inbox EXCEPT ![f] = "whole"]
    /\ UNCHANGED <<kind, source, at, buffer, connected, numbers, jobs, topic, phase, sendFailures, torn>>

\* ingestGeoTiffFile up to the send: the georeference is in the file or it is not.
\* A file cut short may hold it already.
Readable(content) ==
    CASE content = "whole" -> {TRUE} [] content = "partial" -> {TRUE, FALSE} [] content = "absent" -> {FALSE}

\* The timers run out in the order they were set.
Settle(j) ==
    /\ phase # "exited"
    /\ j \in Waiting("settling") /\ \A i \in Waiting("settling") : j <= i
    /\ \E read \in Readable(inbox[jobs[j].item]) :
          jobs' = [jobs EXCEPT ![j].pc = IF read THEN "sending" ELSE "done",
                               ![j].outcome = IF read THEN "none" ELSE "reported"]
    /\ UNCHANGED <<kind, source, at, buffer, connected, numbers, inbox, topic, phase, sendFailures, torn>>

------------------------------------------------------------------------------
Finish(j, outcome) == [jobs EXCEPT ![j].pc = "done", ![j].outcome = outcome]

\* Kafka has the event, and says so.
Publish(j) ==
    /\ jobs[j].pc = "sending" /\ phase \in {"running", "stopping"}
    /\ topic' = Append(topic, j)
    /\ jobs' = Finish(j, IF kind = "http" THEN "202" ELSE "published")
    /\ UNCHANGED <<kind, source, at, buffer, connected, numbers, inbox, phase, sendFailures, torn>>

\* Bug: the number of a frame that could not be sent is given out again.
FailSendNumberBack(j) ==
    /\ jobs[j].pc = "sending" /\ phase # "exited" /\ sendFailures < MaxSendFailures
    /\ sendFailures' = sendFailures + 1
    /\ topic' \in {topic, Append(topic, j)}
    /\ jobs' = Finish(j, IF kind = "http" THEN "500" ELSE "reported")
    /\ numbers' = IF kind = "http" /\ Numbered(jobs[j].item)
                  THEN [numbers EXCEPT ![jobs[j].item.device] = @ - 1] ELSE numbers
    /\ UNCHANGED <<kind, source, at, buffer, connected, inbox, phase, torn>>

\* The send throws: Kafka could not be reached, or the producer is disconnected,
\* or only the answer was lost.
FailSend(j) ==
    /\ jobs[j].pc = "sending" /\ phase # "exited"
    /\ \/ phase = "disconnected" /\ UNCHANGED sendFailures
       \/ phase # "disconnected" /\ sendFailures < MaxSendFailures /\ sendFailures' = sendFailures + 1
    /\ topic' \in {topic, Append(topic, j)}
    /\ jobs' = Finish(j, IF kind = "http" THEN "500" ELSE "reported")
    /\ UNCHANGED <<kind, source, at, buffer, connected, numbers, inbox, phase, torn>>

\* SIGTERM: the sources are stopped ...
Stop ==
    /\ phase = "running"
    /\ phase' = "stopping"
    /\ connected' = FALSE
    /\ UNCHANGED <<kind, source, at, buffer, numbers, inbox, jobs, topic, sendFailures, torn>>

\* Bug: the producer is disconnected at once.
DisconnectAtOnce ==
    /\ phase = "stopping"
    /\ phase' = "disconnected"
    /\ UNCHANGED <<kind, source, at, buffer, connected, numbers, inbox, jobs, topic, sendFailures, torn>>

\* ... app.close() waits for the requests under way, then the producer is
\* disconnected ...
Disconnect ==
    /\ phase = "stopping"
    /\ kind = "http" => Waiting("sending") = {}
    /\ phase' = "disconnected"
    /\ UNCHANGED <<kind, source, at, buffer, connected, numbers, inbox, jobs, topic, sendFailures, torn>>

\* ... and the process exits.
Exit ==
    /\ phase = "disconnected"
    /\ phase' = "exited"
    /\ UNCHANGED <<kind, source, at, buffer, connected, numbers, inbox, jobs, topic, sendFailures, torn>>

\* Stopped or killed, the service is started again.  Its buffers, its counters and
\* its jobs were in memory; what lies in the inbox is not looked at.  The jobs, the
\* topic and the histories are those of the new life.
StartAgain ==
    /\ source' \in Feeds(kind)
    /\ at' = 0 /\ buffer' = <<>>
    /\ connected' = (kind \in Streams)
    /\ numbers' = [d \in Devices |-> 0]
    /\ jobs' = <<>> /\ topic' = <<>> /\ torn' = {}
    /\ phase' = "running"
    /\ UNCHANGED <<kind, inbox, sendFailures>>

Handlers == \E j \in DOMAIN jobs : Settle(j) \/ Publish(j) \/ FailSend(j)

AdaptersNext ==
    \/ \E n \in 1..(Len(Sent(kind, source)) - at) : Receive(n)
    \/ Disconnected
    \/ \E m \in Messages : Message(m)
    \/ \E r \in Requests : Request(r)
    \/ \E f \in Files, content \in {"absent", "partial", "whole"} : FileEvent(f, content)
    \/ \E f \in Files : Copied(f)
    \/ Handlers
    \/ Stop \/ Disconnect \/ Exit \/ StartAgain

AdaptersSpec == AdaptersInit /\ [][AdaptersNext]_adaptersVars

------------------------------------------------------------------------------
Delivered == Max({n \in 0..Len(source) : Upto(n) <= at})

\* Whatever the chunks, an adapter takes up each frame or line that has arrived,
\* whole, once and in order.  Left out is only a frame whose start marker was split
\* over two chunks (frameExtractor.ts:73).
WholeItemsInOrder ==
    LET whole == (1..Delivered) \ torn IN
    kind \in Streams =>
        /\ Len(jobs) = Cardinality(whole)
        /\ \A i \in whole : jobs[Cardinality({k \in whole : k <= i})].item = source[i]

\* A phone is told "accepted" only of what is on the topic and refused only what is
\* not, and a shutdown leaves no request of a phone without its answer.
RequestsOutlastShutdown ==
    kind = "http" =>
        /\ \A j \in DOMAIN jobs :
              /\ jobs[j].outcome = "202" => j \in ToSet(topic)
              /\ jobs[j].outcome \in {"400", "401"} => j \notin ToSet(topic)
        /\ phase \in {"disconnected", "exited"} => Waiting("sending") = {}

\* While the service lives, frames of one camera never share a number, which makes
\* their frame_id, and bear numbers in the order they were taken up in, whatever sends
\* fail or overtake.  No more than that: the counters (frameExtractor.ts:100,
\* app.ts:147) are in memory, and every restart gives the same frame_ids again.
FrameNumbersRise ==
    \A i, j \in DOMAIN jobs :
        /\ i < j /\ jobs[j].number > 0 /\ jobs[i].number > 0
        /\ kind = "http" => jobs[i].item.device = jobs[j].item.device
        => jobs[i].number < jobs[j].number

InStepWithReceipt(item) == item.ts \in {"none", "synced"}

\* Nothing whose clock is out of step reaches a topic, except a phone's snapshot:
\* publishFrame.ts:42 compares the frame's time with itself.
OnlySnapshotsSkewed ==
    \A j \in ToSet(topic) :
        /\ kind = "mqtt" => InStepWithReceipt(jobs[j].item)
        /\ kind = "http" => InStepWithReceipt(jobs[j].item) \/ jobs[j].item.path = "snapshot"
===============================================================================
