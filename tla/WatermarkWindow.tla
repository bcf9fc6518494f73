--------------------------- MODULE WatermarkWindow ---------------------------
(***************************************************************************)
(* The windowing engine of packages/redis: fusion-svc lands every sensor   *)
(* domain on a Redis Stream of its own, and WatermarkWindow.poll() merges  *)
(* the streams back into sensor_ts order.  An event is held in a buffer in *)
(* memory until the watermark, the largest sensor_ts read so far minus     *)
(* WatermarkMs, has reached it; a blocking read that times out flushes the *)
(* whole buffer whatever the watermark says.                               *)
(*                                                                         *)
(* An event is <<domain, id>>, its stream and its position in it; payloads *)
(* are left out, since nothing here reads them.  publishToStream is the    *)
(* only writer of the streams, so the malformed entries that poll() skips  *)
(* do not occur.  The streams are never trimmed (XADD without MAXLEN).     *)
(***************************************************************************)
EXTENDS Integers, FiniteSets, SequencesExt

CONSTANTS
    Domains,      \* the sensor domains, one Redis Stream each
    Timestamps,   \* the sensor_ts values that occur
    WatermarkMs,  \* how far behind the newest sensor_ts an event is held
    NegInf,       \* stands for -Infinity, below every sensor_ts
    MaxStream,    \* bound: entries per stream
    MaxRestarts   \* bound: restarts of the process

ASSUME WindowAssumption ==
    /\ IsFiniteSet(Domains)
    /\ Timestamps \subseteq Int
    /\ WatermarkMs \in Nat
    /\ NegInf \in Int /\ \A t \in Timestamps : NegInf < t
    /\ MaxStream \in Nat
    /\ MaxRestarts \in Nat

VARIABLES
    stream,       \* Redis: the sensor_ts of every entry of every stream
    lastIds,      \* the last entry read of each stream
    buffer,       \* the events read and not released
    maxSensorTs,  \* the largest sensor_ts read
    restarts,     \* how often the process has restarted
    \* History of what poll() returned:
    output,       \* the batches of this process, one after the other
    flushed,      \* the events of output that an idle flush released
    late,         \* the events that were behind the watermark when read
    delivered     \* the events any process so far has released

window == <<lastIds, buffer, maxSensorTs>>
history == <<output, flushed, late, delivered>>
vars == <<stream, window, restarts, history>>

Ids == 1..MaxStream
Events == Domains \X Ids

TypeOK ==
    /\ stream \in [Domains -> Seq(Timestamps)]
    /\ \A d \in Domains : Len(stream[d]) <= MaxStream
    /\ lastIds \in [Domains -> 0..MaxStream]
    /\ buffer \subseteq Events
    /\ maxSensorTs \in Timestamps \cup {NegInf}
    /\ restarts \in 0..MaxRestarts
    /\ output \in Seq(Events)
    /\ flushed \subseteq Events
    /\ late \subseteq Events
    /\ delivered \subseteq Events

Ts(e) == stream[e[1]][e[2]]
Published == {e \in Events : e[2] <= Len(stream[e[1]])}
HasRead == {e \in Events : e[2] <= lastIds[e[1]]}
Unread == Published \ HasRead
Watermark == maxSensorTs - WatermarkMs

Init ==
    /\ stream = [d \in Domains |-> <<>>]
    /\ lastIds = [d \in Domains |-> 0]
    /\ buffer = {}
    /\ maxSensorTs = NegInf
    /\ restarts = 0
    /\ output = <<>>
    /\ flushed = {}
    /\ late = {}
    /\ delivered = {}

------------------------------------------------------------------------------
\* XADD by publishToStream.  The domains race each other and nothing makes
\* the sensor_ts of one domain follow those of another.
Publish(d, ts) ==
    /\ Len(stream[d]) < MaxStream
    /\ stream' = [stream EXCEPT ![d] = Append(@, ts)]
    /\ UNCHANGED <<window, restarts, history>>

\* Bug: the events are left as they were read, stream by stream.
Unsorted(S) ==
    {s \in SetToSeqs(S) :
        \A i, j \in 1..Cardinality(S) : i < j /\ s[i][1] = s[j][1] => s[i][2] < s[j][2]}

\* What the stable sort by sensor_ts may return: ascending, and in stream
\* order among the equal timestamps of one domain.  Equal timestamps of two
\* domains come out in either order.
Before(e, f) ==
    \/ Ts(e) < Ts(f)
    \/ Ts(e) = Ts(f) /\ (e[1] = f[1] => e[2] < f[2])

Sorted(S) ==
    {s \in SetToSeqs(S) : \A i, j \in 1..Cardinality(S) : i < j => Before(s[i], s[j])}

Largest(S) == {m \in S : \A n \in S : n <= m}

\* The batch that poll() returns.
Release(ready) ==
    /\ \E batch \in Sorted(ready) : output' = output \o batch
    /\ delivered' = delivered \cup ready

\* Bug: the buffer keeps the events that were released.
PollReadKeepAll ==
    /\ Unread # {}
    /\ lastIds' = [d \in Domains |-> Len(stream[d])]
    /\ maxSensorTs' \in Largest({maxSensorTs} \cup {Ts(e) : e \in Unread})
    /\ buffer' = buffer \cup Unread
    /\ Release({e \in buffer' : Ts(e) <= Watermark'})
    /\ late' = late \cup {e \in Unread : Ts(e) <= Watermark}
    /\ UNCHANGED <<stream, restarts, flushed>>

\* poll(): XREAD finds entries, on one stream at least, and returns the
\* unread entries of all of them.
PollRead ==
    /\ Unread # {}
    /\ lastIds' = [d \in Domains |-> Len(stream[d])]
    /\ maxSensorTs' \in Largest({maxSensorTs} \cup {Ts(e) : e \in Unread})
    /\ LET candidates == buffer \cup Unread
           ready == {e \in candidates : Ts(e) <= Watermark'}
       IN  /\ buffer' = candidates \ ready
           /\ Release(ready)
    /\ late' = late \cup {e \in Unread : Ts(e) <= Watermark}
    /\ UNCHANGED <<stream, restarts, flushed>>

\* Bug: a read that times out returns nothing and leaves the buffer alone.
PollTimeoutNoFlush == Unread = {} /\ UNCHANGED vars

\* poll(blockMs > 0): the XREAD times out with nothing to read, flushAll().
\* poll(0) returns [] in the same situation, which is a stuttering step.
PollTimeout ==
    /\ Unread = {}
    /\ Release(buffer)
    /\ buffer' = {}
    /\ flushed' = flushed \cup buffer
    /\ UNCHANGED <<stream, lastIds, maxSensorTs, restarts, late>>

\* The window lives in memory only: a new process reads every stream again
\* from "0".
Restart ==
    /\ restarts < MaxRestarts
    /\ restarts' = restarts + 1
    /\ lastIds' = [d \in Domains |-> 0]
    /\ buffer' = {}
    /\ maxSensorTs' = NegInf
    /\ output' = <<>>
    /\ flushed' = {}
    /\ late' = {}
    /\ UNCHANGED <<stream, delivered>>

Next ==
    \/ \E d \in Domains, ts \in Timestamps : Publish(d, ts)
    \/ PollRead
    \/ PollTimeout
    \/ Restart

\* index.ts polls in a loop as long as the service runs.
Fairness == WF_vars(PollRead) /\ WF_vars(PollTimeout)

Spec == Init /\ [][Next]_vars /\ Fairness

------------------------------------------------------------------------------
Released == ToSet(output)

\* Every entry the cursors have passed is in the buffer or was released, and
\* never both: poll() neither drops an event when it splits the buffer at the
\* watermark, nor hands one out again on a later poll.
NothingLostOrRepeated ==
    /\ buffer \cup Released = HasRead
    /\ buffer \cap Released = {}
    /\ \A i, j \in DOMAIN output : output[i] = output[j] => i = j

\* An event still buffered is ahead of the watermark: the split of the buffer
\* is made again on every read, so nothing that is safe to release stays back.
OnlyNewerThanWatermarkHeld == \A e \in buffer : Ts(e) > Watermark

\* The order the window promises, over all batches together: an event comes out
\* after one with a larger sensor_ts only if it was already behind the watermark
\* when it was read, or the other one was given up to an idle flush.
InOrderUnlessLateOrFlushed ==
    \A i, j \in DOMAIN output :
        i < j => \/ Ts(output[i]) <= Ts(output[j])
                 \/ output[j] \in late
                 \/ output[i] \in flushed

==============================================================================
