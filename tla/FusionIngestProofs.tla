-------------------------- MODULE FusionIngestProofs --------------------------
(***************************************************************************)
(* Proofs about WatermarkWindow, and about FusionIngest that drives it, for*)
(* any finite set of domains, any set of integer timestamps, any watermark *)
(* and any bounds.                                                         *)
(*                                                                         *)
(* The window.  The order of the output cannot be shown from the output    *)
(* alone: what makes it work is the position of the watermark between the  *)
(* events already released by it and the events still held (Split), and    *)
(* that the cursors never pass the end of a stream (Cursors), so that the  *)
(* timestamp of an event that was read is fixed.                           *)
(*                                                                         *)
(* The ingest.  Every step of it is a step of the window or leaves it      *)
(* alone, since a handler adds a message that is on its topic (Handlers);  *)
(* so the invariant of the window carries over, on a shared connection as  *)
(* well.  What is committed was resolved, and what was resolved was        *)
(* handled or passed over (ResolvedIsHandled): the offsets of a crashed    *)
(* process are the only way back, and they go back only to where           *)
(* everything before was handled.                                          *)
(***************************************************************************)
EXTENDS FusionIngest, FiniteSetTheorems, FunctionTheorems, SequenceTheorems, TLAPS

(* The window.                                                             *)

Cursors == \A d \in Domains : lastIds[d] <= Len(stream[d])

\* The watermark separates what it has released from what is still held.
Split ==
    /\ OnlyNewerThanWatermarkHeld
    /\ \A e \in Released \ flushed : Ts(e) <= Watermark

Inv ==
    /\ TypeOK
    /\ Cursors
    /\ NothingLostOrRepeated
    /\ Split
    /\ InOrderUnlessLateOrFlushed

------------------------------------------------------------------------------
\* The number of possible events is finite, so every set of events can be
\* listed.
LEMMA EventsFinite == IsFiniteSet(Events)
<1>1. IsFiniteSet(Domains) /\ MaxStream \in Nat
  BY WindowAssumption DEF WindowAssumption
<1>2. IsFiniteSet(Ids)
  BY <1>1, FS_Interval DEF Ids
<1>3. QED
  BY <1>1, <1>2, FS_Product DEF Events

LEMMA ConstantTypes ==
  /\ WatermarkMs \in Int /\ NegInf \in Int /\ Timestamps \subseteq Int
  /\ MaxStream \in Nat
  BY WindowAssumption DEF WindowAssumption

LEMMA SubtractMonotone ==
  ASSUME NEW a \in Int, NEW b \in Int, NEW w \in Int, a <= b
  PROVE  a - w \in Int /\ b - w \in Int /\ a - w <= b - w
  OBVIOUS

\* The batch of a poll lists the ready events, each of them once, in order.
LEMMA BatchListsReady ==
  ASSUME NEW S \in SUBSET Events, NEW batch \in Sorted(S)
  PROVE  /\ batch \in Seq(Events)
         /\ ToSet(batch) = S
         /\ \A i, j \in 1..Len(batch) : batch[i] = batch[j] => i = j
         /\ \A i, j \in 1..Len(batch) : i < j => Before(batch[i], batch[j])
<1> DEFINE n == Cardinality(S)
<1>1. IsFiniteSet(S) /\ n \in Nat
  BY EventsFinite, FS_Subset, FS_CardinalityType
<1>2. batch \in [1..n -> S] /\ \A i, j \in 1..n : i # j => batch[i] # batch[j]
  BY DEF Sorted, SetToSeqs
<1>3. batch \in Seq(Events) /\ Len(batch) = n
  BY <1>1, <1>2
<1>4. batch \in Injection(1..n, S)
  BY <1>2 DEF Injection, IsInjective
<1>5. Cardinality(1..n) = n
  BY <1>1, FS_Interval
<1>6. batch \in Surjection(1..n, S)
  BY <1>1, <1>4, <1>5, FS_Injection
<1>7. ToSet(batch) = S
  BY <1>2, <1>3, <1>6 DEF Surjection, ToSet
<1>8. \A i, j \in 1..n : i < j => Before(batch[i], batch[j])
  BY DEF Sorted
<1>9. QED
  BY <1>1, <1>2, <1>3, <1>7, <1>8
------------------------------------------------------------------------------
LEMMA InitInv == Init => Inv
<1> SUFFICES ASSUME Init PROVE Inv
  OBVIOUS
<1> USE WindowAssumption DEF WindowAssumption, Init
<1>1. TypeOK
  BY DEF TypeOK
<1>2. Cursors
  BY DEF Cursors
<1>3. HasRead = {} /\ Released = {}
  BY DEF HasRead, Events, Ids, Released, ToSet
<1>4. NothingLostOrRepeated
  BY <1>3 DEF NothingLostOrRepeated
<1>5. Split
  BY <1>3 DEF Split, OnlyNewerThanWatermarkHeld
<1>6. InOrderUnlessLateOrFlushed
  BY DEF InOrderUnlessLateOrFlushed
<1>7. QED
  BY <1>1, <1>2, <1>4, <1>5, <1>6 DEF Inv

\* An event that was read is an entry of its stream, and its timestamp a number.
LEMMA ReadEventsHaveTs ==
  ASSUME Inv, NEW e \in HasRead
  PROVE  /\ e[1] \in Domains
         /\ e[2] \in 1..Len(stream[e[1]])
         /\ Ts(e) \in Int
<1> USE WindowAssumption DEF WindowAssumption
<1>1. e[1] \in Domains /\ e[2] \in 1..Len(stream[e[1]])
  BY DEF HasRead, Events, Ids, Inv, Cursors, TypeOK
<1>2. stream[e[1]] \in Seq(Timestamps)
  BY <1>1 DEF Inv, TypeOK
<1>3. stream[e[1]][e[2]] \in Timestamps
  BY <1>1, <1>2, ElementOfSeq
<1>4. QED
  BY <1>1, <1>3 DEF Ts

\* Publishing an entry leaves the timestamps of those already read alone.
LEMMA PublishKeepsTs ==
  ASSUME Inv, NEW d \in Domains, NEW ts \in Timestamps, Publish(d, ts)
  PROVE  /\ \A e \in HasRead : Ts(e)' = Ts(e)
         /\ HasRead' = HasRead
<1>1. stream \in [Domains -> Seq(Timestamps)]
  BY DEF Inv, TypeOK
<1>2. stream' = [stream EXCEPT ![d] = Append(@, ts)] /\ lastIds' = lastIds
  BY DEF Publish, window
<1>3. ASSUME NEW e \in HasRead PROVE Ts(e)' = Ts(e)
  <2>1. e[1] \in Domains /\ e[2] \in 1..Len(stream[e[1]])
    BY <1>3 DEF HasRead, Events, Ids, Inv, Cursors, TypeOK
  <2>2. stream[e[1]] \in Seq(Timestamps)
    BY <1>1, <2>1
  <2>3. QED
    BY <1>1, <1>2, <2>1, <2>2 DEF Ts
<1>4. QED
  BY <1>2, <1>3 DEF HasRead

\* What a poll appends to the output, and where each event of it came from.
LEMMA ReleaseAppends ==
  ASSUME output \in Seq(Events), NEW S \in SUBSET Events, Release(S)
  PROVE  /\ output' \in Seq(Events)
         /\ Released' = Released \cup S
         /\ \A i \in 1..Len(output) : output'[i] = output[i]
         /\ Len(output') >= Len(output)
         /\ \A i \in 1..Len(output') : i > Len(output) => output'[i] \in S
         /\ \A i, j \in 1..Len(output') :
               (Len(output) < i /\ Len(output) < j)
               => /\ output'[i] = output'[j] => i = j
                  /\ i < j => Before(output'[i], output'[j])
<1>1. PICK batch \in Sorted(S) : output' = output \o batch
  BY DEF Release
<1>2. /\ batch \in Seq(Events)
      /\ ToSet(batch) = S
      /\ \A i, j \in 1..Len(batch) : batch[i] = batch[j] => i = j
      /\ \A i, j \in 1..Len(batch) : i < j => Before(batch[i], batch[j])
  BY BatchListsReady
<1>3. /\ output' \in Seq(Events)
      /\ Len(output') = Len(output) + Len(batch)
      /\ \A i \in 1..Len(output') :
            output'[i] = IF i <= Len(output) THEN output[i] ELSE batch[i - Len(output)]
  BY <1>1, <1>2, ConcatProperties
<1>4. Len(output) \in Nat /\ Len(batch) \in Nat
  BY <1>2
<1>5. ASSUME NEW i \in 1..Len(output'), Len(output) < i
      PROVE  /\ i - Len(output) \in 1..Len(batch)
             /\ output'[i] = batch[i - Len(output)]
  BY <1>3, <1>4, <1>5
<1>6. \A i \in 1..Len(output') : i > Len(output) => output'[i] \in S
  BY <1>2, <1>5 DEF ToSet
<1>7. ASSUME NEW i \in 1..Len(output'), NEW j \in 1..Len(output'),
             Len(output) < i, Len(output) < j
      PROVE  /\ output'[i] = output'[j] => i = j
             /\ i < j => Before(output'[i], output'[j])
  <2>1. /\ i - Len(output) \in 1..Len(batch) /\ output'[i] = batch[i - Len(output)]
        /\ j - Len(output) \in 1..Len(batch) /\ output'[j] = batch[j - Len(output)]
    BY <1>5, <1>7
  <2>2. i < j <=> i - Len(output) < j - Len(output)
    BY <1>4
  <2>3. i - Len(output) = j - Len(output) => i = j
    BY <1>4
  <2>4. QED
    BY <1>2, <2>1, <2>2, <2>3
<1>8. Released' = Released \cup S
  <2>1. Released' \subseteq Released \cup S
    BY <1>3, <1>4, <1>6 DEF Released, ToSet
  <2>2. Released \subseteq Released'
    BY <1>3, <1>4 DEF Released, ToSet
  <2>3. ASSUME NEW e \in S PROVE e \in Released'
    <3>1. PICK k \in 1..Len(batch) : batch[k] = e
      BY <1>2 DEF ToSet
    <3>2. Len(output) + k \in 1..Len(output') /\ output'[Len(output) + k] = e
      BY <1>3, <1>4, <3>1
    <3>3. QED
      BY <1>3, <3>2 DEF Released, ToSet
  <2>4. QED
    BY <2>1, <2>2, <2>3
<1>9. QED
  BY <1>3, <1>4, <1>6, <1>7, <1>8

LEMMA PublishInv ==
  ASSUME Inv, NEW d \in Domains, NEW ts \in Timestamps, Publish(d, ts)
  PROVE  Inv'
<1> USE WindowAssumption DEF WindowAssumption
<1>0. /\ stream \in [Domains -> Seq(Timestamps)]
      /\ Len(stream[d]) < MaxStream
      /\ stream' = [stream EXCEPT ![d] = Append(@, ts)]
      /\ UNCHANGED <<lastIds, buffer, maxSensorTs, restarts, output, flushed, late, delivered>>
  BY DEF Publish, window, history, Inv, TypeOK
<1>1. \A e \in HasRead : Ts(e)' = Ts(e)
  BY PublishKeepsTs
<1>2. HasRead' = HasRead
  BY PublishKeepsTs
<1>3. /\ stream' \in [Domains -> Seq(Timestamps)]
      /\ \A c \in Domains : /\ Len(stream'[c]) >= Len(stream[c])
                             /\ Len(stream'[c]) <= MaxStream
  BY <1>0 DEF Inv, TypeOK
<1>4. TypeOK'
  BY <1>0, <1>3 DEF Inv, TypeOK
<1>5. Cursors'
  BY <1>0, <1>3 DEF Inv, Cursors, TypeOK
<1>6. Released' = Released /\ Watermark' = Watermark
  BY <1>0 DEF Released, Watermark
<1>7. NothingLostOrRepeated'
  BY <1>0, <1>2, <1>6 DEF Inv, NothingLostOrRepeated
<1>8. buffer \subseteq HasRead /\ Released \subseteq HasRead
  BY DEF Inv, NothingLostOrRepeated
<1>9. Split'
  BY <1>0, <1>1, <1>6, <1>8 DEF Inv, Split, OnlyNewerThanWatermarkHeld
<1>10. \A i \in DOMAIN output : Ts(output[i])' = Ts(output[i])
  BY <1>0, <1>1, <1>8 DEF Released, ToSet
<1>11. InOrderUnlessLateOrFlushed'
  BY <1>0, <1>10 DEF Inv, InOrderUnlessLateOrFlushed
<1>12. QED
  BY <1>4, <1>5, <1>7, <1>9, <1>11 DEF Inv

LEMMA RestartInv ==
  ASSUME Inv, Restart
  PROVE  Inv'
<1> USE WindowAssumption DEF WindowAssumption, Restart, Inv
<1>1. TypeOK'
  BY DEF TypeOK
<1>2. Cursors'
  BY DEF Cursors, TypeOK
<1>3. HasRead' = {} /\ Released' = {}
  BY DEF HasRead, Events, Ids, Released, ToSet
<1>4. NothingLostOrRepeated'
  BY <1>3 DEF NothingLostOrRepeated
<1>5. Split'
  BY <1>3 DEF Split, OnlyNewerThanWatermarkHeld
<1>6. InOrderUnlessLateOrFlushed'
  BY DEF InOrderUnlessLateOrFlushed
<1>7. QED
  BY <1>1, <1>2, <1>4, <1>5, <1>6

LEMMA PollTimeoutInv ==
  ASSUME Inv, PollTimeout
  PROVE  Inv'
<1> USE WindowAssumption DEF WindowAssumption
<1>0. /\ Release(buffer) /\ buffer' = {} /\ flushed' = flushed \cup buffer
      /\ UNCHANGED <<stream, lastIds, maxSensorTs, restarts, late>>
  BY DEF PollTimeout
<1>1. output \in Seq(Events) /\ buffer \in SUBSET Events
  BY DEF Inv, TypeOK
<1>2. /\ output' \in Seq(Events)
      /\ Released' = Released \cup buffer
      /\ \A i \in 1..Len(output) : output'[i] = output[i]
      /\ Len(output') >= Len(output)
      /\ \A i \in 1..Len(output') : i > Len(output) => output'[i] \in buffer
      /\ \A i, j \in 1..Len(output') :
            (Len(output) < i /\ Len(output) < j)
            => /\ output'[i] = output'[j] => i = j
               /\ i < j => Before(output'[i], output'[j])
  BY <1>0, <1>1, ReleaseAppends
<1>3. delivered' = delivered \cup buffer
  BY <1>0 DEF Release
<1>4. TypeOK'
  BY <1>0, <1>2, <1>3 DEF Inv, TypeOK
<1>5. Cursors'
  BY <1>0 DEF Inv, Cursors
<1>6. HasRead' = HasRead /\ Watermark' = Watermark /\ \A e : Ts(e)' = Ts(e)
  BY <1>0 DEF HasRead, Watermark, Ts
<1>7. \A i, j \in DOMAIN output' : output'[i] = output'[j] => i = j
  <2>1. \A i \in 1..Len(output) : output[i] \in Released
    BY <1>1 DEF Released, ToSet
  <2>2. SUFFICES ASSUME NEW i \in 1..Len(output'), NEW j \in 1..Len(output'),
                        output'[i] = output'[j], i <= j
                 PROVE  i = j
    BY <1>2
  <2>3. CASE i <= Len(output) /\ j <= Len(output)
    BY <1>1, <1>2, <2>2, <2>3 DEF Inv, NothingLostOrRepeated
  <2>4. CASE i <= Len(output) /\ j > Len(output)
    BY <1>1, <1>2, <2>1, <2>2, <2>4 DEF Inv, NothingLostOrRepeated
  <2>5. CASE i > Len(output)
    BY <1>1, <1>2, <2>2, <2>5
  <2>6. QED
    BY <1>1, <1>2, <2>3, <2>4, <2>5
<1>8. NothingLostOrRepeated'
  BY <1>0, <1>2, <1>6, <1>7 DEF Inv, NothingLostOrRepeated
<1>9. Split'
  BY <1>0, <1>2, <1>6 DEF Inv, Split, OnlyNewerThanWatermarkHeld
<1>10. InOrderUnlessLateOrFlushed'
  <2>1. SUFFICES ASSUME NEW i \in 1..Len(output'), NEW j \in 1..Len(output'), i < j
                 PROVE  \/ Ts(output'[i]) <= Ts(output'[j])
                        \/ output'[j] \in late
                        \/ output'[i] \in flushed \cup buffer
    BY <1>0, <1>2, <1>6 DEF InOrderUnlessLateOrFlushed
  <2>2. CASE i > Len(output)
    BY <1>2, <2>1, <2>2
  <2>3. CASE i <= Len(output) /\ j <= Len(output)
    BY <1>1, <1>2, <2>1, <2>3 DEF Inv, InOrderUnlessLateOrFlushed
  <2>4. CASE i <= Len(output) /\ j > Len(output) /\ output'[i] \notin flushed
    <3>1. output'[i] \in Released \ flushed /\ output'[j] \in buffer
      BY <1>1, <1>2, <2>4 DEF Released, ToSet
    <3>2. Ts(output'[i]) <= Watermark /\ Watermark < Ts(output'[j])
      BY <3>1 DEF Inv, Split, OnlyNewerThanWatermarkHeld
    <3>3. Ts(output'[i]) \in Int /\ Ts(output'[j]) \in Int /\ Watermark \in Int
      <4>1. Released \subseteq HasRead /\ buffer \subseteq HasRead
        BY DEF Inv, NothingLostOrRepeated
      <4>2. \A e \in HasRead : Ts(e) \in Int
        BY ReadEventsHaveTs
      <4>3. QED
        BY <3>1, <4>1, <4>2 DEF Inv, TypeOK, Watermark
    <3>4. QED
      BY <3>2, <3>3
  <2>5. QED
    BY <1>1, <1>2, <2>2, <2>3, <2>4
<1>11. QED
  BY <1>4, <1>5, <1>8, <1>9, <1>10 DEF Inv

LEMMA PollReadInv ==
  ASSUME Inv, PollRead
  PROVE  Inv'
<1> DEFINE candidates == buffer \cup Unread
           ready == {e \in candidates : Ts(e) <= Watermark'}
<1> USE ConstantTypes
<1>0. /\ lastIds' = [d \in Domains |-> Len(stream[d])]
      /\ maxSensorTs' \in Largest({maxSensorTs} \cup {Ts(e) : e \in Unread})
      /\ buffer' = candidates \ ready
      /\ Release(ready)
      /\ late' = late \cup {e \in Unread : Ts(e) <= Watermark}
      /\ UNCHANGED <<stream, restarts, flushed>>
  BY DEF PollRead
<1>1. output \in Seq(Events) /\ candidates \in SUBSET Events /\ ready \in SUBSET Events
  BY DEF Inv, TypeOK, Unread, Published
<1>2. /\ output' \in Seq(Events)
      /\ Released' = Released \cup ready
      /\ \A i \in 1..Len(output) : output'[i] = output[i]
      /\ Len(output') >= Len(output)
      /\ \A i \in 1..Len(output') : i > Len(output) => output'[i] \in ready
      /\ \A i, j \in 1..Len(output') :
            (Len(output) < i /\ Len(output) < j)
            => /\ output'[i] = output'[j] => i = j
               /\ i < j => Before(output'[i], output'[j])
  BY <1>0, <1>1, ReleaseAppends
<1>3. delivered' = delivered \cup ready
  BY <1>0 DEF Release
<1>4. \A e \in Unread : Ts(e) \in Timestamps
  <2>1. SUFFICES ASSUME NEW e \in Unread PROVE Ts(e) \in Timestamps
    OBVIOUS
  <2>2. e[1] \in Domains /\ e[2] \in 1..Len(stream[e[1]])
    BY <2>1 DEF Unread, Published, Events, Ids, Inv, TypeOK
  <2>3. stream[e[1]] \in Seq(Timestamps)
    BY <2>2 DEF Inv, TypeOK
  <2>4. QED
    BY <2>2, <2>3, ElementOfSeq DEF Ts
<1>5. maxSensorTs \in Timestamps \cup {NegInf} /\ maxSensorTs' \in Timestamps \cup {NegInf}
  BY <1>0, <1>4 DEF Largest, Inv, TypeOK
<1>6. Watermark \in Int /\ Watermark' \in Int /\ Watermark <= Watermark'
  <2>1. maxSensorTs \in Int /\ maxSensorTs' \in Int
    BY <1>5
  <2>2. maxSensorTs <= maxSensorTs'
    BY <1>0 DEF Largest
  <2>3. QED
    BY <2>1, <2>2, SubtractMonotone DEF Watermark
<1>7. \A e : Ts(e)' = Ts(e)
  BY <1>0 DEF Ts
<1>8. \A e \in candidates \cup Released : Ts(e) \in Int
  BY <1>4, ReadEventsHaveTs DEF Inv, NothingLostOrRepeated
<1>9. TypeOK'
  <2>1. lastIds' \in [Domains -> 0..MaxStream]
    BY <1>0 DEF Inv, TypeOK
  <2>2. QED
    BY <1>0, <1>1, <1>2, <1>3, <1>5, <2>1 DEF Inv, TypeOK, Unread, Published
<1>10. Cursors'
  BY <1>0 DEF Inv, TypeOK, Cursors
<1>11. HasRead' = HasRead \cup Unread
  BY <1>0 DEF HasRead, Unread, Published, Events, Ids, Inv, Cursors, TypeOK
<1>12. candidates \cap Released = {}
  BY DEF Inv, NothingLostOrRepeated, Unread
<1>13. \A i, j \in DOMAIN output' : output'[i] = output'[j] => i = j
  <2>1. \A i \in 1..Len(output) : output[i] \in Released
    BY <1>1 DEF Released, ToSet
  <2>2. SUFFICES ASSUME NEW i \in 1..Len(output'), NEW j \in 1..Len(output'),
                        output'[i] = output'[j], i <= j
                 PROVE  i = j
    BY <1>2
  <2>3. CASE i <= Len(output) /\ j <= Len(output)
    BY <1>1, <1>2, <2>2, <2>3 DEF Inv, NothingLostOrRepeated
  <2>4. CASE i <= Len(output) /\ j > Len(output)
    BY <1>1, <1>2, <1>12, <2>1, <2>2, <2>4
  <2>5. CASE i > Len(output)
    BY <1>1, <1>2, <2>2, <2>5
  <2>6. QED
    BY <1>1, <1>2, <2>3, <2>4, <2>5
<1>14. NothingLostOrRepeated'
  <2>1. buffer' \cup Released' = HasRead'
    BY <1>0, <1>2, <1>11 DEF Inv, NothingLostOrRepeated
  <2>2. buffer' \cap Released' = {}
    BY <1>0, <1>2, <1>12
  <2>3. QED
    BY <1>13, <2>1, <2>2 DEF NothingLostOrRepeated
<1>15. Split'
  <2>1. OnlyNewerThanWatermarkHeld'
    BY <1>0, <1>6, <1>7, <1>8 DEF OnlyNewerThanWatermarkHeld
  <2>2. ASSUME NEW e \in Released' \ flushed'
        PROVE  Ts(e) <= Watermark'
    <3>1. CASE e \in ready
      BY <3>1
    <3>2. CASE e \in Released \ flushed
      <4>1. Ts(e) <= Watermark /\ Ts(e) \in Int
        BY <1>8, <3>2 DEF Inv, Split
      <4>2. QED
        BY <1>6, <4>1
    <3>3. QED
      BY <1>0, <1>2, <3>1, <3>2
  <2>3. QED
    BY <1>7, <2>1, <2>2 DEF Split
<1>16. InOrderUnlessLateOrFlushed'
  <2>1. SUFFICES ASSUME NEW i \in 1..Len(output'), NEW j \in 1..Len(output'), i < j
                 PROVE  \/ Ts(output'[i]) <= Ts(output'[j])
                        \/ output'[j] \in late'
                        \/ output'[i] \in flushed
    BY <1>0, <1>2, <1>7 DEF InOrderUnlessLateOrFlushed
  <2>2. CASE i > Len(output)
    <3>1. Before(output'[i], output'[j])
      BY <1>1, <1>2, <2>1, <2>2
    <3>2. output'[i] \in candidates /\ output'[j] \in candidates
      BY <1>1, <1>2, <2>1, <2>2
    <3>3. Ts(output'[i]) \in Int /\ Ts(output'[j]) \in Int
      BY <1>8, <3>2
    <3>4. QED
      BY <3>1, <3>3 DEF Before
  <2>3. CASE i <= Len(output) /\ j <= Len(output)
    BY <1>0, <1>1, <1>2, <2>1, <2>3 DEF Inv, InOrderUnlessLateOrFlushed
  <2>4. CASE /\ i <= Len(output) /\ j > Len(output)
             /\ output'[i] \notin flushed /\ output'[j] \notin late'
    <3>1. output'[i] \in Released \ flushed /\ output'[j] \in candidates
      BY <1>1, <1>2, <2>4 DEF Released, ToSet
    <3>2. Ts(output'[i]) <= Watermark
      BY <3>1 DEF Inv, Split
    <3>3. Ts(output'[i]) \in Int /\ Ts(output'[j]) \in Int
      BY <1>8, <3>1
    <3>4. Watermark < Ts(output'[j])
      <4>1. CASE output'[j] \in buffer
        BY <4>1 DEF Inv, Split, OnlyNewerThanWatermarkHeld
      <4>2. CASE output'[j] \in Unread
        BY <1>0, <1>6, <2>4, <3>3, <4>2
      <4>3. QED
        BY <3>1, <4>1, <4>2
    <3>5. QED
      BY <1>6, <3>2, <3>3, <3>4
  <2>5. QED
    BY <1>1, <1>2, <2>2, <2>3, <2>4
<1>17. QED
  BY <1>9, <1>10, <1>14, <1>15, <1>16 DEF Inv

LEMMA StepInv == Inv /\ [Next]_vars => Inv'
<1> SUFFICES ASSUME Inv, [Next]_vars PROVE Inv'
  OBVIOUS
<1>1. ASSUME NEW d \in Domains, NEW ts \in Timestamps, Publish(d, ts) PROVE Inv'
  BY <1>1, PublishInv
<1>2. CASE PollRead
  BY <1>2, PollReadInv
<1>3. CASE PollTimeout
  BY <1>3, PollTimeoutInv
<1>4. CASE Restart
  BY <1>4, RestartInv
<1>5. CASE UNCHANGED vars
  BY <1>5 DEF vars, window, history, Inv, TypeOK, Cursors, NothingLostOrRepeated, Split,
       OnlyNewerThanWatermarkHeld, InOrderUnlessLateOrFlushed, HasRead, Released, Watermark, Ts
<1>6. QED
  BY <1>1, <1>2, <1>3, <1>4, <1>5 DEF Next

LEMMA Invariance == Spec => []Inv
<1>1. Init => Inv
  BY InitInv
<1>2. Inv /\ [Next]_vars => Inv'
  BY StepInv
<1>3. QED
  BY <1>1, <1>2, PTL DEF Spec

------------------------------------------------------------------------------
\* The state of the window is well typed.
THEOREM TypeCorrect == Spec => []TypeOK
<1>1. Inv => TypeOK
  BY DEF Inv
<1>2. QED
  BY <1>1, Invariance, PTL

\* poll() neither drops an event nor returns one twice, as long as the process
\* lives.
THEOREM ExactlyOnce == Spec => []NothingLostOrRepeated
<1>1. Inv => NothingLostOrRepeated
  BY DEF Inv
<1>2. QED
  BY <1>1, Invariance, PTL

\* What is still buffered is ahead of the watermark.
THEOREM HeldBack == Spec => []OnlyNewerThanWatermarkHeld
<1>1. Inv => OnlyNewerThanWatermarkHeld
  BY DEF Inv, Split
<1>2. QED
  BY <1>1, Invariance, PTL

\* Any two events come out in sensor_ts order, unless the second one arrived
\* behind the watermark or the first one left in an idle flush.
THEOREM OutputOrder == Spec => []InOrderUnlessLateOrFlushed
<1>1. Inv => InOrderUnlessLateOrFlushed
  BY DEF Inv
<1>2. QED
  BY <1>1, Invariance, PTL

------------------------------------------------------------------------------
(* The ingest.                                                             *)

\* A handler that awaits its XADD has a message on the topic.
Handlers ==
    /\ topic \in [Domains -> Seq(Timestamps)]
    /\ resolved \in [Domains -> Nat]
    /\ committed \in [Domains -> Nat]
    /\ adding \in Domains \cup {None}
    /\ adding # None => resolved[adding] < Len(topic[adding])
    /\ \A d \in Domains : resolved[d] <= Len(topic[d]) /\ committed[d] <= Len(topic[d])
    /\ origin \in [Domains -> Seq(Nat)]
    /\ resumed \in [Domains -> Nat]

\* Everything up to an offset that was resolved or committed is accounted for.
Accounted(d, o) == Handled(d, o) \/ <<d, o>> \in skipped
ResolvedIsHandled == \A d \in Domains : \A o \in 1..resolved[d] : Accounted(d, o)

\* What a stream got since the last join is of resolved messages.
OriginBehind ==
    \A d \in Domains : \A i \in DOMAIN origin[d] : resumed[d] < i => origin[d][i] <= resolved[d]

IngestInv ==
    /\ Inv
    /\ Handlers
    /\ ResolvedIsHandled
    /\ CommittedIsStreamed
    /\ OriginBehind
    /\ OnceInOrderPerJoin

------------------------------------------------------------------------------
\* ToSet of a sequence that grew by one element.
LEMMA ToSetAppend ==
  ASSUME NEW s \in Seq(Nat), NEW x \in Nat
  PROVE  /\ Append(s, x) \in Seq(Nat)
         /\ ToSet(s) \subseteq ToSet(Append(s, x))
         /\ x \in ToSet(Append(s, x))
<1>1. /\ Append(s, x) \in Seq(Nat)
      /\ Len(Append(s, x)) = Len(s) + 1
      /\ \A i \in 1..Len(s) : Append(s, x)[i] = s[i]
      /\ Append(s, x)[Len(s) + 1] = x
      /\ Len(s) \in Nat
  OBVIOUS
<1>2. QED
  BY <1>1 DEF ToSet

LEMMA IngestInitInv == IngestInit => IngestInv
<1> SUFFICES ASSUME IngestInit PROVE IngestInv
  OBVIOUS
<1> USE DEF IngestInit
<1>1. Inv
  BY InitInv
<1>2. Handlers
  BY DEF Handlers
<1>3. ResolvedIsHandled /\ CommittedIsStreamed /\ OriginBehind /\ OnceInOrderPerJoin
  BY DEF ResolvedIsHandled, CommittedIsStreamed, OriginBehind, OnceInOrderPerJoin
<1>4. QED
  BY <1>1, <1>2, <1>3 DEF IngestInv

------------------------------------------------------------------------------
\* Each step of the ingest is a step of the window, or none.
LEMMA IngestStepsWindow ==
  ASSUME IngestInv, [IngestNext]_allVars
  PROVE  [Next]_vars
<1>1. CASE UNCHANGED allVars
  BY <1>1 DEF allVars
<1>2. ASSUME NEW d \in Domains, AddServed(d) PROVE Next
  <2>1. topic[d] \in Seq(Timestamps) /\ resolved[d] + 1 \in 1..Len(topic[d])
    BY <1>2, IngestAssumption DEF IngestInv, Handlers, AddServed, IngestAssumption
  <2>2. topic[d][resolved[d] + 1] \in Timestamps
    BY <2>1, ElementOfSeq
  <2>3. QED
    BY <1>2, <2>2 DEF AddServed, Next
<1>3. CASE LoopRead \/ LoopTimeout \/ Crash
  BY <1>3 DEF LoopRead, LoopTimeout, Crash, Next
<1>4. ASSUME NEW d \in Domains, \/ \E ts \in Timestamps : Produce(d, ts)
                                \/ StartMessage(d) \/ Refuse(d) \/ AddFailed(d) \/ AutoCommit(d)
      PROVE  UNCHANGED vars
  BY <1>4 DEF Produce, StartMessage, Refuse, AddFailed, AutoCommit
<1>5. CASE LoopBlock \/ Rejoin
  BY <1>5 DEF LoopBlock, Rejoin
<1>6. QED
  BY <1>1, <1>2, <1>3, <1>4, <1>5 DEF IngestNext

LEMMA IngestWindowInv ==
  ASSUME IngestInv, [IngestNext]_allVars
  PROVE  Inv'
  BY IngestStepsWindow, StepInv DEF IngestInv

------------------------------------------------------------------------------
\* What each step does to the offsets, the topic and the streams' origin.
LEMMA HandlersKept ==
  ASSUME IngestInv, [IngestNext]_allVars
  PROVE  Handlers'
<1> USE IngestAssumption DEF IngestAssumption, IngestInv, Handlers
<1>1. CASE UNCHANGED allVars
  BY <1>1 DEF allVars, ingest, joins
<1>2. ASSUME NEW d \in Domains, NEW ts \in Timestamps, Produce(d, ts) PROVE Handlers'
  <2>1. /\ topic' = [topic EXCEPT ![d] = Append(@, ts)]
        /\ UNCHANGED <<resolved, committed, adding, origin, resumed>>
    BY <1>2 DEF Produce, joins
  <2>2. topic[d] \in Seq(Timestamps) /\ Len(topic[d]) \in Nat
    OBVIOUS
  <2>3. Append(topic[d], ts) \in Seq(Timestamps) /\ Len(Append(topic[d], ts)) = Len(topic[d]) + 1
    BY <2>2
  <2>4. topic' \in [Domains -> Seq(Timestamps)]
    BY <2>1, <2>3
  <2>5. \A c \in Domains : Len(topic[c]) \in Nat /\ Len(topic'[c]) \in Nat /\ Len(topic[c]) <= Len(topic'[c])
    BY <2>1, <2>2, <2>3
  <2>6. \A c \in Domains : /\ resolved[c] <= Len(topic'[c]) /\ committed[c] <= Len(topic'[c])
                           /\ resolved[c] < Len(topic[c]) => resolved[c] < Len(topic'[c])
    BY <2>5
  <2>7. QED
    BY <2>1, <2>4, <2>6
<1>3. ASSUME NEW d \in Domains, StartMessage(d) PROVE Handlers'
  BY <1>3 DEF StartMessage, joins
<1>4. ASSUME NEW d \in Domains, Refuse(d) \/ AddFailed(d) PROVE Handlers'
  <2>1. /\ resolved[d] < Len(topic[d]) /\ adding' = None
        /\ resolved' = [resolved EXCEPT ![d] = @ + 1]
        /\ UNCHANGED <<topic, committed, origin, resumed>>
    BY <1>4 DEF Refuse, AddFailed, joins
  <2>2. QED
    BY <2>1
<1>5. ASSUME NEW d \in Domains, AddServed(d) PROVE Handlers'
  <2>1. /\ resolved[d] < Len(topic[d]) /\ adding' = None
        /\ resolved' = [resolved EXCEPT ![d] = @ + 1]
        /\ origin' = [origin EXCEPT ![d] = Append(@, resolved[d] + 1)]
        /\ UNCHANGED <<topic, committed, resumed>>
    BY <1>5 DEF AddServed, joins
  <2>2. Append(origin[d], resolved[d] + 1) \in Seq(Nat)
    BY ToSetAppend
  <2>3. origin' \in [Domains -> Seq(Nat)]
    BY <2>1, <2>2
  <2>4. resolved' \in [Domains -> Nat] /\ \A c \in Domains : resolved'[c] <= Len(topic[c])
    BY <2>1
  <2>5. QED
    BY <2>1, <2>3, <2>4
<1>6. ASSUME NEW d \in Domains, AutoCommit(d) PROVE Handlers'
  BY <1>6 DEF AutoCommit, joins
<1>7. CASE LoopRead \/ LoopBlock \/ LoopTimeout
  BY <1>7 DEF LoopRead, LoopBlock, LoopTimeout, ingest, joins
<1>8. CASE Crash \/ Rejoin
  <2>1. \A c \in Domains : Len(topic[c]) \in Nat /\ Len(origin[c]) \in Nat
    OBVIOUS
  <2>2. JoinGroup /\ adding' = None /\ UNCHANGED <<topic, committed, origin>>
    BY <1>8 DEF Crash, Rejoin
  <2>3. QED
    BY <2>1, <2>2 DEF JoinGroup
<1>9. QED
  BY <1>1, <1>2, <1>3, <1>4, <1>5, <1>6, <1>7, <1>8 DEF IngestNext

\* What is resolved next is handled by the same step; at a join the offsets
\* fall back to what was committed, or pass over the whole topic.
LEMMA ResolvedIsHandledKept ==
  ASSUME IngestInv, [IngestNext]_allVars
  PROVE  ResolvedIsHandled' /\ CommittedIsStreamed'
<1> USE DEF IngestInv
<1> DEFINE Same == UNCHANGED <<resolved, committed, origin, dropped, skipped>>
<1>0. \A d \in Domains : resolved[d] \in Nat /\ committed[d] \in Nat /\ origin[d] \in Seq(Nat)
  BY DEF Handlers
<1>a. \A d \in Domains : \A o \in 1..committed[d] : Accounted(d, o)
  BY DEF CommittedIsStreamed, Accounted
<1>1. CASE Same
  BY <1>1 DEF ResolvedIsHandled, CommittedIsStreamed, Accounted, Handled
<1>2. ASSUME NEW d \in Domains, Refuse(d) \/ AddFailed(d) \/ AddServed(d)
      PROVE  ResolvedIsHandled' /\ CommittedIsStreamed'
  <2>1. /\ resolved' = [resolved EXCEPT ![d] = @ + 1]
        /\ dropped \subseteq dropped'
        /\ UNCHANGED <<committed, skipped>>
    BY <1>2 DEF Refuse, AddFailed, AddServed
  <2>2. /\ \A c \in Domains : ToSet(origin[c]) \subseteq ToSet(origin'[c])
        /\ <<d, resolved[d] + 1>> \in dropped' \/ resolved[d] + 1 \in ToSet(origin'[d])
    <3>1. CASE Refuse(d) \/ AddFailed(d)
      BY <3>1 DEF Refuse, AddFailed
    <3>2. CASE AddServed(d)
      <4>1. origin' = [origin EXCEPT ![d] = Append(@, resolved[d] + 1)]
        BY <3>2 DEF AddServed
      <4>2. /\ ToSet(origin[d]) \subseteq ToSet(Append(origin[d], resolved[d] + 1))
            /\ resolved[d] + 1 \in ToSet(Append(origin[d], resolved[d] + 1))
        BY <1>0, ToSetAppend
      <4>3. QED
        BY <4>1, <4>2 DEF Handlers
    <3>3. QED
      BY <1>2, <3>1, <3>2
  <2>3. \A c \in Domains : \A o \in Nat : Accounted(c, o) => Accounted(c, o)'
    BY <2>1, <2>2 DEF Accounted, Handled
  <2>4. \A o \in Nat : o = resolved[d] + 1 => Accounted(d, o)'
    BY <2>2 DEF Accounted, Handled
  <2>5. ASSUME NEW c \in Domains, NEW o \in 1..resolved'[c] PROVE Accounted(c, o)'
    <3>1. o \in 1..resolved[c] \/ (c = d /\ o = resolved[d] + 1)
      BY <1>0, <2>1, <2>5 DEF Handlers
    <3>2. o \in Nat
      BY <1>0, <3>1
    <3>3. CASE o \in 1..resolved[c]
      BY <2>3, <3>2, <3>3 DEF ResolvedIsHandled
    <3>4. CASE c = d /\ o = resolved[d] + 1
      BY <2>4, <3>2, <3>4
    <3>5. QED
      BY <3>1, <3>3, <3>4
  <2>6. ASSUME NEW c \in Domains, NEW o \in 1..committed'[c] PROVE Accounted(c, o)'
    BY <1>0, <1>a, <2>1, <2>3, <2>6
  <2>7. QED
    BY <2>5, <2>6 DEF ResolvedIsHandled, CommittedIsStreamed, Accounted
<1>3. ASSUME NEW d \in Domains, AutoCommit(d)
      PROVE  ResolvedIsHandled' /\ CommittedIsStreamed'
  <2>1. /\ committed' = [committed EXCEPT ![d] = resolved[d]]
        /\ UNCHANGED <<resolved, origin, dropped, skipped>>
    BY <1>3 DEF AutoCommit
  <2>2. \A c \in Domains : committed'[c] = committed[c] \/ committed'[c] = resolved[c]
    BY <2>1 DEF Handlers
  <2>3. \A c \in Domains : \A o \in 1..committed'[c] : Accounted(c, o)
    BY <1>a, <2>2 DEF ResolvedIsHandled
  <2>4. QED
    BY <2>1, <2>3 DEF ResolvedIsHandled, CommittedIsStreamed, Accounted, Handled
<1>4. CASE Crash \/ Rejoin
  <2>1. /\ resolved' = [d \in Domains |-> IF committed[d] = 0 THEN Len(topic[d]) ELSE committed[d]]
        /\ skipped' = skipped \cup {m \in Produced : committed[m[1]] = 0}
        /\ UNCHANGED <<committed, origin, dropped>>
    BY <1>4 DEF Crash, Rejoin, JoinGroup
  <2>2. \A c \in Domains : \A o \in Nat : Accounted(c, o) => Accounted(c, o)'
    BY <2>1 DEF Accounted, Handled
  <2>3. ASSUME NEW c \in Domains, NEW o \in 1..resolved'[c] PROVE Accounted(c, o)'
    <3>1. CASE committed[c] = 0
      <4>1. o \in 1..Len(topic[c])
        BY <2>1, <2>3, <3>1
      <4>2. <<c, o>> \in Produced
        BY <4>1 DEF Produced
      <4>3. <<c, o>> \in skipped'
        BY <2>1, <3>1, <4>2
      <4>4. QED
        BY <4>3 DEF Accounted
    <3>2. CASE committed[c] # 0
      <4>1. o \in 1..committed[c]
        BY <2>1, <2>3, <3>2
      <4>2. QED
        BY <1>0, <1>a, <2>2, <4>1
    <3>3. QED
      BY <3>1, <3>2
  <2>4. ASSUME NEW c \in Domains, NEW o \in 1..committed'[c] PROVE Accounted(c, o)'
    BY <1>0, <1>a, <2>1, <2>2, <2>4
  <2>5. QED
    BY <2>3, <2>4 DEF ResolvedIsHandled, CommittedIsStreamed, Accounted
<1>5. CASE LoopRead \/ LoopBlock \/ LoopTimeout
  <2>1. Same
    BY <1>5 DEF LoopRead, LoopBlock, LoopTimeout, ingest
  <2>2. QED
    BY <1>1, <2>1
<1>6. ASSUME NEW d \in Domains, StartMessage(d) \/ \E ts \in Timestamps : Produce(d, ts)
      PROVE  ResolvedIsHandled' /\ CommittedIsStreamed'
  <2>1. Same
    BY <1>6 DEF StartMessage, Produce
  <2>2. QED
    BY <1>1, <2>1
<1>7. CASE UNCHANGED allVars
  <2>1. Same
    BY <1>7 DEF allVars, ingest
  <2>2. QED
    BY <1>1, <2>1
<1>8. QED
  BY <1>2, <1>3, <1>4, <1>5, <1>6, <1>7 DEF IngestNext

\* A stream only grows, and by the message that is resolved next; at a join the two
\* formulas begin anew, with what comes after the streams as they are.
LEMMA OrderKept ==
  ASSUME IngestInv, [IngestNext]_allVars
  PROVE  OriginBehind' /\ OnceInOrderPerJoin'
<1> USE DEF IngestInv
<1>0. \A d \in Domains : resolved[d] \in Nat /\ resumed[d] \in Nat /\ origin[d] \in Seq(Nat)
  BY DEF Handlers
<1>1. CASE UNCHANGED <<resumed, origin>> /\ \A d \in Domains : resolved'[d] >= resolved[d]
                                                              /\ resolved'[d] \in Nat
  <2>1. ASSUME NEW d \in Domains, NEW i \in DOMAIN origin[d], resumed[d] < i
        PROVE  origin[d][i] <= resolved'[d]
    <3>1. origin[d][i] \in Nat /\ origin[d][i] <= resolved[d]
      BY <1>0, <2>1 DEF OriginBehind
    <3>2. QED
      BY <1>0, <1>1, <3>1
  <2>2. QED
    BY <1>1, <2>1 DEF OriginBehind, OnceInOrderPerJoin
<1>2. ASSUME NEW d \in Domains, AddServed(d)
      PROVE  OriginBehind' /\ OnceInOrderPerJoin'
  <2>1. /\ origin' = [origin EXCEPT ![d] = Append(@, resolved[d] + 1)]
        /\ resolved' = [resolved EXCEPT ![d] = @ + 1]
        /\ resumed' = resumed
    BY <1>2 DEF AddServed, joins
  <2>2. /\ \A c \in Domains : c # d => origin'[c] = origin[c] /\ resolved'[c] = resolved[c]
        /\ origin'[d] = Append(origin[d], resolved[d] + 1)
        /\ resolved'[d] = resolved[d] + 1
    BY <2>1 DEF Handlers
  <2>3. /\ Len(origin[d]) \in Nat
        /\ DOMAIN origin[d] = 1..Len(origin[d])
        /\ DOMAIN origin'[d] = 1..(Len(origin[d]) + 1)
        /\ \A i \in 1..Len(origin[d]) : origin'[d][i] = origin[d][i] /\ origin[d][i] \in Nat
        /\ origin'[d][Len(origin[d]) + 1] = resolved[d] + 1
    BY <1>0, <2>2
  <2>4. ASSUME NEW i \in DOMAIN origin'[d], resumed[d] < i PROVE origin'[d][i] <= resolved[d] + 1
    <3>1. CASE i = Len(origin[d]) + 1
      BY <1>0, <2>3, <3>1
    <3>2. CASE i \in 1..Len(origin[d])
      <4>1. origin'[d][i] = origin[d][i] /\ origin[d][i] \in Nat /\ origin[d][i] <= resolved[d]
        BY <2>3, <2>4, <3>2 DEF OriginBehind
      <4>2. QED
        BY <1>0, <4>1
    <3>3. QED
      BY <2>3, <2>4, <3>1, <3>2
  <2>5. ASSUME NEW i \in DOMAIN origin'[d], NEW j \in DOMAIN origin'[d], resumed[d] < i, i < j
        PROVE  origin'[d][i] < origin'[d][j]
    <3>1. i \in 1..Len(origin[d])
      BY <2>3, <2>5
    <3>2. CASE j \in 1..Len(origin[d])
      <4>1. origin[d][i] < origin[d][j]
        BY <2>3, <2>5, <3>1, <3>2 DEF OnceInOrderPerJoin
      <4>2. QED
        BY <2>3, <3>1, <3>2, <4>1
    <3>3. CASE j = Len(origin[d]) + 1
      <4>1. origin'[d][i] = origin[d][i] /\ origin[d][i] \in Nat /\ origin[d][i] <= resolved[d]
        BY <2>3, <2>5, <3>1 DEF OriginBehind
      <4>2. QED
        BY <1>0, <2>3, <3>3, <4>1
    <3>4. QED
      BY <2>3, <2>5, <3>2, <3>3
  <2>6. OriginBehind'
    <3>1. ASSUME NEW c \in Domains, NEW i \in DOMAIN origin'[c], resumed[c] < i
          PROVE  origin'[c][i] <= resolved'[c]
      BY <2>2, <2>4, <3>1 DEF OriginBehind
    <3>2. QED
      BY <2>1, <3>1 DEF OriginBehind
  <2>7. OnceInOrderPerJoin'
    <3>1. ASSUME NEW c \in Domains, NEW i \in DOMAIN origin'[c], NEW j \in DOMAIN origin'[c],
                 resumed[c] < i, i < j
          PROVE  origin'[c][i] < origin'[c][j]
      BY <2>2, <2>5, <3>1 DEF OnceInOrderPerJoin
    <3>2. QED
      BY <2>1, <3>1 DEF OnceInOrderPerJoin
  <2>8. QED
    BY <2>6, <2>7
<1>3. ASSUME NEW d \in Domains, Refuse(d) \/ AddFailed(d)
      PROVE  OriginBehind' /\ OnceInOrderPerJoin'
  <2>1. /\ resolved' = [resolved EXCEPT ![d] = @ + 1]
        /\ UNCHANGED <<resumed, origin>>
    BY <1>3 DEF Refuse, AddFailed, joins
  <2>2. \A c \in Domains : resolved'[c] >= resolved[c] /\ resolved'[c] \in Nat
    BY <1>0, <2>1 DEF Handlers
  <2>3. QED
    BY <1>1, <2>1, <2>2
<1>4. CASE Crash \/ Rejoin
  <2>1. origin' = origin /\ \A d \in Domains : resumed'[d] = Len(origin[d])
    BY <1>4 DEF Crash, Rejoin, JoinGroup
  <2>2. \A d \in Domains : \A i \in DOMAIN origin'[d] : ~(resumed'[d] < i)
    BY <1>0, <2>1
  <2>3. QED
    BY <2>2 DEF OriginBehind, OnceInOrderPerJoin
<1>5. CASE UNCHANGED <<resumed, origin, resolved>>
  BY <1>0, <1>1, <1>5
<1>6. ASSUME NEW d \in Domains, \/ StartMessage(d) \/ AutoCommit(d)
                                \/ \E ts \in Timestamps : Produce(d, ts)
      PROVE  OriginBehind' /\ OnceInOrderPerJoin'
  BY <1>5, <1>6 DEF StartMessage, AutoCommit, Produce, joins
<1>7. CASE LoopRead \/ LoopBlock \/ LoopTimeout
  BY <1>5, <1>7 DEF LoopRead, LoopBlock, LoopTimeout, ingest, joins
<1>8. CASE UNCHANGED allVars
  BY <1>5, <1>8 DEF allVars, ingest, joins
<1>9. QED
  BY <1>2, <1>3, <1>4, <1>6, <1>7, <1>8 DEF IngestNext

LEMMA IngestInvariance == IngestSpec => []IngestInv
<1>1. IngestInit => IngestInv
  BY IngestInitInv
<1>2. IngestInv /\ [IngestNext]_allVars => IngestInv'
  BY IngestWindowInv, HandlersKept, ResolvedIsHandledKept, OrderKept DEF IngestInv
<1>3. QED
  BY <1>1, <1>2, PTL DEF IngestSpec

------------------------------------------------------------------------------
\* No message below a committed offset was left out: kafkajs commits what the
\* handlers of ingestConsumers.ts returned from.
THEOREM NothingSkipped == IngestSpec => []CommittedIsStreamed
<1>1. IngestInv => CommittedIsStreamed
  BY DEF IngestInv
<1>2. QED
  BY <1>1, IngestInvariance, PTL

\* Each time the consumer joins its group, crashed or running, it copies every message at
\* most once and in topic order.
THEOREM CopiedInOrder == IngestSpec => []OnceInOrderPerJoin
<1>1. IngestInv => OnceInOrderPerJoin
  BY DEF IngestInv
<1>2. QED
  BY <1>1, IngestInvariance, PTL

\* Handlers, loop and Kafka drive the window as it stands: IngestSpec implements Spec but
\* for its fairness, an XADD that is served being publishToStream and a read that returns
\* poll.  What is safe of the window alone is safe behind the shared connection too.
THEOREM IngestDrivesWindow == IngestSpec => Init /\ [][Next]_vars
<1>1. IngestInit => Init
  BY DEF IngestInit
<1>2. IngestInv /\ [IngestNext]_allVars => [Next]_vars
  BY IngestStepsWindow
<1>3. QED
  BY <1>1, <1>2, IngestInvariance, PTL DEF IngestSpec

\* The window keeps its promises behind the shared connection too: nothing read
\* is lost or repeated, nothing releasable is held, and the output is in order.
THEOREM WindowBehindIngest ==
  IngestSpec => [](/\ NothingLostOrRepeated
                   /\ OnlyNewerThanWatermarkHeld
                   /\ InOrderUnlessLateOrFlushed)
<1>1. IngestInv => /\ NothingLostOrRepeated
                   /\ OnlyNewerThanWatermarkHeld
                   /\ InOrderUnlessLateOrFlushed
  BY DEF IngestInv, Inv, Split
<1>2. QED
  BY <1>1, IngestInvariance, PTL

===============================================================================
