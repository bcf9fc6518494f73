--------------------------- MODULE CvInferenceProofs ---------------------------
(***************************************************************************)
(* An upload that was answered is not undone by an earlier one, and no swap*)
(* drops a frame, for any number of uploads, however they overlap with one *)
(* another, with frames and with restarts; and an identity stands for one  *)
(* target, for any detections, scores and limits.                          *)
(*                                                                         *)
(* Then, of ingest-svc: what requests are told, how frames are numbered,   *)
(* whose clock is looked at, and that a stream cut into any chunks is put  *)
(* together again.                                                         *)
(***************************************************************************)
EXTENDS CvInference, IngestAdapters, FiniteSetTheorems, SequenceTheorems, WellFoundedInduction, TLAPS

UploadsTyped ==
    uploads \in [Uploads -> [kind: Kinds, step: {"idle", "staged", "loaded", "swapped", "over"},
                             answer: {"none", "200", "400", "500"}]]

\* Only an upload that has been swapped in is told 200, and it is swapped in once.
AnsweredIsSwapped ==
    \A u \in Uploads : uploads[u].answer = "200" => uploads[u].step = "swapped"

\* What AcceptedStands says of an upload from its swap on: the pairs of before are of
\* an upload that is done with and one that was not there yet.
SwappedStands ==
    \A a, b \in Uploads :
        <<a, b>> \in before =>
            /\ uploads[a].answer = "200"
            /\ uploads[b].step = "swapped" => model # a

Inv == UploadsTyped /\ AnsweredIsSwapped /\ SwappedStands

\* At first no upload was made.
LEMMA InitInv == CvInit => Inv
BY DEF CvInit, Inv, UploadsTyped, AnsweredIsSwapped, SwappedStands, Idle, Kinds

\* The steps of an upload keep the invariant.
LEMMA UploadInv ==
    ASSUME NEW u \in Uploads, Inv, Upload(u) \/ Validate(u) \/ Swap(u) \/ Answer(u)
    PROVE  Inv'
<1>1. CASE Upload(u)
  <2>1. /\ uploads[u] = Idle
        /\ model' = model
        /\ before' = before \cup {<<a, u>> : a \in {a \in Uploads : uploads[a].answer = "200"}}
        /\ \A v \in Uploads : v # u => uploads'[v] = uploads[v]
        /\ uploads'[u].step # "swapped" /\ uploads'[u].answer # "200"
    BY <1>1 DEF Upload, Inv, UploadsTyped
  <2>2. UploadsTyped'
    BY <1>1 DEF Upload, Inv, UploadsTyped
  <2>3. uploads[u].answer # "200"
    BY <2>1 DEF Idle
  <2> QED BY <2>1, <2>2, <2>3 DEF Inv, AnsweredIsSwapped, SwappedStands
<1>2. CASE Validate(u)
  BY <1>2 DEF Validate, Inv, UploadsTyped, AnsweredIsSwapped, SwappedStands
<1>3. CASE Swap(u)
  <2>1. uploads[u].step = "loaded" /\ before' = before
    BY <1>3 DEF Swap
  <2>2. \A v \in Uploads : v # u => uploads'[v] = uploads[v]
    BY <1>3 DEF Swap, Inv, UploadsTyped
  <2>3. UploadsTyped'
    BY <1>3 DEF Swap, Inv, UploadsTyped
  <2>4. AnsweredIsSwapped'
    BY <1>3, <2>1, <2>2 DEF Swap, Inv, UploadsTyped, AnsweredIsSwapped
  <2>5. SwappedStands'
    BY <1>3, <2>1, <2>2 DEF Swap, Inv, UploadsTyped, AnsweredIsSwapped, SwappedStands
  <2> QED BY <2>3, <2>4, <2>5 DEF Inv
<1>4. CASE Answer(u)
  BY <1>4 DEF Answer, Inv, UploadsTyped, AnsweredIsSwapped, SwappedStands
<1> QED BY <1>1, <1>2, <1>3, <1>4

\* Frames leave the uploads alone, and a restart forgets them.
LEMMA NextInv == Inv /\ [CvNext]_cvVars => Inv'
<1> SUFFICES ASSUME Inv, [CvNext]_cvVars PROVE Inv'
  OBVIOUS
<1>1. CASE UNCHANGED <<model, uploads, before>>
  BY <1>1 DEF Inv, UploadsTyped, AnsweredIsSwapped, SwappedStands
<1>2. CASE \E u \in Uploads : Upload(u) \/ Validate(u) \/ Swap(u) \/ Answer(u)
  BY <1>2, UploadInv
<1>3. CASE BeginFrame \/ EndFrame
  BY <1>1, <1>3 DEF BeginFrame, EndFrame
<1>4. CASE Restart
  BY <1>4 DEF Restart, Inv, UploadsTyped, AnsweredIsSwapped, SwappedStands, Idle, Kinds
<1>5. CASE UNCHANGED cvVars
  BY <1>1, <1>5 DEF cvVars, modelVars
<1> QED BY <1>2, <1>3, <1>4, <1>5 DEF CvNext

\* Once an upload is answered, none that was answered before it began is in use
\* (models.ts:58).
THEOREM AnsweredUploadStands == CvSpec => []AcceptedStands
<1>1. Inv => AcceptedStands
  BY DEF Inv, AnsweredIsSwapped, SwappedStands, AcceptedStands
<1> QED BY <1>1, InitInv, NextInv, PTL DEF CvSpec

------------------------------------------------------------------------------
\* The frame in hand ends by reaching the tracker, or with the process.
THEOREM NoFrameDropped == CvSpec => SwapDropsNoFrame
<1>1. CvInit => failures \in Nat
  BY DEF CvInit, Init
<1>2. failures \in Nat /\ [CvNext]_cvVars => (failures \in Nat)'
  <2> SUFFICES ASSUME failures \in Nat, [CvNext]_cvVars PROVE failures' \in Nat
    OBVIOUS
  <2>1. ASSUME NEW D, NEW score, ProcessFrame(D, score) PROVE failures' \in Nat
    BY <2>1 DEF ProcessFrame
  <2>2. CASE EndFrame
    BY <2>1, <2>2 DEF EndFrame, vars
  <2>3. CASE Restart
    BY <2>3 DEF Restart, Crash
  <2>4. CASE ~EndFrame /\ ~Restart
    <3>1. ASSUME NEW u \in Uploads, Swap(u) PROVE failures' \in Nat
      BY <3>1 DEF Swap, vars
    <3>2. CASE ~\E u \in Uploads : Swap(u)
      BY <2>4, <3>2 DEF CvNext, cvVars, vars, Upload, Validate, Answer, BeginFrame
    <3> QED BY <3>1, <3>2
  <2> QED BY <2>2, <2>3, <2>4
<1>3. failures \in Nat /\ [CvNext]_cvVars =>
        [frame # NoFrame /\ Detects(frame) /\ frame' = NoFrame =>
            frames' = frames + 1 \/ failures' > failures]_cvVars
  <2> SUFFICES ASSUME failures \in Nat, CvNext,
                      frame # NoFrame, Detects(frame), frame' = NoFrame
               PROVE  frames' = frames + 1 \/ failures' > failures
    BY DEF cvVars, modelVars
  <2>1. CASE EndFrame
    BY <2>1 DEF EndFrame, ReadWith, ProcessFrame
  <2>2. CASE Restart
    BY <2>2 DEF Restart, Crash
  <2> QED BY <2>1, <2>2 DEF CvNext, Upload, Validate, Swap, Answer, BeginFrame
<1> QED BY <1>1, <1>2, <1>3, PTL DEF CvSpec, SwapDropsNoFrame

------------------------------------------------------------------------------
\* A track of the tracker's list.
Entry == [missed: Nat, hits: Nat \ {0}]

\* Every track in the list was given its id since the service started, and was
\* matched in no frame to come.
TracksTyped ==
    /\ tracks \in [TrackIds -> Entry \cup {NoTrack}]
    /\ seen \in [TrackIds -> Nat] /\ frames \in Nat
    /\ used \subseteq TrackIds
    /\ \A t \in TrackIds : tracks[t] # NoTrack => t \in used
    /\ \A t \in used : seen[t] <= frames

\* Inductive: SurvivesOcclusion counts from seen, the tracker from missed.
IdentityInv == TracksTyped /\ SurvivesOcclusion /\ EveryDetectionOnce

\* The limits are numbers, and no detection is taken for no detection.
LEMMA Limits == MaxMissed \in Nat /\ MinHits \in Nat \ {0} /\ <<>> \notin Detections
BY TrackingAssumption DEF TrackingAssumption

\* A track that was matched or has just begun is one.
LEMMA MatchedTyped ==
    ASSUME NEW track \in Entry \cup {NoTrack}
    PROVE  Matched(track) \in Entry /\ Matched(track) # NoTrack /\ Matched(track).missed = 0
BY DEF Entry, NoTrack, Matched

\* A track that was not matched is dropped at the limit, or one frame older.
LEMMA AgedTyped ==
    ASSUME NEW track \in Entry \cup {NoTrack}
    PROVE  /\ Aged(track) \in Entry \cup {NoTrack}
           /\ Aged(track) # NoTrack <=> track # NoTrack /\ track.missed + 1 <= MaxMissed
           /\ Aged(track) # NoTrack => Aged(track).missed = track.missed + 1
<1>1. CASE track = NoTrack
  BY <1>1 DEF Aged
<1>2. CASE track \in Entry /\ track # NoTrack
  <2>1. track.missed \in Nat /\ track.hits \in Nat \ {0}
    BY <1>2 DEF Entry
  <2>2. [track EXCEPT !.missed = @ + 1] \in Entry
    BY <1>2 DEF Entry
  <2>3. [track EXCEPT !.missed = @ + 1] # NoTrack
        /\ [track EXCEPT !.missed = @ + 1].missed = track.missed + 1
    BY <1>2, <2>1 DEF Entry, NoTrack
  <2> QED BY <1>2, <2>1, <2>2, <2>3, Limits DEF Aged
<1> QED BY <1>1, <1>2

\* What a frame does to the tracks: those matched are as of this frame, those begun
\* have ids of their own, and the others age.
LEMMA FrameAges ==
    ASSUME IdentityInv, NEW hit \in SUBSET Tracks, NEW new \in SUBSET (TrackIds \ used),
           tracks' = [t \in TrackIds |->
                        IF t \in hit \cup new THEN Matched(tracks[t]) ELSE Aged(tracks[t])],
           used' = used \cup new, frames' = frames + 1,
           seen' = [t \in TrackIds |-> IF t \in hit \cup new THEN frames + 1 ELSE seen[t]]
    PROVE  TracksTyped' /\ SurvivesOcclusion'
<1>1. TracksTyped /\ SurvivesOcclusion /\ hit \subseteq used
  BY DEF IdentityInv, TracksTyped, Tracks
<1>2. ASSUME NEW t \in TrackIds, t \in hit \cup new
      PROVE  /\ tracks'[t] \in Entry /\ tracks'[t] # NoTrack /\ tracks'[t].missed = 0
             /\ seen'[t] = frames + 1 /\ t \in used'
  BY <1>1, <1>2, MatchedTyped DEF TracksTyped
<1>3. ASSUME NEW t \in TrackIds, t \notin hit \cup new
      PROVE  /\ tracks'[t] \in Entry \cup {NoTrack}
             /\ tracks'[t] # NoTrack <=> tracks[t] # NoTrack /\ tracks[t].missed + 1 <= MaxMissed
             /\ tracks'[t] # NoTrack => tracks'[t].missed = tracks[t].missed + 1
             /\ seen'[t] = seen[t] /\ t \in used' <=> t \in used
  BY <1>1, <1>3, AgedTyped DEF TracksTyped
<1>4. TracksTyped'
  <2>1. tracks' \in [TrackIds -> Entry \cup {NoTrack}] /\ used' \subseteq TrackIds
    BY <1>1, <1>2, <1>3 DEF TracksTyped
  <2>2. seen' \in [TrackIds -> Nat] /\ frames' \in Nat
    BY <1>1 DEF TracksTyped
  <2>3. \A t \in TrackIds : tracks'[t] # NoTrack => t \in used'
    BY <1>1, <1>2, <1>3 DEF TracksTyped
  <2>4. ASSUME NEW t \in used' PROVE seen'[t] <= frames'
    <3>1. t \in TrackIds
      BY <2>1
    <3>2. seen[t] \in Nat /\ frames \in Nat /\ (t \in used => seen[t] <= frames)
      BY <1>1, <3>1 DEF TracksTyped
    <3> QED BY <1>2, <1>3, <2>4, <3>1, <3>2
  <2> QED BY <2>1, <2>2, <2>3, <2>4 DEF TracksTyped
<1>5. SurvivesOcclusion'
  <2> SUFFICES ASSUME NEW t \in used'
               PROVE  /\ tracks'[t] # NoTrack <=> frames' - seen'[t] <= MaxMissed
                      /\ tracks'[t] # NoTrack => tracks'[t].missed = frames' - seen'[t]
    BY DEF SurvivesOcclusion
  <2>1. t \in TrackIds /\ frames \in Nat /\ MaxMissed \in Nat
    BY <1>1, <1>4, Limits DEF TracksTyped
  <2>2. CASE t \in hit \cup new
    BY <1>2, <2>1, <2>2
  <2>3. CASE t \notin hit \cup new
    <3>1. /\ t \in used /\ seen[t] \in Nat /\ seen[t] <= frames
          /\ tracks[t] # NoTrack <=> frames - seen[t] <= MaxMissed
          /\ tracks[t] # NoTrack => tracks[t].missed = frames - seen[t]
      BY <1>1, <1>3, <2>1, <2>3 DEF TracksTyped, SurvivesOcclusion
    <3> QED BY <1>3, <2>1, <2>3, <3>1
  <2> QED BY <2>2, <2>3
<1> QED BY <1>4, <1>5

\* A set whose elements are all equal.
LEMMA AtMostOne ==
    ASSUME NEW S, \A x, y \in S : x = y
    PROVE  Cardinality(S) <= 1 /\ (S # {} => Cardinality(S) = 1)
<1>1. CASE S = {}
  BY <1>1, FS_EmptySet
<1>2. CASE S # {}
  <2>1. PICK x : S = {x}
    BY <1>2
  <2> QED BY <2>1, FS_Singleton
<1> QED BY <1>1, <1>2

\* A matching takes each track and each detection once, and a detection that it
\* leaves over gets a track of its own.
LEMMA FrameShows ==
    ASSUME IdentityInv, MinHits = 1, NEW D \in SUBSET Detections,
           NEW M \in SUBSET (Tracks \X D), \A m, n \in M : Share(m, n) => m = n,
           NEW spawned \in Injection(D \ {m[2] : m \in M}, TrackIds \ used),
           NEW fresh, fresh = M \cup {<<spawned[d], d>> : d \in DOMAIN spawned},
           \A c \in fresh : tracks'[c[1]] \in Entry,
           scene' = D, shown' = Confirmed(fresh, D)'
    PROVE  EveryDetectionOnce'
<1> DEFINE left == D \ {m[2] : m \in M}
<1>1. /\ spawned \in [left -> TrackIds \ used]
      /\ \A d, e \in left : spawned[d] = spawned[e] => d = e
  BY DEF Injection, IsInjective
<1>2. Tracks \subseteq used /\ used \subseteq TrackIds
  BY DEF IdentityInv, TracksTyped, Tracks
<1>3. ASSUME NEW c \in fresh
      PROVE  /\ c = <<c[1], c[2]>> /\ c[1] \in TrackIds /\ c[2] \in D
             /\ c \in M \/ (c[2] \in left /\ c[1] = spawned[c[2]] /\ c[1] \notin used)
  BY <1>1, <1>2
<1>4. ASSUME NEW c \in fresh, NEW e \in fresh, c[1] = e[1] \/ c[2] = e[2]
      PROVE  c = e
  <2>1. CASE c \in M /\ e \in M
    BY <1>4, <2>1 DEF Share
  <2>2. CASE c \notin M /\ e \notin M
    BY <1>1, <1>3, <1>4, <2>2
  <2>3. ASSUME NEW m \in M, NEW n \in fresh, n \notin M PROVE m[1] # n[1] /\ m[2] # n[2]
    <3>1. m[1] \in used
      BY <1>2
    <3>2. n[1] \notin used /\ n[2] \in left
      BY <1>3, <2>3
    <3> QED BY <3>1, <3>2
  <2> QED BY <1>4, <2>1, <2>2, <2>3
<1>5. \A d \in D : \E c \in fresh : c[2] = d
  <2> SUFFICES ASSUME NEW d \in D PROVE \E c \in fresh : c[2] = d
    OBVIOUS
  <2>1. CASE d \in left
    <3>1. <<spawned[d], d>> \in fresh
      BY <1>1, <2>1
    <3> QED BY <3>1
  <2>2. CASE d \notin left
    BY <2>2
  <2> QED BY <2>1, <2>2
<1> HIDE DEF left
<1>6. ASSUME NEW c
      PROVE  c \in shown' <=>
                /\ c \in Tracks' \X (D \cup {<<>>})
                /\ tracks'[c[1]].hits >= MinHits
                /\ c \in fresh \/ (c[2] = <<>> /\ \A m \in fresh : m[1] # c[1])
  BY DEF Confirmed
<1>7. <<>> \notin D
  BY Limits
<1>8. ASSUME NEW t, NEW d \in D PROVE <<t, d>> \in shown' <=> <<t, d>> \in fresh
  <2>1. ASSUME <<t, d>> \in fresh PROVE <<t, d>> \in shown'
    <3>1. t \in TrackIds /\ tracks'[t] \in Entry
      BY <1>3, <2>1
    <3>2. tracks'[t].hits >= MinHits /\ t \in Tracks'
      BY <3>1 DEF Entry, NoTrack, Tracks
    <3> QED BY <1>6, <2>1, <3>2
  <2> QED BY <1>6, <1>7, <2>1
<1>9. ASSUME NEW d \in D PROVE Cardinality({t \in TrackIds : <<t, d>> \in shown'}) = 1
  <2> DEFINE S == {t \in TrackIds : <<t, d>> \in shown'}
  <2>1. \A x, y \in S : x = y
    <3> SUFFICES ASSUME NEW x \in S, NEW y \in S PROVE x = y
      OBVIOUS
    <3>1. <<x, d>> \in fresh /\ <<y, d>> \in fresh
      BY <1>8
    <3>2. <<x, d>> = <<y, d>>
      BY <1>4, <3>1
    <3> QED BY <3>2
  <2>2. S # {}
    <3>1. PICK c \in fresh : c[2] = d
      BY <1>5
    <3>2. c[1] \in TrackIds /\ <<c[1], d>> \in fresh
      BY <1>3, <3>1
    <3> QED BY <1>8, <3>2
  <2> QED BY <2>1, <2>2, AtMostOne
<1>10. ASSUME NEW t \in TrackIds
       PROVE  Cardinality({d \in D \cup {<<>>} : <<t, d>> \in shown'}) <= 1
  <2> DEFINE S == {d \in D \cup {<<>>} : <<t, d>> \in shown'}
  <2>1. \A x, y \in S : x = y
    <3> SUFFICES ASSUME NEW x \in S, NEW y \in S PROVE x = y
      OBVIOUS
    <3>1. ASSUME NEW d \in S
          PROVE  <<t, d>> \in fresh \/ (d = <<>> /\ \A m \in fresh : m[1] # t)
      BY <1>6
    <3>2. CASE <<t, x>> \in fresh /\ <<t, y>> \in fresh
      <4>1. <<t, x>> = <<t, y>>
        BY <1>4, <3>2
      <4> QED BY <4>1
    <3>3. ASSUME NEW d \in S, <<t, d>> \in fresh, \A m \in fresh : m[1] # t PROVE FALSE
      BY <3>3
    <3> QED BY <3>1, <3>2, <3>3
  <2> QED BY <2>1, AtMostOne
<1> QED BY <1>9, <1>10 DEF EveryDetectionOnce

\* A frame, and a crash, keep the invariant of the tracker.
LEMMA FrameInv ==
    ASSUME MinHits = 1, IdentityInv, NEW D \in SUBSET Detections, NEW score \in Scores(D),
           ProcessFrame(D, score)
    PROVE  IdentityInv'
<1>0. PICK M \in Associations(score) :
         \E spawned \in Injection(D \ {m[2] : m \in M}, TrackIds \ used) :
          LET hit == {m[1] : m \in M}
              new == Range(spawned)
              fresh == M \cup {<<spawned[d], d>> : d \in DOMAIN spawned}
          IN  /\ tracks' = [t \in TrackIds |->
                     IF t \in hit \cup new THEN Matched(tracks[t]) ELSE Aged(tracks[t])]
              /\ shown' = Confirmed(fresh, D)'
              /\ used' = used \cup new
              /\ seen' = [t \in TrackIds |-> IF t \in hit \cup new THEN frames + 1 ELSE seen[t]]
  BY DEF ProcessFrame
<1>1. PICK spawned \in Injection(D \ {m[2] : m \in M}, TrackIds \ used) :
          LET hit == {m[1] : m \in M}
              new == Range(spawned)
              fresh == M \cup {<<spawned[d], d>> : d \in DOMAIN spawned}
          IN  /\ tracks' = [t \in TrackIds |->
                     IF t \in hit \cup new THEN Matched(tracks[t]) ELSE Aged(tracks[t])]
              /\ shown' = Confirmed(fresh, D)'
              /\ used' = used \cup new
              /\ seen' = [t \in TrackIds |-> IF t \in hit \cup new THEN frames + 1 ELSE seen[t]]
  BY <1>0
<1> DEFINE hit == {m[1] : m \in M}
           new == Range(spawned)
           fresh == M \cup {<<spawned[d], d>> : d \in DOMAIN spawned}
<1>2. M \in SUBSET (Tracks \X D) /\ \A m, n \in M : Share(m, n) => m = n
  BY DEF Associations, Scores
<1>3. hit \in SUBSET Tracks /\ new \in SUBSET (TrackIds \ used)
  BY <1>2 DEF Injection, Range
<1>4. TracksTyped' /\ SurvivesOcclusion'
  BY <1>1, <1>3, FrameAges, ZenonT(30) DEF ProcessFrame
<1>5. ASSUME NEW c \in fresh PROVE tracks'[c[1]] \in Entry
  <2>1. c[1] \in hit \cup new
    BY <1>2 DEF Range
  <2>2. c[1] \in TrackIds
    BY <1>3, <2>1 DEF Tracks
  <2>3. tracks[c[1]] \in Entry \cup {NoTrack}
    BY <2>2 DEF IdentityInv, TracksTyped
  <2> QED BY <1>1, <2>1, <2>2, <2>3, MatchedTyped
<1>6. scene' = D /\ shown' = Confirmed(fresh, D)'
  BY <1>1 DEF ProcessFrame
<1> HIDE DEF hit, new
<1>7. EveryDetectionOnce'
  BY <1>2, <1>5, <1>6, FrameShows
<1> QED BY <1>4, <1>7 DEF IdentityInv

\* The tracker starts empty, and a crash empties it.
LEMMA EmptyInv ==
    ASSUME tracks = [t \in TrackIds |-> NoTrack], sent = FALSE, used = {}, seen = Zero,
           frames \in Nat
    PROVE  IdentityInv
BY DEF IdentityInv, TracksTyped, SurvivesOcclusion, EveryDetectionOnce, Zero

\* The uploads, and a failed swap, leave the tracker alone.
LEMMA IdentityNext ==
    ASSUME MinHits = 1 PROVE IdentityInv /\ [CvNext]_cvVars => IdentityInv'
<1> SUFFICES ASSUME IdentityInv, [CvNext]_cvVars PROVE IdentityInv'
  OBVIOUS
<1>1. CASE UNCHANGED <<tracks, scene, shown, sent, frames, used, seen>>
  BY <1>1 DEF IdentityInv, TracksTyped, SurvivesOcclusion, EveryDetectionOnce
<1>2. CASE \E D \in SUBSET Detections : \E score \in Scores(D) : ProcessFrame(D, score)
  BY <1>2, FrameInv
<1>3. CASE Crash
  <2>1. frames \in Nat
    BY DEF IdentityInv, TracksTyped
  <2> QED BY <1>3, <2>1, EmptyInv DEF Crash, IdentityInv, TracksTyped, SurvivesOcclusion,
             EveryDetectionOnce, Zero
<1> QED BY <1>1, <1>2, <1>3 DEF CvNext, cvVars, vars, Upload, Validate, Swap, Answer, BeginFrame,
           EndFrame, Restart

\* With the tracker's default of one hit to confirm, every detection of a frame is
\* published by one track and no track stands for two; and a track survives exactly
\* as many frames without a detection as maxMissedFrames says
\* (deepSortTracker.ts's step), for any detections and however well they overlap.
THEOREM OneTargetPerIdentity == ASSUME MinHits = 1 PROVE CvSpec => []IdentityKept
<1>1. CvInit => IdentityInv
  <2> SUFFICES ASSUME Init PROVE IdentityInv
    BY DEF CvInit
  <2>1. /\ tracks = [t \in TrackIds |-> NoTrack] /\ sent = FALSE /\ used = {} /\ seen = Zero
        /\ frames \in Nat
    BY DEF Init
  <2> QED BY <2>1, EmptyInv
<1>2. IdentityInv /\ [CvNext]_cvVars => IdentityInv'
  BY IdentityNext
<1>3. IdentityInv => IdentityKept
  BY DEF IdentityInv, IdentityKept
<1> QED BY <1>1, <1>2, <1>3, PTL DEF CvSpec

------------------------------------------------------------------------------
(* The adapters of ingest-svc that take up messages, requests and files.   *)

\* The items and the jobs of the adapters that read no stream.
Items == CASE kind = "mqtt" -> Messages [] kind = "http" -> Requests [] kind = "geotiff" -> Files
Outcomes == {"none", "reported", "400", "401", "202", "500", "published"}
JobType == [item: Items, number: Nat, pc: {"settling", "sending", "done"}, outcome: Outcomes]
AdaptersTyped ==
    /\ kind \in {"mqtt", "http", "geotiff"} /\ ~connected
    /\ numbers \in [Devices -> Nat]
    /\ jobs \in Seq(JobType)
    /\ topic \in Seq(DOMAIN jobs)

\* What a job is sent for was found in order; what the topic has was sent, and whoever
\* was told so is on the topic.
SentInOrder ==
    \A j \in DOMAIN jobs :
        /\ jobs[j].pc = "settling" => kind = "geotiff"
        /\ jobs[j].pc = "sending" =>
              jobs[j].outcome = "none" /\ (kind # "geotiff" => Outcome(jobs[j].item) = "send")
        /\ jobs[j].outcome = "202" => j \in ToSet(topic)
        /\ j \in ToSet(topic) =>
              /\ jobs[j].pc = "done"
              /\ kind # "geotiff" => Outcome(jobs[j].item) = "send"
              /\ kind = "http" => jobs[j].outcome \in {"202", "500"}

\* No request is under way once the producer is gone.
AllAnswered == (kind = "http" /\ phase \in {"disconnected", "exited"}) => Waiting("sending") = {}

\* The number of a device is the highest of its frames; only phones number theirs.
NumbersGiven ==
    \A j \in DOMAIN jobs : jobs[j].number > 0 =>
        /\ kind = "http" /\ jobs[j].item.device \in Devices
        /\ jobs[j].number <= numbers[jobs[j].item.device]

AdaptersInv ==
    kind \notin Streams =>
        AdaptersTyped /\ SentInOrder /\ AllAnswered /\ NumbersGiven /\ FrameNumbersRise

LEMMA NoStream ==
    kind \in Adapters /\ kind \notin Streams => kind \in {"mqtt", "http", "geotiff"}
BY AdaptersAssumption DEF Streams

\* How a life of the service begins.
Begun ==
    /\ source \in Feeds(kind) /\ at = 0 /\ buffer = <<>> /\ connected = (kind \in Streams)
    /\ numbers = [d \in Devices |-> 0] /\ jobs = <<>> /\ topic = <<>> /\ torn = {}
    /\ phase = "running"

LEMMA BegunInv == Begun /\ kind \in Adapters => AdaptersInv
<1> SUFFICES ASSUME Begun, kind \in {"mqtt", "http", "geotiff"}
             PROVE  AdaptersTyped /\ SentInOrder /\ AllAnswered /\ NumbersGiven /\ FrameNumbersRise
  BY NoStream DEF AdaptersInv
<1>1. /\ jobs = <<>> /\ topic = <<>> /\ phase = "running"
      /\ numbers = [d \in Devices |-> 0]
  BY DEF Begun
<1>2. ~connected
  <2>1. connected = (kind \in Streams) /\ kind \notin Streams
    BY DEF Begun, Streams
  <2> QED BY <2>1, Zenon
<1>3. AdaptersTyped
  <2>1. numbers \in [Devices -> Nat]
    BY <1>1
  <2> QED BY <1>1, <1>2, <2>1 DEF AdaptersTyped
<1> QED BY <1>1, <1>3 DEF SentInOrder, AllAnswered, NumbersGiven, FrameNumbersRise

LEMMA AdaptersInitInv == AdaptersInit => AdaptersInv
<1>1. AdaptersInit => Begun /\ kind \in Adapters
  BY Zenon DEF AdaptersInit, Begun
<1> QED BY <1>1, BegunInv

\* What becomes of a message or of a request before it is sent.
LEMMA OutcomeKnown ==
    ASSUME kind \in {"mqtt", "http"}, NEW item PROVE Outcome(item) \in {"send", "reported", "400", "401"}
<1>1. MessageOutcome(item) \in {"send", "reported"}
  BY DEF MessageOutcome
<1>2. TelemetryOutcome(item) \in {"send", "400", "401"}
  BY DEF TelemetryOutcome
<1>3. SnapshotOutcome(item) \in {"send", "400", "401"}
  BY DEF SnapshotOutcome, FrameOutcome, SnapshotRefused
<1> QED BY <1>1, <1>2, <1>3 DEF Outcome

LEMMA TakenTyped ==
    ASSUME kind \in {"mqtt", "http"}, NEW item \in Items, NEW n \in Nat, NEW new, new = Taken(item, n)
    PROVE  /\ new \in JobType /\ new.item = item /\ new.number = n /\ new.outcome # "202"
           /\ new.pc \in {"sending", "done"}
           /\ new.pc = "sending" => new.outcome = "none" /\ Outcome(item) = "send"
<1>1. PICK o \in {"send", "reported", "400", "401"} : o = Outcome(item)
  BY OutcomeKnown
<1>2. new = [item |-> item, number |-> n, pc |-> IF o = "send" THEN "sending" ELSE "done",
             outcome |-> IF o = "send" THEN "none" ELSE o]
  BY <1>1 DEF Taken
<1> QED BY <1>1, <1>2 DEF JobType, Outcomes

\* A job more: it is on no topic yet.
LEMMA JobAdded ==
    ASSUME AdaptersTyped, SentInOrder, kind' = kind, NEW new \in JobType,
           UNCHANGED <<connected, topic>>, numbers' \in [Devices -> Nat],
           jobs' = Append(jobs, new), NEW n \in Nat, n = Len(jobs), new.outcome # "202",
           new.pc = "settling" => kind = "geotiff",
           new.pc = "sending" =>
              new.outcome = "none" /\ (kind # "geotiff" => Outcome(new.item) = "send")
    PROVE  /\ AdaptersTyped' /\ SentInOrder'
           /\ DOMAIN jobs = 1..n /\ DOMAIN jobs' = 1..(n + 1)
           /\ \A j \in 1..n : jobs'[j] = jobs[j]
           /\ jobs'[n + 1] = new
<1>1. /\ jobs' \in Seq(JobType) /\ DOMAIN jobs = 1..n /\ DOMAIN jobs' = 1..(n + 1)
      /\ \A j \in 1..n : jobs'[j] = jobs[j]
      /\ jobs'[n + 1] = new
  <2>1. jobs \in Seq(JobType)
    BY DEF AdaptersTyped
  <2> QED BY <2>1
<1>2. JobType' = JobType /\ \A item : Outcome(item)' = Outcome(item)
  <2>1. Items' = Items
    BY DEF Items
  <2> QED BY <2>1 DEF JobType, Outcome
<1>3. topic' \in Seq(DOMAIN jobs')
  <2>1. topic \in Seq(1..n)
    BY <1>1 DEF AdaptersTyped
  <2>2. 1..n \subseteq 1..(n + 1)
    OBVIOUS
  <2> QED BY <1>1, <2>1, <2>2
<1>4. AdaptersTyped'
  BY <1>1, <1>2, <1>3 DEF AdaptersTyped
<1>5. ToSet(topic') = ToSet(topic) /\ ToSet(topic) \subseteq 1..n
  BY <1>1 DEF AdaptersTyped, ToSet
<1>6. SentInOrder'
  <2>1. ASSUME NEW j \in 1..(n + 1)
        PROVE  /\ jobs'[j].pc = "settling" => kind = "geotiff"
               /\ jobs'[j].pc = "sending" =>
                     jobs'[j].outcome = "none" /\ (kind # "geotiff" => Outcome(jobs'[j].item) = "send")
               /\ jobs'[j].outcome = "202" => j \in ToSet(topic)
               /\ j \in ToSet(topic) =>
                     /\ jobs'[j].pc = "done"
                     /\ kind # "geotiff" => Outcome(jobs'[j].item) = "send"
                     /\ kind = "http" => jobs'[j].outcome \in {"202", "500"}
    <3>1. CASE j \in 1..n
      BY <1>1, <3>1 DEF SentInOrder
    <3>2. CASE j = n + 1
      BY <1>1, <1>5, <3>2
    <3> QED BY <3>1, <3>2
  <2>2. \A j \in DOMAIN jobs' : Outcome(jobs[j].item)' = Outcome(jobs'[j].item)
    BY DEF Outcome
  <2> QED BY <1>1, <1>5, <2>1, <2>2 DEF SentInOrder
<1> QED BY <1>1, <1>4, <1>6

LEMMA MessageKeeps == ASSUME AdaptersInv, NEW m \in Messages, Message(m) PROVE AdaptersInv'
<1> SUFFICES ASSUME kind' \notin Streams
             PROVE  (AdaptersTyped /\ SentInOrder /\ AllAnswered /\ NumbersGiven /\ FrameNumbersRise)'
  BY DEF AdaptersInv, Streams
<1>1. /\ kind = "mqtt" /\ UNCHANGED <<kind, connected, topic, numbers, phase>>
      /\ jobs' = Append(jobs, Taken(m, 0))
  BY DEF Message
<1>2. AdaptersTyped /\ SentInOrder /\ AllAnswered /\ NumbersGiven /\ FrameNumbersRise
  BY <1>1 DEF AdaptersInv, Streams
<1>3. PICK n \in Nat : n = Len(jobs)
  BY <1>2 DEF AdaptersTyped
<1>4. PICK new \in JobType : /\ new = Taken(m, 0) /\ new.item = m /\ new.number = 0 /\ new.outcome # "202"
                             /\ new.pc \in {"sending", "done"}
                             /\ new.pc = "sending" => new.outcome = "none" /\ Outcome(m) = "send"
  <2>1. m \in Items
    BY <1>1 DEF Items
  <2> QED BY <1>1, <2>1, TakenTyped
<1>5. /\ AdaptersTyped' /\ SentInOrder'
      /\ DOMAIN jobs = 1..n /\ DOMAIN jobs' = 1..(n + 1)
      /\ \A j \in 1..n : jobs'[j] = jobs[j]
      /\ jobs'[n + 1] = new
  <2>1. numbers' \in [Devices -> Nat] /\ jobs' = Append(jobs, new)
    BY <1>1, <1>2, <1>4 DEF AdaptersTyped
  <2>2. /\ new.pc = "settling" => kind = "geotiff"
        /\ new.pc = "sending" => new.outcome = "none" /\ (kind # "geotiff" => Outcome(new.item) = "send")
    BY <1>4
  <2> QED BY <1>1, <1>2, <1>3, <1>4, <2>1, <2>2, JobAdded
<1>6. \A j \in 1..(n + 1) : ~(jobs'[j].number > 0)
  <2>1. \A j \in 1..n : ~(jobs[j].number > 0)
    BY <1>1, <1>2, <1>5 DEF NumbersGiven
  <2> QED BY <1>3, <1>4, <1>5, <2>1
<1>7. NumbersGiven' /\ FrameNumbersRise'
  BY <1>5, <1>6 DEF NumbersGiven, FrameNumbersRise
<1>8. AllAnswered'
  BY <1>1 DEF AllAnswered
<1> QED BY <1>5, <1>7, <1>8

\* A frame gets the number after the highest of its device.
LEMMA RequestKeeps == ASSUME AdaptersInv, NEW r \in Requests, Request(r) PROVE AdaptersInv'
<1> SUFFICES ASSUME kind' \notin Streams
             PROVE  (AdaptersTyped /\ SentInOrder /\ AllAnswered /\ NumbersGiven /\ FrameNumbersRise)'
  BY DEF AdaptersInv, Streams
<1>1. /\ kind = "http" /\ phase = "running" /\ UNCHANGED <<kind, connected, topic, phase>>
      /\ numbers' = [d \in Devices |-> numbers[d] + (IF Numbered(r) /\ d = r.device THEN 1 ELSE 0)]
      /\ jobs' = Append(jobs, Taken(r, IF Numbered(r) THEN numbers[r.device] + 1 ELSE 0))
  BY DEF Request
<1>2. AdaptersTyped /\ SentInOrder /\ AllAnswered /\ NumbersGiven /\ FrameNumbersRise
  BY <1>1 DEF AdaptersInv, Streams
<1>3. PICK n \in Nat : n = Len(jobs)
  BY <1>2 DEF AdaptersTyped
<1>4. numbers \in [Devices -> Nat] /\ r.device \in Devices
  BY <1>2 DEF AdaptersTyped, Devices
<1>5. PICK x \in Nat : x = IF Numbered(r) THEN numbers[r.device] + 1 ELSE 0
  BY <1>4
<1>6. /\ numbers' \in [Devices -> Nat]
      /\ \A d \in Devices : numbers[d] <= numbers'[d]
      /\ x > 0 => x = numbers'[r.device] /\ x = numbers[r.device] + 1
  BY <1>1, <1>4, <1>5
<1>7. PICK new \in JobType : /\ new = Taken(r, x) /\ new.item = r /\ new.number = x /\ new.outcome # "202"
                             /\ new.pc \in {"sending", "done"}
                             /\ new.pc = "sending" => new.outcome = "none" /\ Outcome(r) = "send"
  <2>1. r \in Items
    BY <1>1 DEF Items
  <2> QED BY <1>1, <2>1, TakenTyped
<1>8. /\ AdaptersTyped' /\ SentInOrder'
      /\ DOMAIN jobs = 1..n /\ DOMAIN jobs' = 1..(n + 1)
      /\ \A j \in 1..n : jobs'[j] = jobs[j]
      /\ jobs'[n + 1] = new
  <2>1. jobs' = Append(jobs, new)
    BY <1>1, <1>5, <1>7
  <2>2. /\ new.pc = "settling" => kind = "geotiff"
        /\ new.pc = "sending" => new.outcome = "none" /\ (kind # "geotiff" => Outcome(new.item) = "send")
    BY <1>7
  <2> QED BY <1>1, <1>2, <1>3, <1>6, <1>7, <2>1, <2>2, JobAdded
<1>9. \A j \in 1..n : jobs[j].number \in Nat
  <2>1. jobs \in Seq(JobType)
    BY <1>2 DEF AdaptersTyped
  <2>2. \A j \in 1..n : jobs[j] \in JobType
    BY <1>8, <2>1
  <2> QED BY <2>2 DEF JobType
<1>10. NumbersGiven'
  <2>1. ASSUME NEW j \in 1..(n + 1), jobs'[j].number > 0
        PROVE  jobs'[j].item.device \in Devices /\ jobs'[j].number <= numbers'[jobs'[j].item.device]
    <3>1. CASE j \in 1..n
      <4>1. PICK d \in Devices : d = jobs[j].item.device /\ jobs[j].number <= numbers[d]
        BY <1>2, <1>8, <2>1, <3>1 DEF NumbersGiven
      <4>2. numbers[d] \in Nat /\ numbers'[d] \in Nat /\ numbers[d] <= numbers'[d] /\ jobs[j].number \in Nat
        BY <1>4, <1>6, <1>9, <3>1
      <4> QED BY <1>8, <3>1, <4>1, <4>2
    <3>2. CASE j = n + 1
      BY <1>4, <1>6, <1>7, <1>8, <2>1, <3>2
    <3> QED BY <3>1, <3>2
  <2> QED BY <1>1, <1>8, <2>1 DEF NumbersGiven
<1>11. FrameNumbersRise'
  <2>1. ASSUME NEW i \in 1..(n + 1), NEW j \in 1..(n + 1), i < j, jobs'[j].number > 0,
               jobs'[i].number > 0, jobs'[i].item.device = jobs'[j].item.device
        PROVE  jobs'[i].number < jobs'[j].number
    <3>1. i \in 1..n
      BY <1>3, <2>1
    <3>2. CASE j \in 1..n
      BY <1>2, <1>8, <2>1, <3>1, <3>2 DEF FrameNumbersRise
    <3>3. CASE j = n + 1
      <4>1. r.device = jobs[i].item.device /\ x > 0
        BY <1>7, <1>8, <2>1, <3>1, <3>3
      <4>2. jobs[i].number <= numbers[r.device]
        BY <1>2, <1>8, <2>1, <3>1, <4>1 DEF NumbersGiven
      <4>3. numbers[r.device] \in Nat /\ jobs[i].number \in Nat /\ x = numbers[r.device] + 1
        BY <1>4, <1>6, <1>9, <3>1, <4>1
      <4> QED BY <1>7, <1>8, <3>1, <3>3, <4>2, <4>3
    <3> QED BY <3>2, <3>3
  <2> QED BY <1>1, <1>8, <2>1 DEF FrameNumbersRise
<1>12. AllAnswered'
  BY <1>1 DEF AllAnswered
<1> QED BY <1>8, <1>10, <1>11, <1>12

\* A file event gives a job that waits for the file to settle.
LEMMA FileEventKeeps ==
    ASSUME AdaptersInv, NEW f \in Files, NEW content, FileEvent(f, content) PROVE AdaptersInv'
<1> SUFFICES ASSUME kind' \notin Streams
             PROVE  (AdaptersTyped /\ SentInOrder /\ AllAnswered /\ NumbersGiven /\ FrameNumbersRise)'
  BY DEF AdaptersInv, Streams
<1>1. /\ kind = "geotiff" /\ UNCHANGED <<kind, connected, topic, numbers, phase>>
      /\ \/ jobs' = jobs
         \/ jobs' = Append(jobs, [item |-> f, number |-> 0, pc |-> "settling", outcome |-> "none"])
  BY DEF FileEvent
<1>2. AdaptersTyped /\ SentInOrder /\ AllAnswered /\ NumbersGiven /\ FrameNumbersRise
  BY <1>1 DEF AdaptersInv, Streams
<1>3. PICK n \in Nat : n = Len(jobs)
  BY <1>2 DEF AdaptersTyped
<1>4. AllAnswered'
  BY <1>1 DEF AllAnswered
<1>5. CASE jobs' = jobs
  <2>1. AdaptersTyped'
    BY <1>1, <1>2, <1>5 DEF AdaptersTyped, JobType, Items
  <2>2. SentInOrder' /\ NumbersGiven' /\ FrameNumbersRise'
    BY <1>1, <1>2, <1>5 DEF SentInOrder, NumbersGiven, FrameNumbersRise, ToSet, Outcome
  <2> QED BY <1>4, <2>1, <2>2
<1>6. CASE jobs' = Append(jobs, [item |-> f, number |-> 0, pc |-> "settling", outcome |-> "none"])
  <2>1. PICK new \in JobType : new = [item |-> f, number |-> 0, pc |-> "settling", outcome |-> "none"]
    BY <1>1 DEF JobType, Items, Outcomes
  <2>2. /\ AdaptersTyped' /\ SentInOrder'
        /\ DOMAIN jobs = 1..n /\ DOMAIN jobs' = 1..(n + 1)
        /\ \A j \in 1..n : jobs'[j] = jobs[j]
        /\ jobs'[n + 1] = new
    <3>1. numbers' \in [Devices -> Nat] /\ jobs' = Append(jobs, new)
      BY <1>1, <1>2, <1>6, <2>1 DEF AdaptersTyped
    <3>2. new.pc = "settling" /\ new.outcome = "none"
      BY <2>1
    <3> QED BY <1>1, <1>2, <1>3, <3>1, <3>2, JobAdded
  <2>3. \A j \in 1..(n + 1) : ~(jobs'[j].number > 0)
    <3>1. \A j \in 1..n : ~(jobs[j].number > 0)
      BY <1>1, <1>2, <2>2 DEF NumbersGiven
    <3> QED BY <1>3, <2>1, <2>2, <3>1
  <2>4. NumbersGiven' /\ FrameNumbersRise'
    BY <2>2, <2>3 DEF NumbersGiven, FrameNumbersRise
  <2> QED BY <1>4, <2>2, <2>4
<1> QED BY <1>1, <1>5, <1>6

LEMMA OneReplaced ==
    ASSUME NEW T, NEW s \in Seq(T), NEW i \in 1..Len(s), NEW e \in T
    PROVE  [s EXCEPT ![i] = e] \in Seq(T)
OBVIOUS

JobSet(X, P, O) == [item: X, number: Nat, pc: P, outcome: O]

\* A job gets on: the file has settled, or the send has ended.
GetsOn(s, j, p, o) == [s EXCEPT ![j].pc = p, ![j].outcome = o]
Moves(s, t, j, p, o) ==
    /\ DOMAIN t = DOMAIN s
    /\ \A i \in DOMAIN s : t[i].item = s[i].item /\ t[i].number = s[i].number
    /\ \A i \in DOMAIN s \ {j} : t[i] = s[i]
    /\ t[j].pc = p /\ t[j].outcome = o

LEMMA JobMoves ==
    ASSUME NEW X, NEW P, NEW O, NEW T, T = JobSet(X, P, O),
           NEW s \in Seq(T), NEW j \in DOMAIN s, NEW p \in P, NEW o \in O,
           NEW t, t = GetsOn(s, j, p, o)
    PROVE  t \in Seq(T) /\ Moves(s, t, j, p, o)
<1>1. PICK n \in Nat : DOMAIN s = 1..n /\ n = Len(s)
  OBVIOUS
<1>2. PICK b \in T : b = s[j]
  <2>1. s[j] \in T
    BY ONLY s \in Seq(T), j \in DOMAIN s
  <2> QED BY <2>1
<1>3. PICK a \in T : /\ a = [[b EXCEPT !.pc = p] EXCEPT !.outcome = o]
                     /\ a.item = b.item /\ a.number = b.number /\ a.pc = p /\ a.outcome = o
  <2>1. [[b EXCEPT !.pc = p] EXCEPT !.outcome = o] \in T
    BY DEF JobSet
  <2>2. PICK a : a = [[b EXCEPT !.pc = p] EXCEPT !.outcome = o]
    OBVIOUS
  <2>3. a.item = b.item /\ a.number = b.number /\ a.pc = p /\ a.outcome = o
    BY <2>2 DEF JobSet
  <2> QED BY <2>1, <2>2, <2>3
<1>4. t = [s EXCEPT ![j] = a]
  <2>1. PICK c : c = [s EXCEPT ![j].pc = p]
    OBVIOUS
  <2>2. t = [c EXCEPT ![j].outcome = o]
    BY <2>1 DEF GetsOn
  <2>3. c = [s EXCEPT ![j] = [b EXCEPT !.pc = p]]
    BY <1>2, <2>1
  <2>4. c[j] = [b EXCEPT !.pc = p]
    BY <1>1, <2>3
  <2> QED BY <1>1, <1>3, <2>2, <2>3, <2>4
<1>5. /\ t \in Seq(T) /\ DOMAIN t = DOMAIN s /\ t[j] = a
      /\ \A i \in DOMAIN s \ {j} : t[i] = s[i]
  <2>1. t = [i \in 1..n |-> IF i = j THEN a ELSE s[i]]
    BY <1>1, <1>4
  <2>2. t \in Seq(T)
    <3>1. j \in 1..Len(s)
      BY <1>1
    <3>2. [s EXCEPT ![j] = a] \in Seq(T)
      BY <3>1, OneReplaced
    <3> QED BY <1>4, <3>2
  <2> QED BY <1>1, <2>1, <2>2
<1>6. ASSUME NEW i \in DOMAIN s PROVE t[i].item = s[i].item /\ t[i].number = s[i].number
  <2>1. CASE i = j
    BY <1>2, <1>3, <1>5, <2>1
  <2>2. CASE i # j
    BY <1>5, <2>2
  <2> QED BY <2>1, <2>2
<1> QED BY <1>3, <1>5, <1>6 DEF Moves

LEMMA JobMoved ==
    ASSUME AdaptersTyped, NEW j \in DOMAIN jobs, NEW p \in {"settling", "sending", "done"},
           NEW o \in Outcomes, jobs' = [jobs EXCEPT ![j].pc = p, ![j].outcome = o]
    PROVE  jobs' \in Seq(JobType) /\ Moves(jobs, jobs', j, p, o)
<1>1. PICK X, P, T, s, t :
        /\ X = Items /\ P = {"settling", "sending", "done"} /\ T = JobType
        /\ s = jobs /\ t = jobs'
  OBVIOUS
<1>2. T = JobSet(X, P, Outcomes) /\ p \in P
  BY <1>1 DEF JobType, JobSet
<1>3. t = GetsOn(s, j, p, o) /\ s \in Seq(T) /\ j \in DOMAIN s
  BY <1>1 DEF AdaptersTyped, GetsOn
<1>4. t \in Seq(T) /\ Moves(s, t, j, p, o)
  BY ONLY o \in Outcomes, <1>2, <1>3, JobMoves
<1> QED BY <1>1, <1>4

\* The rest of the invariant looks at items and numbers only.
LEMMA NumbersStay ==
    ASSUME AdaptersTyped, NumbersGiven, FrameNumbersRise, UNCHANGED <<kind, numbers>>,
           DOMAIN jobs' = DOMAIN jobs,
           \A i \in DOMAIN jobs : jobs'[i].item = jobs[i].item /\ jobs'[i].number = jobs[i].number
    PROVE  NumbersGiven' /\ FrameNumbersRise' /\ JobType' = JobType
           /\ \A i \in DOMAIN jobs : Outcome(jobs[i].item)' = Outcome(jobs[i].item)
<1>1. NumbersGiven'
  BY DEF NumbersGiven
<1>2. FrameNumbersRise'
  BY DEF FrameNumbersRise
<1>3. JobType' = JobType
  BY DEF JobType, Items
<1>4. ASSUME NEW i \in DOMAIN jobs PROVE Outcome(jobs[i].item)' = Outcome(jobs[i].item)
  <2>1. PICK item : item = jobs[i].item /\ jobs'[i].item = item
    OBVIOUS
  <2> QED BY <2>1 DEF Outcome
<1> QED BY <1>1, <1>2, <1>3, <1>4

\* The timer of a file runs out.
LEMMA SettleKeeps == ASSUME AdaptersInv, NEW j \in DOMAIN jobs, Settle(j) PROVE AdaptersInv'
<1> SUFFICES ASSUME kind' \notin Streams
             PROVE  (AdaptersTyped /\ SentInOrder /\ AllAnswered /\ NumbersGiven /\ FrameNumbersRise)'
  BY DEF AdaptersInv, Streams
<1>1. /\ UNCHANGED <<kind, connected, topic, numbers, phase>>
      /\ j \in Waiting("settling")
  BY DEF Settle
<1>2. AdaptersTyped /\ SentInOrder /\ AllAnswered /\ NumbersGiven /\ FrameNumbersRise
  BY <1>1 DEF AdaptersInv, Streams
<1>3. jobs[j].pc = "settling" /\ kind = "geotiff"
  BY <1>1, <1>2 DEF Waiting, SentInOrder
<1>4. PICK p \in {"sending", "done"}, o \in Outcomes :
        /\ p = "sending" => o = "none" 
        /\ o # "202"
        /\ jobs' = [jobs EXCEPT ![j].pc = p, ![j].outcome = o]
  <2>1. PICK read \in BOOLEAN :
          jobs' = [jobs EXCEPT ![j].pc = IF read THEN "sending" ELSE "done",
                               ![j].outcome = IF read THEN "none" ELSE "reported"]
    BY DEF Settle
  <2>2. PICK p \in {"sending", "done"}, o \in Outcomes :
          /\ p = IF read THEN "sending" ELSE "done"
          /\ o = IF read THEN "none" ELSE "reported"
    BY DEF Outcomes
  <2> QED BY <2>1, <2>2
<1>5. /\ jobs' \in Seq(JobType) /\ DOMAIN jobs' = DOMAIN jobs
      /\ \A i \in DOMAIN jobs : jobs'[i].item = jobs[i].item /\ jobs'[i].number = jobs[i].number
      /\ \A i \in DOMAIN jobs \ {j} : jobs'[i] = jobs[i]
      /\ jobs'[j].pc = p /\ jobs'[j].outcome = o
  BY <1>2, <1>4, JobMoved DEF Moves
<1>6. NumbersGiven' /\ FrameNumbersRise' /\ JobType' = JobType
  BY <1>1, <1>2, <1>5, NumbersStay
<1>7. AdaptersTyped'
  BY <1>1, <1>2, <1>5, <1>6 DEF AdaptersTyped
<1>8. SentInOrder'
  <2>1. j \notin ToSet(topic)
    BY <1>2, <1>3 DEF SentInOrder
  <2>2. ASSUME NEW i \in DOMAIN jobs
        PROVE  /\ jobs'[i].pc = "sending" => jobs'[i].outcome = "none"
               /\ jobs'[i].outcome = "202" => i \in ToSet(topic)
               /\ i \in ToSet(topic) => jobs'[i].pc = "done"
    <3>1. CASE i = j
      BY <1>4, <1>5, <2>1, <3>1
    <3>2. CASE i # j
      BY <1>2, <1>5, <3>2 DEF SentInOrder
    <3> QED BY <3>1, <3>2
  <2> QED BY <1>1, <1>3, <1>5, <2>2 DEF SentInOrder
<1>9. AllAnswered'
  BY <1>1, <1>3 DEF AllAnswered
<1> QED BY <1>6, <1>7, <1>8, <1>9

\* A send ends: the event is on the topic, or may be although the send has thrown.
LEMMA SendEnds == ASSUME AdaptersInv, NEW j \in DOMAIN jobs, Publish(j) \/ FailSend(j) PROVE AdaptersInv'
<1> SUFFICES ASSUME kind' \notin Streams
             PROVE  (AdaptersTyped /\ SentInOrder /\ AllAnswered /\ NumbersGiven /\ FrameNumbersRise)'
  BY DEF AdaptersInv, Streams, Publish, FailSend
<1>1. /\ jobs[j].pc = "sending" /\ UNCHANGED <<kind, connected, numbers, phase>>
      /\ topic' = topic \/ topic' = Append(topic, j)
  BY DEF Publish, FailSend
<1>2. AdaptersTyped /\ SentInOrder /\ AllAnswered /\ NumbersGiven /\ FrameNumbersRise
  BY <1>1 DEF AdaptersInv, Streams
<1>3. PICK o \in Outcomes :
        /\ jobs' = [jobs EXCEPT ![j].pc = "done", ![j].outcome = o]
        /\ kind = "http" => o \in {"202", "500"}
        /\ o = "202" => topic' = Append(topic, j)
  <2>1. CASE Publish(j)
    <3>1. PICK o \in Outcomes : o = IF kind = "http" THEN "202" ELSE "published"
      BY DEF Outcomes
    <3> QED BY <2>1, <3>1 DEF Publish, Finish
  <2>2. CASE FailSend(j)
    <3>1. PICK o \in Outcomes : o = IF kind = "http" THEN "500" ELSE "reported"
      BY DEF Outcomes
    <3> QED BY <2>2, <3>1 DEF FailSend, Finish
  <2> QED BY <2>1, <2>2
<1>4. /\ jobs' \in Seq(JobType) /\ DOMAIN jobs' = DOMAIN jobs
      /\ \A i \in DOMAIN jobs : jobs'[i].item = jobs[i].item /\ jobs'[i].number = jobs[i].number
      /\ \A i \in DOMAIN jobs \ {j} : jobs'[i] = jobs[i]
      /\ jobs'[j].pc = "done" /\ jobs'[j].outcome = o
  BY <1>2, <1>3, JobMoved DEF Moves
<1>5. /\ NumbersGiven' /\ FrameNumbersRise' /\ JobType' = JobType
      /\ \A i \in DOMAIN jobs : Outcome(jobs[i].item)' = Outcome(jobs[i].item)
  BY <1>1, <1>2, <1>4, NumbersStay
<1>6. /\ topic \in Seq(DOMAIN jobs) /\ topic' \in Seq(DOMAIN jobs')
      /\ ToSet(topic) \subseteq ToSet(topic') /\ ToSet(topic') \subseteq ToSet(topic) \cup {j}
      /\ topic' = Append(topic, j) => j \in ToSet(topic')
  <2>1. PICK D : D = DOMAIN jobs /\ D = DOMAIN jobs' /\ j \in D
    BY <1>4
  <2>2. topic \in Seq(D)
    BY <1>2, <2>1 DEF AdaptersTyped
  <2>3. PICK m \in Nat : m = Len(topic) /\ DOMAIN topic = 1..m
    BY <2>2
  <2>4. CASE topic' = topic
    <3>1. topic # Append(topic, j)
      BY <2>2, <2>3
    <3> QED BY <2>1, <2>2, <2>4, <3>1
  <2>5. CASE topic' = Append(topic, j)
    <3>1. /\ topic' \in Seq(D) /\ DOMAIN topic' = 1..(m + 1)
          /\ \A i \in 1..m : topic'[i] = topic[i]
          /\ topic'[m + 1] = j
      BY <2>1, <2>2, <2>3, <2>5
    <3>2. \A i \in 1..(m + 1) : i \in 1..m \/ i = m + 1
      BY <2>3
    <3>3. m + 1 \in 1..(m + 1) /\ 1..m \subseteq 1..(m + 1)
      BY <2>3
    <3> QED BY <2>1, <2>2, <2>3, <3>1, <3>2, <3>3 DEF ToSet
  <2> QED BY <1>1, <2>4, <2>5
<1>7. AdaptersTyped'
  BY <1>1, <1>2, <1>4, <1>5, <1>6 DEF AdaptersTyped
<1>8. SentInOrder'
  <2>1. kind # "geotiff" => Outcome(jobs[j].item) = "send"
    BY <1>1, <1>2 DEF SentInOrder
  <2>2. ASSUME NEW i \in DOMAIN jobs
        PROVE  /\ jobs'[i].pc = "settling" => kind = "geotiff"
               /\ jobs'[i].pc = "sending" =>
                     jobs'[i].outcome = "none" /\ (kind # "geotiff" => Outcome(jobs[i].item) = "send")
               /\ jobs'[i].outcome = "202" => i \in ToSet(topic')
               /\ i \in ToSet(topic') =>
                     /\ jobs'[i].pc = "done"
                     /\ kind # "geotiff" => Outcome(jobs[i].item) = "send"
                     /\ kind = "http" => jobs'[i].outcome \in {"202", "500"}
    <3>1. CASE i = j
      BY <1>3, <1>4, <1>6, <2>1, <3>1
    <3>2. CASE i # j
      BY <1>2, <1>4, <1>6, <3>2 DEF SentInOrder
    <3> QED BY <3>1, <3>2
  <2> QED BY <1>1, <1>4, <1>5, <2>2 DEF SentInOrder
<1>9. AllAnswered'
  <2>1. \A i \in DOMAIN jobs : jobs'[i].pc = "sending" => jobs[i].pc = "sending"
    BY <1>1, <1>4
  <2> QED BY <1>1, <1>2, <1>4, <2>1 DEF AllAnswered, Waiting
<1> QED BY <1>5, <1>7, <1>8, <1>9

\* What leaves the jobs, the topic and the numbers alone; a stream delivers to nobody here.
LEMMA RestKeeps ==
    ASSUME AdaptersInv,
           \/ UNCHANGED adaptersVars \/ Disconnected \/ \E f \in Files : Copied(f)
           \/ Stop \/ Disconnect \/ Exit \/ \E n \in 1..(Len(Sent(kind, source)) - at) : Receive(n)
    PROVE  AdaptersInv'
<1> SUFFICES ASSUME kind' \notin Streams
             PROVE  (AdaptersTyped /\ SentInOrder /\ AllAnswered /\ NumbersGiven /\ FrameNumbersRise)'
  BY DEF AdaptersInv
<1>1. kind' = kind
  BY DEF adaptersVars, Disconnected, Copied, Stop, Disconnect, Exit, Receive
<1>2. AdaptersTyped /\ SentInOrder /\ AllAnswered /\ NumbersGiven /\ FrameNumbersRise
  BY <1>1 DEF AdaptersInv
<1>3. UNCHANGED <<jobs, topic, numbers>> /\ ~connected'
  <2>1. ~connected
    BY <1>2 DEF AdaptersTyped
  <2>2. UNCHANGED <<jobs, topic, numbers>>
    BY <2>1 DEF adaptersVars, Disconnected, Copied, Stop, Disconnect, Exit, Receive
  <2>3. connected' = connected \/ connected' = FALSE
    BY <2>1 DEF adaptersVars, Disconnected, Copied, Stop, Disconnect, Exit, Receive
  <2> QED BY <2>1, <2>2, <2>3
<1>4. AdaptersTyped'
  BY <1>1, <1>2, <1>3 DEF AdaptersTyped, JobType, Items
<1>5. SentInOrder' /\ NumbersGiven' /\ FrameNumbersRise'
  <2>1. AdaptersTyped /\ NumbersGiven /\ FrameNumbersRise /\ SentInOrder
    BY <1>2
  <2>2. DOMAIN jobs' = DOMAIN jobs /\ ToSet(topic') = ToSet(topic)
    BY <1>3
  <2>3. NumbersGiven' /\ FrameNumbersRise' /\ \A i \in DOMAIN jobs : Outcome(jobs[i].item)' = Outcome(jobs[i].item)
    BY <1>1, <1>3, <2>1, <2>2, NumbersStay
  <2> QED BY <1>1, <1>3, <2>1, <2>2, <2>3 DEF SentInOrder
<1>6. AllAnswered'
  <2>1. Waiting("sending")' = Waiting("sending")
    BY <1>3 DEF Waiting
  <2>2. CASE phase' = phase
    BY <1>1, <1>2, <2>1, <2>2 DEF AllAnswered
  <2>3. CASE Stop
    BY <2>3 DEF Stop, AllAnswered
  <2>4. CASE Disconnect
    BY <1>1, <2>1, <2>4 DEF Disconnect, AllAnswered
  <2>5. CASE Exit
    BY <1>1, <1>2, <2>1, <2>5 DEF Exit, AllAnswered
  <2> QED BY <2>2, <2>3, <2>4, <2>5 DEF adaptersVars, Disconnected, Copied, Receive
<1> QED BY <1>4, <1>5, <1>6

LEMMA StartAgainKeeps == AdaptersInv /\ kind \in Adapters /\ StartAgain => AdaptersInv'
<1>1. kind \in Adapters /\ StartAgain => (Begun /\ kind \in Adapters)'
  BY Zenon DEF StartAgain, Begun
<1> QED BY <1>1, BegunInv, PTL

LEMMA AdaptersNextInv ==
    AdaptersInv /\ kind \in Adapters /\ [AdaptersNext]_adaptersVars
    => (AdaptersInv /\ kind \in Adapters)'
<1>1. [AdaptersNext]_adaptersVars => kind' = kind
  BY DEF AdaptersNext, Handlers, adaptersVars, Receive, Disconnected, Message, Request, FileEvent, Copied,
         Settle, Publish, FailSend, Stop, Disconnect, Exit, StartAgain
<1>2. AdaptersInv /\ kind \in Adapters /\ [AdaptersNext]_adaptersVars => AdaptersInv'
  BY RestKeeps, StartAgainKeeps, MessageKeeps, RequestKeeps, FileEventKeeps, SettleKeeps, SendEnds
     DEF AdaptersNext, Handlers
<1> QED BY <1>1, <1>2

LEMMA AdaptersAlways == AdaptersSpec => []AdaptersInv
<1>1. AdaptersInit => kind \in Adapters
  BY DEF AdaptersInit
<1> QED BY <1>1, AdaptersInitInv, AdaptersNextInv, PTL DEF AdaptersSpec

\* A phone is told the truth, and gets its answer before the producer goes (main.ts,
\* the routes of the field adapter).
THEOREM PhonesAnswered == AdaptersSpec => []RequestsOutlastShutdown
<1>1. AdaptersInv => RequestsOutlastShutdown
  <2> SUFFICES ASSUME AdaptersInv, kind = "http" PROVE RequestsOutlastShutdown
    BY DEF RequestsOutlastShutdown
  <2>1. SentInOrder /\ AllAnswered
    BY DEF AdaptersInv, Streams
  <2>2. ASSUME NEW j \in DOMAIN jobs
        PROVE  /\ jobs[j].outcome = "202" => j \in ToSet(topic)
               /\ jobs[j].outcome \in {"400", "401"} => j \notin ToSet(topic)
    BY <2>1 DEF SentInOrder
  <2> QED BY <2>1, <2>2 DEF RequestsOutlastShutdown, AllAnswered
<1> QED BY <1>1, AdaptersAlways, PTL

\* Only a phone's snapshot reaches a topic with a clock out of step (assertValidSensorTs,
\* publishFrame).
THEOREM ClocksInStep == AdaptersSpec => []OnlySnapshotsSkewed
<1>1. AdaptersInv => OnlySnapshotsSkewed
  <2> SUFFICES ASSUME AdaptersInv, NEW j \in ToSet(topic)
               PROVE  /\ kind = "mqtt" => InStepWithReceipt(jobs[j].item)
                      /\ kind = "http" => InStepWithReceipt(jobs[j].item) \/ jobs[j].item.path = "snapshot"
    BY DEF OnlySnapshotsSkewed
  <2>1. ASSUME kind \in {"mqtt", "http"}
        PROVE  /\ Outcome(jobs[j].item) = "send"
               /\ kind = "http" => jobs[j].item.path \in {"telemetry", "snapshot"}
    <3>1. AdaptersTyped /\ SentInOrder
      BY <2>1 DEF AdaptersInv, Streams
    <3>2. j \in DOMAIN jobs
      BY <3>1 DEF AdaptersTyped, ToSet
    <3>3. jobs[j] \in JobType
      BY <3>1, <3>2 DEF AdaptersTyped
    <3>4. kind = "http" => jobs[j].item \in Requests
      BY <3>3 DEF JobType, Items
    <3> QED BY <2>1, <3>1, <3>2, <3>4, AdaptersAssumption DEF SentInOrder
  <2>2. CASE kind = "mqtt"
    BY <2>1, <2>2 DEF Outcome, MessageOutcome, InStep, InStepWithReceipt
  <2>3. CASE kind = "http"
    BY <2>1, <2>3 DEF Outcome, TelemetryOutcome, InStep, InStepWithReceipt
  <2> QED BY <2>2, <2>3
<1> QED BY <1>1, AdaptersAlways, PTL

------------------------------------------------------------------------------
(* The adapters that read a stream.  A stream is the items it carries back *)
(* to back, so a position in it says which items are whole and what is kept*)
(* of the next; every chunk takes the adapter from one such position to    *)
(* another.                                                                *)

\* A nonempty set of naturals has a least element: induction by least counterexample.
LEMMA LeastNat ==
    ASSUME NEW T, T \subseteq Nat, T # {}
    PROVE  \E n \in T : \A m \in T : n <= m
<1>1. PICK R : R = {p \in Nat \X Nat : p[1] < p[2]}
  OBVIOUS
<1>2. IsWellFoundedOn(R, Nat)
  BY <1>1, NatLessThanWellFounded DEF OpToRel
<1>3. PICK x \in T : \A y \in T : ~ (<<y, x>> \in R)
  BY <1>2, WFMin
<1>4. ASSUME NEW y \in T PROVE x <= y
  <2>1. x \in Nat /\ y \in Nat /\ ~(<<y, x>> \in R)
    BY <1>3
  <2>2. ~(y < x)
    BY <1>1, <2>1
  <2> QED BY <2>1, <2>2
<1> QED BY <1>3, <1>4

\* One sequence behind another.
IsJoin(z, s, t, c, l) ==
    /\ z = s \o t /\ Len(z) = c + l
    /\ \A i \in 1..c : z[i] = s[i]
    /\ \A i \in 1..l : z[c + i] = t[i]

LEMMA Joined ==
    ASSUME NEW T, NEW s \in Seq(T), NEW t \in Seq(T), NEW c \in Nat, NEW l \in Nat, c = Len(s), l = Len(t)
    PROVE  s \o t \in Seq(T) /\ IsJoin(s \o t, s, t, c, l)
<1>1. /\ s \o t \in Seq(T) /\ Len(s \o t) = Len(s) + Len(t)
      /\ \A i \in 1..(Len(s) + Len(t)) : (s \o t)[i] = IF i <= Len(s) THEN s[i] ELSE t[i - Len(s)]
  BY ConcatProperties
<1>2. \A i \in 1..(c + l) : (s \o t)[i] = IF i <= c THEN s[i] ELSE t[i - c]
  BY <1>1
<1>3. ASSUME NEW i \in 1..c PROVE (s \o t)[i] = s[i]
  <2>1. i \in 1..(c + l) /\ i <= c
    OBVIOUS
  <2> QED BY <1>2, <2>1
<1>4. ASSUME NEW i \in 1..l PROVE (s \o t)[c + i] = t[i]
  <2>1. c + i \in 1..(c + l) /\ ~(c + i <= c) /\ c + i - c = i
    OBVIOUS
  <2> QED BY <1>2, <2>1
<1> QED BY <1>1, <1>3, <1>4 DEF IsJoin

\* The recursion of SentUpto defines a function.
LEMMA SentDefined ==
    ASSUME NEW k, NEW items, NEW L \in Nat, L = Len(items)
    PROVE  \A n \in 0..L :
               SentUpto(k, items)[n] =
                   IF n = 0 THEN <<>> ELSE SentUpto(k, items)[n - 1] \o Wire(k, items[n])
<1> DEFINE Is(f, m) == f = [n \in 0..m |-> IF n = 0 THEN <<>> ELSE f[n - 1] \o Wire(k, items[n])]
           Bad == {m \in Nat : ~ \E f : Is(f, m)}
<1>1. Bad = {}
  <2> SUFFICES ASSUME Bad # {} PROVE FALSE
    OBVIOUS
  <2>1. PICK x \in Bad : \A m \in Bad : x <= m
    <3>1. Bad \subseteq Nat
      OBVIOUS
    <3> HIDE DEF Bad
    <3> QED BY <3>1, LeastNat
  <2>2. x # 0
    <3>1. Is([n \in 0..0 |-> <<>>], 0)
      OBVIOUS
    <3> QED BY <3>1
  <2>3. x - 1 \in Nat /\ x - 1 \notin Bad
    <3>1. x \in Nat
      OBVIOUS
    <3> HIDE DEF Bad
    <3> QED BY <2>1, <2>2, <3>1
  <2>4. PICK f : Is(f, x - 1)
    BY <2>3
  <2>5. PICK g : g = [n \in 0..x |-> IF n = x THEN f[x - 1] \o Wire(k, items[x]) ELSE f[n]]
    OBVIOUS
  <2>6. ASSUME NEW n \in 0..x
        PROVE  g[n] = IF n = 0 THEN <<>> ELSE g[n - 1] \o Wire(k, items[n])
    <3>1. CASE n = x
      <4>1. g[n] = f[x - 1] \o Wire(k, items[x]) /\ g[x - 1] = f[x - 1]
        BY <2>2, <2>3, <2>5, <3>1
      <4> QED BY <2>2, <3>1, <4>1
    <3>2. CASE n # x
      <4>1. n \in 0..(x - 1) /\ g[n] = f[n]
        BY <2>5, <2>6, <3>2
      <4>2. f[n] = IF n = 0 THEN <<>> ELSE f[n - 1] \o Wire(k, items[n])
        BY <2>4, <4>1
      <4>3. n # 0 => g[n - 1] = f[n - 1]
        BY <2>5, <4>1
      <4> QED BY <4>1, <4>2, <4>3
    <3> QED BY <3>1, <3>2
  <2>7. Is(g, x)
    <3>1. g = [n \in 0..x |-> g[n]]
      BY <2>5
    <3> QED BY <2>6, <3>1, Zenon
  <2> QED BY <2>1, <2>7
<1>2. PICK f : Is(f, L)
  <2>1. L \notin Bad
    BY <1>1
  <2> HIDE DEF Is
  <2> QED BY <2>1
<1>3. Is(SentUpto(k, items), L)
  BY <1>2 DEF SentUpto
<1>4. PICK g : g = SentUpto(k, items)
  OBVIOUS
<1>5. \A n \in 0..L : g[n] = IF n = 0 THEN <<>> ELSE g[n - 1] \o Wire(k, items[n])
  <2>1. Is(g, L)
    BY <1>3, <1>4
  <2> QED BY <2>1
<1> QED BY <1>4, <1>5

\* The bytes W of a stream: those of w[1] to w[n] end at U[n].
BackToBack(B, L, w, U, W) ==
    /\ W \in Seq(B) /\ U \in [0..L -> Nat] /\ U[0] = 0 /\ U[L] = Len(W)
    /\ \A n \in 1..L :
          /\ w[n] \in Seq(B) /\ Len(w[n]) >= 3
          /\ U[n] = U[n - 1] + Len(w[n])
          /\ \A i \in 1..Len(w[n]) : W[U[n - 1] + i] = w[n][i]

\* What Sent gives is such a stream.
LEMMA SentBackToBack ==
    ASSUME NEW B, NEW k, NEW L \in Nat, NEW items, L = Len(items), NEW w, NEW U,
           \A n \in 1..L : w[n] = Wire(k, items[n]) /\ w[n] \in Seq(B) /\ Len(w[n]) >= 3,
           U = [n \in 0..L |-> Len(SentUpto(k, items)[n])]
    PROVE  BackToBack(B, L, w, U, Sent(k, items))
<1>1. PICK P : P = SentUpto(k, items)
  OBVIOUS
<1>2. P[0] = <<>> /\ \A n \in 1..L : P[n] = P[n - 1] \o w[n] /\ n - 1 \in 0..L
  <2>1. \A n \in 0..L : P[n] = IF n = 0 THEN <<>> ELSE P[n - 1] \o Wire(k, items[n])
    BY <1>1, SentDefined
  <2>2. P[0] = <<>>
    BY <2>1
  <2>3. ASSUME NEW n \in 1..L PROVE P[n] = P[n - 1] \o w[n] /\ n - 1 \in 0..L
    <3>1. n \in 0..L /\ n # 0 /\ n - 1 \in 0..L /\ w[n] = Wire(k, items[n])
      OBVIOUS
    <3> QED BY <2>1, <3>1
  <2> QED BY <2>2, <2>3
<1> DEFINE Good(n) ==
      /\ P[n] \in Seq(B)
      /\ \A m \in 0..n : Len(P[m]) \in Nat /\ Len(P[m]) <= Len(P[n]) /\ \A i \in 1..Len(P[m]) : P[n][i] = P[m][i]
    Bad == {n \in 0..L : ~Good(n)}
<1>3. Good(0)
  BY <1>2
<1>4. ASSUME NEW n \in 1..L, Good(n - 1)
      PROVE  /\ Good(n) /\ Len(P[n]) = Len(P[n - 1]) + Len(w[n])
             /\ \A i \in 1..Len(w[n]) : P[n][Len(P[n - 1]) + i] = w[n][i]
  <2>1. PICK p \in Seq(B) : p = P[n - 1]
    BY <1>4
  <2>2. PICK q \in Seq(B) : q = w[n]
    OBVIOUS
  <2>3. PICK r \in Seq(B) : r = p \o q /\ r = P[n]
    <3>1. P[n] = p \o q
      BY <1>2, <2>1, <2>2
    <3>2. p \o q \in Seq(B)
      BY ConcatProperties
    <3> QED BY <3>1, <3>2
  <2>4. /\ Len(r) = Len(p) + Len(q) /\ \A i \in 1..Len(p) : r[i] = p[i]
        /\ \A i \in 1..Len(q) : r[Len(p) + i] = q[i]
    <3>1. PICK c \in Nat, l \in Nat : c = Len(p) /\ l = Len(q)
      OBVIOUS
    <3>2. IsJoin(p \o q, p, q, c, l)
      BY <3>1, Joined
    <3> QED BY <2>3, <3>1, <3>2 DEF IsJoin
  <2>5. Len(p) \in Nat /\ Len(q) \in Nat
    OBVIOUS
  <2>6. ASSUME NEW m \in 0..n
        PROVE  /\ Len(P[m]) \in Nat /\ Len(P[m]) <= Len(r)
               /\ \A i \in 1..Len(P[m]) : r[i] = P[m][i]
    <3>1. CASE m = n
      BY <2>3, <2>4, <2>5, <3>1
    <3>2. CASE m # n
      <4>1. m \in 0..(n - 1)
        BY <3>2
      <4>2. Len(P[m]) \in Nat /\ Len(P[m]) <= Len(p) /\ \A i \in 1..Len(P[m]) : p[i] = P[m][i]
        BY <1>4, <2>1, <4>1
      <4> QED BY <2>4, <2>5, <4>2
    <3> QED BY <3>1, <3>2
  <2>7. Good(n)
    BY <2>3, <2>6
  <2> QED BY <2>1, <2>2, <2>3, <2>4, <2>7
<1>5. Bad = {}
  <2> SUFFICES ASSUME Bad # {} PROVE FALSE
    OBVIOUS
  <2>1. PICK x \in Bad : \A m \in Bad : x <= m
    <3>1. Bad \subseteq Nat
      OBVIOUS
    <3> HIDE DEF Bad
    <3> QED BY <3>1, LeastNat
  <2>2. x \in 0..L /\ ~Good(x)
    OBVIOUS
  <2> HIDE DEF Good
  <2>3. x # 0
    BY <1>3, <2>2
  <2>4. x - 1 \in 0..L /\ Good(x - 1)
    <3>1. x - 1 \in 0..L /\ ~(x <= x - 1)
      BY <2>2, <2>3
    <3>2. x - 1 \notin Bad
      BY <2>1, <3>1
    <3> QED BY <3>1, <3>2
  <2>5. x \in 1..L
    BY <2>2, <2>3
  <2> QED BY <1>4, <2>2, <2>4, <2>5
<1>6. \A n \in 0..L : Good(n)
  BY <1>5
<1>7. PICK W \in Seq(B) : W = P[L] /\ W = Sent(k, items)
  BY <1>1, <1>6 DEF Sent
<1>8. U \in [0..L -> Nat] /\ U[0] = 0 /\ U[L] = Len(W) /\ \A n \in 0..L : U[n] = Len(P[n])
  <2>1. \A n \in 0..L : Len(P[n]) \in Nat
    BY <1>6
  <2>2. U = [n \in 0..L |-> Len(P[n])]
    BY <1>1
  <2>3. 0 \in 0..L /\ L \in 0..L
    OBVIOUS
  <2> HIDE DEF Good
  <2>4. U \in [0..L -> Nat] /\ \A n \in 0..L : U[n] = Len(P[n])
    BY <2>1, <2>2
  <2>5. Len(P[0]) = 0
    BY <1>2
  <2> QED BY <1>7, <2>3, <2>4, <2>5
<1>9. ASSUME NEW n \in 1..L
      PROVE  /\ U[n] = U[n - 1] + Len(w[n])
             /\ \A i \in 1..Len(w[n]) : W[U[n - 1] + i] = w[n][i]
  <2>1. n - 1 \in 0..L /\ n \in 0..L /\ L \in 0..L
    OBVIOUS
  <2>2. /\ Len(P[n]) = Len(P[n - 1]) + Len(w[n])
        /\ \A i \in 1..Len(w[n]) : P[n][Len(P[n - 1]) + i] = w[n][i]
    BY <1>4, <1>6, <2>1
  <2>3. \A i \in 1..Len(P[n]) : W[i] = P[n][i]
    BY <1>6, <1>7, <2>1, ZenonT(30)
  <2>4. U[n] = Len(P[n]) /\ U[n - 1] = Len(P[n - 1]) /\ U[n - 1] \in Nat /\ Len(w[n]) \in Nat
    BY <1>8, <2>1
  <2> HIDE DEF Good
  <2>5. ASSUME NEW i \in 1..Len(w[n]) PROVE W[U[n - 1] + i] = w[n][i]
    <3>1. U[n - 1] + i \in 1..Len(P[n])
      <4>1. PICK u \in Nat, l \in Nat : u = U[n - 1] /\ l = Len(w[n]) /\ i \in 1..l
        BY <2>4
      <4>2. Len(P[n]) = u + l
        BY <2>2, <2>4, <4>1
      <4>3. u + i \in 1..(u + l)
        BY <4>1
      <4> QED BY <4>1, <4>2, <4>3
    <3> QED BY <2>2, <2>3, <2>4, <3>1
  <2> QED BY <2>2, <2>4, <2>5
<1> QED BY <1>7, <1>8, <1>9, ZenonT(30) DEF BackToBack

\* Items take room.
LEMMA Apart ==
    ASSUME NEW B, NEW L \in Nat, NEW w, NEW U, NEW W, BackToBack(B, L, w, U, W)
    PROVE  \A m, n \in 0..L : m <= n => U[m] + 3 * (n - m) <= U[n]
<1> DEFINE Bad == {n \in 0..L : \E m \in 0..n : ~(U[m] + 3 * (n - m) <= U[n])}
<1>1. U \in [0..L -> Nat]
  BY DEF BackToBack
<1>2. Bad = {}
  <2> SUFFICES ASSUME Bad # {} PROVE FALSE
    OBVIOUS
  <2>1. PICK x \in Bad : \A m \in Bad : x <= m
    <3>1. Bad \subseteq Nat
      OBVIOUS
    <3> HIDE DEF Bad
    <3> QED BY <3>1, LeastNat
  <2>2. PICK m \in 0..x : ~(U[m] + 3 * (x - m) <= U[x])
    OBVIOUS
  <2>3. x \in 0..L
    OBVIOUS
  <2>4. m # x /\ x # 0
    BY <1>1, <2>2, <2>3, SMTT(30)
  <2>5. U[x] >= U[x - 1] + 3 /\ x - 1 \in 0..L /\ m \in 0..(x - 1)
    <3>1. PICK l \in Nat : l = Len(w[x]) /\ l >= 3 /\ U[x] = U[x - 1] + l
      <4>1. x \in 1..L
        BY <2>3, <2>4
      <4>2. w[x] \in Seq(B) /\ Len(w[x]) >= 3 /\ U[x] = U[x - 1] + Len(w[x])
        BY <4>1 DEF BackToBack
      <4> QED BY <4>2
    <3>2. x - 1 \in 0..L /\ m \in 0..(x - 1)
      BY <2>2, <2>3, <2>4
    <3> QED BY <1>1, <2>3, <3>1, <3>2, SMTT(30)
  <2>6. U[m] + 3 * (x - 1 - m) <= U[x - 1]
    <3>1. x - 1 \notin Bad
      <4>1. ~(x <= x - 1)
        BY <2>3
      <4> HIDE DEF Bad
      <4> QED BY <2>1, <4>1
    <3> QED BY <2>5, <3>1
  <2> HIDE DEF Bad
  <2> QED BY <1>1, <2>2, <2>3, <2>5, <2>6
<1> QED BY <1>2

\* A piece of a stream, from behind position c up to position a.
LEMMA Piece ==
    ASSUME NEW B, NEW W \in Seq(B), NEW c \in Nat, NEW a \in Nat, c <= a, a <= Len(W)
    PROVE  /\ SubSeq(W, c + 1, a) \in Seq(B) /\ Len(SubSeq(W, c + 1, a)) = a - c
           /\ \A i \in 1..(a - c) : SubSeq(W, c + 1, a)[i] = W[c + i]
<1>1. \A i \in (c + 1)..a : W[i] \in B
  OBVIOUS
<1>2. c + 1 \in Int /\ a \in Int /\ a - (c + 1) + 1 = a - c
  OBVIOUS
<1>3. /\ SubSeq(W, c + 1, a) \in Seq(B)
      /\ Len(SubSeq(W, c + 1, a)) = IF c + 1 <= a THEN a - (c + 1) + 1 ELSE 0
      /\ \A i \in 1..(a - (c + 1) + 1) : SubSeq(W, c + 1, a)[i] = W[c + 1 + i - 1]
  BY <1>1, <1>2, SubSeqProperties
<1>4. \A i \in 1..(a - c) : c + 1 + i - 1 = c + i
  OBVIOUS
<1> QED BY <1>2, <1>3, <1>4

\* A piece of a piece.
LEMMA PieceOfPiece ==
    ASSUME NEW B, NEW W \in Seq(B), NEW c \in Nat, NEW a \in Nat, c <= a, a <= Len(W),
           NEW x \in Nat, NEW y \in Nat, c <= x, x <= y, y <= a
    PROVE  SubSeq(SubSeq(W, c + 1, a), x - c + 1, y - c) = SubSeq(W, x + 1, y)
<1>1. PICK b \in Seq(B) : /\ b = SubSeq(W, c + 1, a) /\ Len(b) = a - c
                          /\ \A i \in 1..(a - c) : b[i] = W[c + i]
  <2>1. /\ SubSeq(W, c + 1, a) \in Seq(B) /\ Len(SubSeq(W, c + 1, a)) = a - c
        /\ \A i \in 1..(a - c) : SubSeq(W, c + 1, a)[i] = W[c + i]
    BY Piece
  <2>2. PICK b : b = SubSeq(W, c + 1, a)
    OBVIOUS
  <2> QED BY <2>1, <2>2
<1>2. PICK p \in Nat, q \in Nat : p = x - c /\ q = y - c /\ p <= q /\ q <= a - c
  OBVIOUS
<1>3. /\ SubSeq(b, p + 1, q) \in Seq(B) /\ Len(SubSeq(b, p + 1, q)) = q - p
      /\ \A i \in 1..(q - p) : SubSeq(b, p + 1, q)[i] = b[p + i]
  BY <1>1, <1>2, Piece
<1>4. /\ SubSeq(W, x + 1, y) \in Seq(B) /\ Len(SubSeq(W, x + 1, y)) = y - x
      /\ \A i \in 1..(y - x) : SubSeq(W, x + 1, y)[i] = W[x + i]
  <2>1. y <= Len(W)
    OBVIOUS
  <2> QED BY <2>1, Piece
<1>5. y - x = q - p /\ \A i \in 1..(q - p) : p + i \in 1..(a - c) /\ c + (p + i) = x + i
  BY <1>2
<1>6. SubSeq(b, p + 1, q) = SubSeq(W, x + 1, y)
  <2>1. \A i \in 1..(q - p) : SubSeq(b, p + 1, q)[i] = SubSeq(W, x + 1, y)[i]
    BY <1>1, <1>3, <1>4, <1>5, ZenonT(30)
  <2> QED BY <1>3, <1>4, <1>5, <2>1, SeqEqual
<1> QED BY <1>1, <1>2, <1>6

\* What Min and Max choose.
LEMMA MinIs ==
    ASSUME NEW S, S \subseteq Nat, NEW x \in S, \A y \in S : x <= y
    PROVE  Min(S) = x
<1>1. \A z \in S : (\A y \in S : z <= y) => z = x
  OBVIOUS
<1> QED BY <1>1 DEF Min

LEMMA MaxIs ==
    ASSUME NEW S, S \subseteq Nat, NEW x \in S, \A y \in S : y <= x
    PROVE  Max(S) = x
<1>1. \A z \in S : (\A y \in S : z >= y) => z = x
  OBVIOUS
<1> QED BY <1>1 DEF Max

\* Where the markers are in a stream of frames.
LEMMA FrameMarkers ==
    ASSUME NEW L \in Nat, NEW w, NEW U, NEW W, BackToBack(Bytes, L, w, U, W),
           \A n \in 1..L : IsJpeg(w[n]), NEW n \in 1..L
    PROVE  /\ U[n - 1] \in Nat /\ U[n] \in Nat /\ U[n] >= U[n - 1] + 4 /\ U[n] <= Len(W)
           /\ W[U[n - 1] + 1] = "FF" /\ W[U[n - 1] + 2] = "D8"
           /\ W[U[n] - 1] = "FF" /\ W[U[n]] = "D9"
           /\ \A p \in (U[n - 1] + 2)..U[n] : ~(W[p] = "FF" /\ W[p + 1] = "D8")
           /\ \A p \in (U[n - 1] + 3)..(U[n] - 2) : ~(W[p] = "FF" /\ W[p + 1] = "D9")
<1>1. PICK l \in Nat, u \in Nat, f \in Seq(Bytes) :
        /\ f = w[n] /\ l = Len(f) /\ u = U[n - 1] /\ U[n] = u + l
        /\ \A i \in 1..l : W[u + i] = f[i]
  <2>1. /\ w[n] \in Seq(Bytes) /\ U[n] = U[n - 1] + Len(w[n])
        /\ \A i \in 1..Len(w[n]) : W[U[n - 1] + i] = w[n][i]
        /\ U \in [0..L -> Nat]
    BY DEF BackToBack
  <2>2. n - 1 \in 0..L
    OBVIOUS
  <2>3. U[n - 1] \in Nat
    BY <2>1, <2>2
  <2>4. PICK f \in Seq(Bytes) : f = w[n]
    BY <2>1
  <2>5. Len(f) \in Nat
    OBVIOUS
  <2> QED BY <2>1, <2>3, <2>4, <2>5
<1>2. u + l <= Len(W)
  <2>1. n \in 0..L /\ L \in 0..L /\ n <= L
    OBVIOUS
  <2>2. U[n] + 3 * (L - n) <= U[L]
    BY <2>1, Apart
  <2>3. U[L] = Len(W) /\ U[L] \in Nat
    BY <2>1 DEF BackToBack
  <2> QED BY <1>1, <2>2, <2>3
<1>3. /\ l >= 4 /\ f[1] = "FF" /\ f[2] = "D8" /\ f[l - 1] = "FF" /\ f[l] = "D9"
      /\ \A i \in 2..(l - 1) : ~(f[i] = "FF" /\ f[i + 1] = "D8")
      /\ \A i \in 3..(l - 2) : ~(f[i] = "FF" /\ f[i + 1] = "D9")
  <2>1. /\ {i \in 1..(l - 1) : f[i] = "FF" /\ f[i + 1] = "D8"} = {1}
        /\ {i \in 3..(l - 1) : f[i] = "FF" /\ f[i + 1] = "D9"} = {l - 1}
    BY <1>1 DEF IsJpeg, Markers
  <2>2. l - 1 \in 3..(l - 1) /\ f[l - 1] = "FF" /\ f[l - 1 + 1] = "D9"
    BY <2>1
  <2>3. l >= 4 /\ l - 1 + 1 = l
    BY <2>2
  <2>4. f[1] = "FF" /\ f[1 + 1] = "D8"
    BY <2>1
  <2>5. \A i \in 2..(l - 1) : i \in 1..(l - 1) /\ i # 1
    OBVIOUS
  <2>6. \A i \in 3..(l - 2) : i \in 3..(l - 1) /\ i # l - 1
    OBVIOUS
  <2>7. \A i \in 2..(l - 1) : ~(f[i] = "FF" /\ f[i + 1] = "D8")
    BY <2>1, <2>5
  <2>8. \A i \in 3..(l - 2) : ~(f[i] = "FF" /\ f[i + 1] = "D9")
    BY <2>1, <2>6
  <2>9. f[2] = "D8" /\ f[l] = "D9"
    BY <2>2, <2>3, <2>4
  <2> QED BY <2>2, <2>3, <2>4, <2>7, <2>8, <2>9
<1>4. /\ W[u + 1] = "FF" /\ W[u + 2] = "D8" /\ W[u + l - 1] = "FF" /\ W[u + l] = "D9"
  <2>1. 1 \in 1..l /\ 2 \in 1..l /\ l - 1 \in 1..l /\ l \in 1..l /\ u + (l - 1) = u + l - 1
    BY <1>3
  <2> QED BY <1>1, <1>3, <2>1
<1>5. ASSUME NEW p \in (u + 2)..(u + l) PROVE ~(W[p] = "FF" /\ W[p + 1] = "D8")
  <2>1. PICK i \in 2..l : p = u + i /\ p + 1 = u + (i + 1)
    <3>1. p - u \in 2..l /\ p = u + (p - u) /\ p + 1 = u + (p - u + 1)
      OBVIOUS
    <3> QED BY <3>1
  <2>2. CASE i = l
    BY <1>3, <1>4, <2>1, <2>2
  <2>3. CASE i # l
    <3>1. i \in 2..(l - 1) /\ i \in 1..l /\ i + 1 \in 1..l
      BY <2>3
    <3>2. W[p] = f[i] /\ W[p + 1] = f[i + 1]
      BY <1>1, <2>1, <3>1
    <3> QED BY <1>3, <3>1, <3>2
  <2> QED BY <2>2, <2>3
<1>6. ASSUME NEW p \in (u + 3)..(u + l - 2) PROVE ~(W[p] = "FF" /\ W[p + 1] = "D9")
  <2>1. PICK i \in 3..(l - 2) : p = u + i /\ p + 1 = u + (i + 1)
    <3>1. p - u \in 3..(l - 2) /\ p = u + (p - u) /\ p + 1 = u + (p - u + 1)
      OBVIOUS
    <3> QED BY <3>1
  <2>2. i \in 1..l /\ i + 1 \in 1..l
    OBVIOUS
  <2>3. W[p] = f[i] /\ W[p + 1] = f[i + 1]
    BY <1>1, <2>1, <2>2
  <2> QED BY <1>3, <2>1, <2>3
<1>7. U[n - 1] = u /\ U[n] = u + l
  BY <1>1
<1> QED BY <1>2, <1>3, <1>4, <1>5, <1>6, <1>7

\* An item is the piece between two ends.
LEMMA WholeItem ==
    ASSUME NEW B, NEW L \in Nat, NEW w, NEW U, NEW W, BackToBack(B, L, w, U, W), NEW n \in 1..L
    PROVE  /\ SubSeq(W, U[n - 1] + 1, U[n]) = w[n]
           /\ U[n - 1] \in Nat /\ U[n] \in Nat /\ U[n - 1] + 3 <= U[n] /\ U[n] <= Len(W)
<1>1. PICK l \in Nat, u \in Nat, v \in Nat, f \in Seq(B) :
        /\ f = w[n] /\ l = Len(f) /\ u = U[n - 1] /\ v = U[n] /\ v = u + l /\ l >= 3
        /\ \A i \in 1..l : W[u + i] = f[i]
  <2>1. /\ w[n] \in Seq(B) /\ U[n] = U[n - 1] + Len(w[n]) /\ Len(w[n]) >= 3
        /\ \A i \in 1..Len(w[n]) : W[U[n - 1] + i] = w[n][i]
        /\ U \in [0..L -> Nat]
    BY DEF BackToBack
  <2>2. n - 1 \in 0..L /\ n \in 0..L
    OBVIOUS
  <2>3. U[n - 1] \in Nat /\ U[n] \in Nat
    BY <2>1, <2>2
  <2>4. PICK f \in Seq(B) : f = w[n]
    BY <2>1
  <2>5. Len(f) \in Nat
    OBVIOUS
  <2> QED BY <2>1, <2>3, <2>4, <2>5, ZenonT(30)
<1>2. v <= Len(W) /\ W \in Seq(B)
  <2>1. n \in 0..L /\ L \in 0..L /\ n <= L
    OBVIOUS
  <2>2. U[n] + 3 * (L - n) <= U[L]
    BY <2>1, Apart
  <2>3. U[L] = Len(W) /\ U[L] \in Nat /\ W \in Seq(B)
    BY <2>1 DEF BackToBack
  <2> QED BY <1>1, <2>2, <2>3
<1>3. PICK p \in Seq(B) : p = SubSeq(W, u + 1, v) /\ Len(p) = l /\ \A i \in 1..l : p[i] = W[u + i]
  <2>1. u <= v /\ v - u = l
    BY <1>1
  <2>2. /\ SubSeq(W, u + 1, v) \in Seq(B) /\ Len(SubSeq(W, u + 1, v)) = v - u
        /\ \A i \in 1..(v - u) : SubSeq(W, u + 1, v)[i] = W[u + i]
    BY <1>2, <2>1, Piece
  <2> QED BY <2>1, <2>2
<1>4. p = f
  <2>1. Len(p) = Len(f) /\ \A i \in 1..Len(p) : p[i] = f[i]
    BY <1>1, <1>3
  <2> QED BY <2>1, SeqEqual
<1>5. u + 3 <= v
  BY <1>1
<1> QED BY <1>1, <1>2, <1>3, <1>4, <1>5

\* What a pass returns that has cut e items before: the next one, if it is there whole.
PassIs(out, L, items, U, W, e, a, kept) ==
    out = IF e < L /\ U[e + 1] <= a
          THEN [items |-> <<items[e + 1]>>, rest |-> SubSeq(W, U[e + 1] + 1, a)]
          ELSE [items |-> <<>>, rest |-> kept]

\* One pass of the splitter over what comes behind frame e: from the middle of that
\* frame, where its start marker was torn, or from its end.
LEMMA FirstFrameIs ==
    ASSUME NEW L \in Nat, NEW w, NEW U, NEW W, BackToBack(Bytes, L, w, U, W),
           \A n \in 1..L : IsJpeg(w[n]), NEW e \in 0..L, NEW c \in Nat, NEW a \in Nat,
           c = U[e] \/ (e >= 1 /\ U[e - 1] < c /\ c <= U[e]), c <= a, a <= Len(W)
    PROVE  PassIs(FirstFrame(SubSeq(W, c + 1, a)), L, w, U, W, e, a,
                  IF a >= U[e] + 2 THEN SubSeq(W, U[e] + 1, a) ELSE <<>>)
<1> DEFINE out == FirstFrame(SubSeq(W, c + 1, a))
<1> SUFFICES
      /\ (e < L /\ U[e + 1] <= a) => out = [items |-> <<w[e + 1]>>, rest |-> SubSeq(W, U[e + 1] + 1, a)]
      /\ ~(e < L /\ U[e + 1] <= a) =>
            out = [items |-> <<>>, rest |-> IF a >= U[e] + 2 THEN SubSeq(W, U[e] + 1, a) ELSE <<>>]
  BY DEF PassIs
<1>1. PICK b : b = SubSeq(W, c + 1, a)
  OBVIOUS
<1>2. /\ b \in Seq(Bytes) /\ Len(b) = a - c /\ \A i \in 1..(a - c) : b[i] = W[c + i]
      /\ W \in Seq(Bytes)
  <2>1. W \in Seq(Bytes)
    BY DEF BackToBack
  <2>2. /\ SubSeq(W, c + 1, a) \in Seq(Bytes) /\ Len(SubSeq(W, c + 1, a)) = a - c
        /\ \A i \in 1..(a - c) : SubSeq(W, c + 1, a)[i] = W[c + i]
    BY <2>1, Piece
  <2> QED BY <1>1, <2>1, <2>2
<1>3. PICK S : /\ S = Markers(b, "D8", 1)
               /\ S = {i \in 1..(a - c - 1) : W[c + i] = "FF" /\ W[c + i + 1] = "D8"}
  <2>1. Markers(b, "D8", 1) = {i \in 1..(a - c - 1) : b[i] = "FF" /\ b[i + 1] = "D8"}
    BY <1>2 DEF Markers
  <2>2. \A i \in 1..(a - c - 1) : b[i] = W[c + i] /\ b[i + 1] = W[c + i + 1]
    <3>1. \A i \in 1..(a - c - 1) : i \in 1..(a - c) /\ i + 1 \in 1..(a - c) /\ c + (i + 1) = c + i + 1
      OBVIOUS
    <3> QED BY <1>2, <3>1
  <2> QED BY <2>1, <2>2, ZenonT(30)
<1>4. U[e] \in Nat /\ c <= U[e]
  BY DEF BackToBack
<1>5. ASSUME NEW i \in S PROVE c + i >= U[e] + 1
  <2> SUFFICES ASSUME c + i <= U[e] PROVE FALSE
    BY <1>3, <1>4
  <2>1. i \in Nat /\ i >= 1 /\ W[c + i] = "FF" /\ W[c + i + 1] = "D8"
    BY <1>3
  <2>2. e \in 1..L /\ U[e - 1] < c
    BY <1>4, <2>1
  <2>3. U[e - 1] \in Nat
    BY <2>2, FrameMarkers
  <2>4. c + i \in (U[e - 1] + 2)..U[e]
    BY <1>4, <2>1, <2>2, <2>3
  <2>5. \A p \in (U[e - 1] + 2)..U[e] : ~(W[p] = "FF" /\ W[p + 1] = "D8")
    <3>1. PICK n \in 1..L : n = e
      BY <2>2
    <3>2. /\ U[n - 1] \in Nat /\ U[n] \in Nat /\ U[n] >= U[n - 1] + 4 /\ U[n] <= Len(W)
          /\ W[U[n - 1] + 1] = "FF" /\ W[U[n - 1] + 2] = "D8"
          /\ W[U[n] - 1] = "FF" /\ W[U[n]] = "D9"
          /\ \A p \in (U[n - 1] + 2)..U[n] : ~(W[p] = "FF" /\ W[p + 1] = "D8")
      BY FrameMarkers
    <3> QED BY <3>1, <3>2
  <2> QED BY <2>1, <2>4, <2>5
<1>6. CASE e < L /\ a >= U[e] + 2
  <2>1. PICK u \in Nat, v \in Nat :
          /\ u = U[e] /\ v = U[e + 1] /\ v >= u + 4 /\ v <= Len(W)
          /\ W[u + 1] = "FF" /\ W[u + 2] = "D8" /\ W[v - 1] = "FF" /\ W[v] = "D9"
          /\ \A p \in (u + 3)..(v - 2) : ~(W[p] = "FF" /\ W[p + 1] = "D9")
          /\ SubSeq(W, u + 1, v) = w[e + 1]
    <3>1. e + 1 \in 1..L
      BY <1>6
    <3>2. PICK n \in 1..L : n = e + 1
      BY <3>1
    <3>3. n - 1 = e
      BY <3>2
    <3>4. /\ U[n - 1] \in Nat /\ U[n] \in Nat /\ U[n] >= U[n - 1] + 4 /\ U[n] <= Len(W)
          /\ W[U[n - 1] + 1] = "FF" /\ W[U[n - 1] + 2] = "D8"
          /\ W[U[n] - 1] = "FF" /\ W[U[n]] = "D9"
          /\ \A p \in (U[n - 1] + 3)..(U[n] - 2) : ~(W[p] = "FF" /\ W[p + 1] = "D9")
      BY FrameMarkers
    <3>5. SubSeq(W, U[n - 1] + 1, U[n]) = w[n]
      BY WholeItem
    <3> QED BY <3>2, <3>3, <3>4, <3>5
  <2>2. PICK s \in Nat : s = u + 1 - c /\ s = u - c + 1 /\ s \in 1..(a - c - 1) /\ c + s = u + 1
    <3>1. c <= u /\ a >= u + 2
      BY <1>4, <1>6, <2>1
    <3>2. /\ u + 1 - c \in 1..(a - c - 1) /\ u + 1 - c \in Nat /\ u + 1 - c = u - c + 1
          /\ c + (u + 1 - c) = u + 1
      BY <3>1
    <3> QED BY <3>2
  <2>3. s \in S
    <3>1. c + s + 1 = u + 2
      BY <2>2
    <3> QED BY <1>3, <2>1, <2>2, <3>1
  <2>4. Min(S) = s
    <3>1. S \subseteq Nat
      BY <1>3
    <3>2. \A i \in S : s <= i
      BY <1>5, <2>1, <2>2, <3>1
    <3> QED BY <2>3, <3>1, <3>2, MinIs
  <2>5. PICK E : /\ E = Markers(b, "D9", s + 2)
                 /\ E = {i \in (s + 2)..(a - c - 1) : W[c + i] = "FF" /\ W[c + i + 1] = "D9"}
    <3>1. Markers(b, "D9", s + 2) = {i \in (s + 2)..(a - c - 1) : b[i] = "FF" /\ b[i + 1] = "D9"}
      BY <1>2 DEF Markers
    <3>2. \A i \in (s + 2)..(a - c - 1) : b[i] = W[c + i] /\ b[i + 1] = W[c + i + 1]
      <4>1. \A i \in (s + 2)..(a - c - 1) : i \in 1..(a - c) /\ i + 1 \in 1..(a - c) /\ c + (i + 1) = c + i + 1
        OBVIOUS
      <4> QED BY <1>2, <4>1
    <3> QED BY <3>1, <3>2, ZenonT(30)
  <2>6. ASSUME NEW i \in E PROVE c + i >= v - 1
    <3>1. i \in Nat
      BY <2>5
    <3> SUFFICES ASSUME c + i <= v - 2 PROVE FALSE
      BY <3>1
    <3>2. i \in Nat /\ i >= s + 2 /\ W[c + i] = "FF" /\ W[c + i + 1] = "D9"
      BY <2>5
    <3>3. c + i \in (u + 3)..(v - 2)
      BY <2>2, <3>2
    <3> QED BY <2>1, <3>2, <3>3
  <2>7. CASE v <= a
    <3>1. PICK t \in Nat : t = v - 1 - c /\ t \in (s + 2)..(a - c - 1) /\ c + t = v - 1 /\ c + t + 1 = v
      <4>1. c <= u
        BY <1>4, <2>1
      <4>2. /\ v - 1 - c \in Nat /\ v - 1 - c \in (s + 2)..(a - c - 1)
            /\ c + (v - 1 - c) = v - 1 /\ c + (v - 1 - c) + 1 = v
        <5>1. v >= u + 4 /\ s = u + 1 - c /\ v <= a
          BY <2>1, <2>2, <2>7
        <5> QED BY <4>1, <5>1
      <4> QED BY <4>2
    <3>2. t \in E
      BY <2>1, <2>5, <3>1
    <3>3. Min(E) = t
      <4>1. E \subseteq Nat
        BY <2>5
      <4>2. \A i \in E : t <= i
        BY <2>6, <3>1, <4>1
      <4> QED BY <3>2, <4>1, <4>2, MinIs
    <3>4. out = [items |-> <<SubSeq(b, s, t + 1)>>, rest |-> SubSeq(b, t + 2, Len(b))]
      <4>1. S # {} /\ E # {}
        BY <2>3, <3>2
      <4> QED BY <1>1, <1>3, <2>4, <2>5, <3>3, <4>1 DEF FirstFrame
    <3>5. SubSeq(b, s, t + 1) = SubSeq(W, u + 1, v)
      <4>1. SubSeq(SubSeq(W, c + 1, a), u - c + 1, v - c) = SubSeq(W, u + 1, v)
        <5>1. c <= u /\ u <= v /\ v <= a
          BY <1>4, <2>1, <2>7
        <5>2. W \in Seq(Bytes) /\ u \in Nat /\ v \in Nat
          BY <1>2
        <5> HIDE DEF out
        <5> QED BY <5>1, <5>2, PieceOfPiece
      <4>2. t + 1 = v - c
        BY <3>1
      <4> QED BY <1>1, <2>2, <4>1, <4>2
    <3>6. SubSeq(b, t + 2, Len(b)) = SubSeq(W, v + 1, a)
      <4>1. SubSeq(SubSeq(W, c + 1, a), v - c + 1, a - c) = SubSeq(W, v + 1, a)
        <5>1. c <= u
          BY <1>4, <2>1
        <5>2. c <= v /\ v <= a /\ a <= a
          BY <2>1, <2>7, <5>1
        <5>3. W \in Seq(Bytes) /\ v \in Nat
          BY <1>2
        <5> QED BY <5>2, <5>3, PieceOfPiece
      <4>2. t + 2 = v - c + 1
        BY <3>1
      <4> QED BY <1>1, <1>2, <4>1, <4>2
    <3> QED BY <1>6, <2>1, <2>7, <3>4, <3>5, <3>6
  <2>8. CASE ~(v <= a)
    <3>1. E = {}
      <4> SUFFICES ASSUME NEW i \in E PROVE FALSE
        OBVIOUS
      <4>1. i \in Nat /\ i <= a - c - 1 /\ c + i >= v - 1
        BY <2>5, <2>6
      <4> QED BY <2>1, <2>8, <4>1
    <3>2. out = [items |-> <<>>, rest |-> SubSeq(b, s, Len(b))]
      <4>1. S # {}
        BY <2>3
      <4> QED BY <1>1, <1>3, <2>4, <2>5, <3>1, <4>1 DEF FirstFrame
    <3>3. SubSeq(b, s, Len(b)) = SubSeq(W, u + 1, a)
      <4>1. SubSeq(SubSeq(W, c + 1, a), u - c + 1, a - c) = SubSeq(W, u + 1, a)
        <5>1. c <= u /\ u <= a /\ a <= a
          BY <1>4, <1>6, <2>1, SMTT(30)
        <5>2. W \in Seq(Bytes) /\ u \in Nat /\ v \in Nat
          BY <1>2
        <5> HIDE DEF out
        <5> QED BY <5>1, <5>2, PieceOfPiece
      <4> QED BY <1>1, <1>2, <2>2, <4>1
    <3> QED BY <1>6, <2>1, <2>8, <3>2, <3>3
  <2> QED BY <2>7, <2>8
<1>7. CASE ~(e < L /\ a >= U[e] + 2)
  <2>1. ~(a >= U[e] + 2)
    <3> SUFFICES ASSUME e = L PROVE ~(a >= U[e] + 2)
      BY <1>7
    <3>1. U[L] = Len(W)
      BY DEF BackToBack
    <3> QED BY <1>2, <1>4, <3>1
  <2>2. S = {}
    <3> SUFFICES ASSUME NEW i \in S PROVE FALSE
      OBVIOUS
    <3>1. i \in Nat /\ i <= a - c - 1 /\ c + i >= U[e] + 1
      BY <1>3, <1>5
    <3> QED BY <1>4, <2>1, <3>1
  <2>3. out = [items |-> <<>>, rest |-> <<>>]
    BY <1>1, <1>3, <2>2 DEF FirstFrame
  <2>4. ~(e < L /\ U[e + 1] <= a)
    <3> SUFFICES ASSUME e < L, U[e + 1] <= a PROVE FALSE
      OBVIOUS
    <3>1. e + 1 \in 1..L /\ e + 1 - 1 = e
      OBVIOUS
    <3>2. PICK n \in 1..L : n = e + 1 /\ n - 1 = e
      BY <3>1
    <3>3. U[n - 1] + 3 <= U[n] /\ U[n] \in Nat
      BY WholeItem
    <3> QED BY <1>4, <2>1, <3>2, <3>3
  <2> QED BY <2>1, <2>3, <2>4
<1> QED BY <1>6, <1>7

\* The same for lines, of which none is torn.
LEMMA FirstLineIs ==
    ASSUME NEW B, NEW L \in Nat, NEW items, NEW w, NEW U, NEW W, BackToBack(B, L, w, U, W),
           \A n \in 1..L : w[n] = OnTheWire(items[n]), NEW e \in 0..L, NEW a \in Nat,
           U[e] <= a, a <= Len(W)
    PROVE  PassIs(FirstLine(SubSeq(W, U[e] + 1, a)), L, items, U, W, e, a, SubSeq(W, U[e] + 1, a))
<1>1. PICK u \in Nat : u = U[e] /\ u <= a
  BY DEF BackToBack
<1>2. PICK b : b = SubSeq(W, u + 1, a)
  OBVIOUS
<1> SUFFICES
      /\ (e < L /\ U[e + 1] <= a) =>
            FirstLine(b) = [items |-> <<items[e + 1]>>, rest |-> SubSeq(W, U[e + 1] + 1, a)]
      /\ ~(e < L /\ U[e + 1] <= a) => FirstLine(b) = [items |-> <<>>, rest |-> b]
  BY <1>2, <1>1 DEF PassIs
<1>3. /\ W \in Seq(B) /\ b \in Seq(B) /\ Len(b) = a - u /\ \A i \in 1..(a - u) : b[i] = W[u + i]
  <2>1. W \in Seq(B)
    BY DEF BackToBack
  <2>2. /\ SubSeq(W, u + 1, a) \in Seq(B) /\ Len(SubSeq(W, u + 1, a)) = a - u
        /\ \A i \in 1..(a - u) : SubSeq(W, u + 1, a)[i] = W[u + i]
    BY <1>1, <2>1, Piece, SMTT(30)
  <2> QED BY <1>2, <2>1, <2>2
<1>4. PICK E : E = {i \in 1..(a - u) : W[u + i] = NewLine} /\ E = {i \in DOMAIN b : b[i] = NewLine}
  <2>1. DOMAIN b = 1..(a - u)
    BY <1>3
  <2> QED BY <1>3, <2>1
<1>5. CASE e < L
  <2>1. PICK n \in 1..L, v \in Nat : n = e + 1 /\ n - 1 = e /\ v = U[n] /\ v <= Len(W)
    <3>1. PICK n \in 1..L : n = e + 1 /\ n - 1 = e
      BY <1>5
    <3>2. U[n] \in Nat /\ U[n] <= Len(W)
      BY WholeItem
    <3> QED BY <3>1, <3>2
  <2>2. PICK x, y, z : /\ w[n] = <<x, y, z>> /\ z = NewLine /\ x # z /\ y # z
                       /\ x.half = 1 /\ x.line = items[n]
    <3>1. w[n] = <<Half(items[n], 1), Half(items[n], 2), NewLine>>
      BY DEF OnTheWire
    <3>2. /\ Half(items[n], 1).half = 1 /\ Half(items[n], 2).half = 2 /\ NewLine.half = 0
          /\ Half(items[n], 1).line = items[n]
      BY DEF Half, NewLine
    <3>3. Half(items[n], 1) # NewLine /\ Half(items[n], 2) # NewLine
      BY <3>2
    <3> QED BY <3>1, <3>2, <3>3
  <2>3. v = u + 3 /\ W[u + 1] = x /\ W[u + 2] = y /\ W[u + 3] = z
    <3>1. U[n] = U[n - 1] + Len(w[n]) /\ \A i \in 1..Len(w[n]) : W[U[n - 1] + i] = w[n][i]
      BY DEF BackToBack
    <3>2. Len(w[n]) = 3 /\ w[n][1] = x /\ w[n][2] = y /\ w[n][3] = z
      BY <2>2
    <3>3. 1 \in 1..3 /\ 2 \in 1..3 /\ 3 \in 1..3
      OBVIOUS
    <3> QED BY <1>1, <2>1, <3>1, <3>2, <3>3
  <2>4. W[u + 1] # NewLine /\ W[u + 2] # NewLine /\ W[u + 3] = NewLine
    BY <2>2, <2>3
  <2>5. CASE v <= a
    <3>1. 3 \in E
      BY <1>4, <2>3, <2>4, <2>5
    <3>2. Min(E) = 3
      <4>1. ASSUME NEW i \in E PROVE i \in Nat /\ 3 <= i
        <5>1. i \in Nat /\ i >= 1 /\ W[u + i] = NewLine
          BY <1>4
        <5>2. i # 1 /\ i # 2
          BY <2>4, <5>1
        <5> QED BY <5>1, <5>2
      <4>2. E \subseteq Nat
        BY <4>1
      <4> QED BY <3>1, <4>1, <4>2, MinIs
    <3>3. b[1] = x
      <4>1. 1 \in 1..(a - u)
        BY <2>3, <2>5
      <4> QED BY <1>3, <2>3, <4>1
    <3>4. FirstLine(b) = [items |-> <<items[n]>>, rest |-> SubSeq(b, 4, a - u)]
      <4>1. E # {}
        BY <3>1
      <4>2. b[1].half = 1 /\ b[1].line = items[n] /\ Min(E) + 1 = 4
        BY <2>2, <3>2, <3>3
      <4> QED BY <1>3, <1>4, <4>1, <4>2 DEF FirstLine
    <3>5. SubSeq(b, 4, a - u) = SubSeq(W, v + 1, a)
      <4>1. u <= v /\ v <= a /\ a <= a /\ v - u + 1 = 4
        BY <2>3, <2>5
      <4>2. SubSeq(SubSeq(W, u + 1, a), v - u + 1, a - u) = SubSeq(W, v + 1, a)
        <5>1. W \in Seq(B) /\ u <= a /\ a <= Len(W) /\ u <= v /\ v <= a /\ a <= a
          BY <1>3, <4>1
        <5> QED BY ONLY <5>1, PieceOfPiece
      <4> QED BY <1>2, <4>1, <4>2
    <3> QED BY <1>5, <2>1, <2>5, <3>4, <3>5
  <2>6. CASE ~(v <= a)
    <3>1. E = {}
      <4> SUFFICES ASSUME NEW i \in E PROVE FALSE
        OBVIOUS
      <4>1. i \in Nat /\ i >= 1 /\ i <= a - u /\ W[u + i] = NewLine
        BY <1>4
      <4>2. i = 1 \/ i = 2
        BY <2>3, <2>6, <4>1
      <4> QED BY <2>4, <4>1, <4>2
    <3>2. FirstLine(b) = [items |-> <<>>, rest |-> b]
      BY <1>4, <3>1 DEF FirstLine
    <3> QED BY <2>1, <2>6, <3>2
  <2> QED BY <2>5, <2>6
<1>6. CASE ~(e < L)
  <2>1. u = Len(W)
    <3>1. e = L /\ U[L] = Len(W)
      BY <1>6 DEF BackToBack
    <3> QED BY <1>1, <3>1
  <2>2. E = {}
    <3>1. a - u = 0
      BY <1>1, <2>1
    <3> QED BY <1>4, <3>1
  <2> QED BY <1>4, <1>6, <2>2 DEF FirstLine
<1> QED BY <1>5, <1>6

\* What a stream of kind k carries, and where in it a pass may resume: behind item e,
\* or inside frame e.  What it keeps begins where item e ends.
Carries(k, B, L, items, w, U, W) ==
    /\ BackToBack(B, L, w, U, W)
    /\ \A n \in 1..L : w[n] = Wire(k, items[n])
    /\ k = "rtsp" => B = Bytes /\ \A n \in 1..L : IsJpeg(w[n])

Resumes(k, U, e, c) == c = U[e] \/ (k = "rtsp" /\ e >= 1 /\ U[e - 1] < c /\ c <= U[e])

Kept(k, U, W, e, a) == IF k # "rtsp" \/ a >= U[e] + 2 THEN SubSeq(W, U[e] + 1, a) ELSE <<>>

\* One pass, for either kind of stream.
LEMMA FirstIs ==
    ASSUME NEW k, NEW B, NEW L \in Nat, NEW items, NEW w, NEW U, NEW W, Carries(k, B, L, items, w, U, W),
           NEW e \in 0..L, NEW c \in Nat, NEW a \in Nat, Resumes(k, U, e, c), c <= a, a <= Len(W)
    PROVE  PassIs(First(k, SubSeq(W, c + 1, a)), L, items, U, W, e, a, Kept(k, U, W, e, a))
<1>1. CASE k = "rtsp"
  <2>1. BackToBack(Bytes, L, w, U, W) /\ \A n \in 1..L : IsJpeg(w[n]) /\ w[n] = items[n]
    BY <1>1 DEF Carries, Wire
  <2>2. c = U[e] \/ (e >= 1 /\ U[e - 1] < c /\ c <= U[e])
    BY DEF Resumes
  <2>3. PassIs(FirstFrame(SubSeq(W, c + 1, a)), L, w, U, W, e, a,
               IF a >= U[e] + 2 THEN SubSeq(W, U[e] + 1, a) ELSE <<>>)
    BY <2>1, <2>2, FirstFrameIs
  <2>4. e < L => w[e + 1] = items[e + 1]
    <3>1. e < L => e + 1 \in 1..L
      OBVIOUS
    <3> QED BY <2>1, <3>1
  <2> QED BY <1>1, <2>3, <2>4 DEF First, Kept, PassIs
<1>2. CASE k # "rtsp"
  <2>1. BackToBack(B, L, w, U, W) /\ \A n \in 1..L : w[n] = OnTheWire(items[n])
    BY <1>2 DEF Carries, Wire
  <2>2. c = U[e] /\ U[e] <= a
    BY <1>2 DEF Resumes
  <2>3. PassIs(FirstLine(SubSeq(W, U[e] + 1, a)), L, items, U, W, e, a, SubSeq(W, U[e] + 1, a))
    BY <2>1, <2>2, FirstLineIs
  <2> QED BY <1>2, <2>2, <2>3 DEF First, Kept
<1> QED BY <1>1, <1>2

\* A pass over what is kept finds nothing more.
LEMMA FirstOfKept ==
    ASSUME NEW k, NEW B, NEW L \in Nat, NEW items, NEW w, NEW U, NEW W, Carries(k, B, L, items, w, U, W),
           NEW e \in 0..L, NEW a \in Nat, a <= Len(W), k # "rtsp" => U[e] <= a,
           ~(e < L /\ U[e + 1] <= a)
    PROVE  First(k, Kept(k, U, W, e, a)) = [items |-> <<>>, rest |-> Kept(k, U, W, e, a)]
<1>1. U[e] \in Nat /\ W \in Seq(B)
  BY DEF Carries, BackToBack
<1>2. CASE k # "rtsp" \/ a >= U[e] + 2
  <2>1. U[e] <= a /\ Resumes(k, U, e, U[e])
    BY <1>1, <1>2 DEF Resumes
  <2>2. PassIs(First(k, SubSeq(W, U[e] + 1, a)), L, items, U, W, e, a, Kept(k, U, W, e, a))
    BY <1>1, <2>1, FirstIs
  <2>3. First(k, SubSeq(W, U[e] + 1, a)) = [items |-> <<>>, rest |-> Kept(k, U, W, e, a)]
    BY <2>2 DEF PassIs
  <2> QED BY <1>2, <2>3 DEF Kept
<1>3. CASE ~(k # "rtsp" \/ a >= U[e] + 2)
  <2>1. Markers(<<>>, "D8", 1) = {}
    BY DEF Markers
  <2>2. FirstFrame(<<>>) = [items |-> <<>>, rest |-> <<>>]
    BY <2>1 DEF FirstFrame
  <2> QED BY <1>3, <2>2 DEF First, Kept
<1> QED BY <1>2, <1>3

\* The passes of Split define a function.
Passes(A, k, b, N) ==
    /\ A[0] = [items |-> <<>>, rest |-> b]
    /\ \A n \in 1..N : A[n] = [items |-> A[n - 1].items \o First(k, A[n - 1].rest).items,
                               rest |-> First(k, A[n - 1].rest).rest]
    /\ Split(k, b) = A[N]

LEMMA PassesDefined ==
    ASSUME NEW k, NEW b, NEW N \in Nat, N = Len(b)
    PROVE  \E A : Passes(A, k, b, N)
<1> DEFINE Pass(left) == [items |-> left.items \o First(k, left.rest).items, rest |-> First(k, left.rest).rest]
           Is(f, m) == f = [n \in 0..m |-> IF n = 0 THEN [items |-> <<>>, rest |-> b] ELSE Pass(f[n - 1])]
           Bad == {m \in Nat : ~ \E f : Is(f, m)}
<1>1. Bad = {}
  <2> HIDE DEF Pass
  <2> SUFFICES ASSUME Bad # {} PROVE FALSE
    OBVIOUS
  <2>1. PICK x \in Bad : \A m \in Bad : x <= m
    <3>1. Bad \subseteq Nat
      OBVIOUS
    <3> HIDE DEF Bad
    <3> QED BY <3>1, LeastNat
  <2>2. x # 0
    <3>1. Is([n \in 0..0 |-> [items |-> <<>>, rest |-> b]], 0)
      OBVIOUS
    <3> QED BY <3>1
  <2>3. x - 1 \in Nat /\ x - 1 \notin Bad
    <3>1. x \in Nat
      OBVIOUS
    <3> HIDE DEF Bad
    <3> QED BY <2>1, <2>2, <3>1
  <2>4. PICK f : Is(f, x - 1)
    BY <2>3
  <2>5. PICK g : g = [n \in 0..x |-> IF n = x THEN Pass(f[x - 1]) ELSE f[n]]
    OBVIOUS
  <2>6. ASSUME NEW n \in 0..x
        PROVE  g[n] = IF n = 0 THEN [items |-> <<>>, rest |-> b] ELSE Pass(g[n - 1])
    <3>1. CASE n = x
      <4>1. g[n] = Pass(f[x - 1]) /\ g[x - 1] = f[x - 1]
        <5>1. n \in 0..x /\ x - 1 \in 0..x /\ x - 1 # x
          BY <2>2, <2>3
        <5> QED BY <2>5, <3>1, <5>1
      <4> QED BY <2>2, <3>1, <4>1
    <3>2. CASE n # x
      <4>1. n \in 0..(x - 1) /\ g[n] = f[n]
        BY <2>5, <2>6, <3>2
      <4>2. f[n] = IF n = 0 THEN [items |-> <<>>, rest |-> b] ELSE Pass(f[n - 1])
        BY <2>4, <4>1
      <4>3. n # 0 => g[n - 1] = f[n - 1]
        BY <2>5, <4>1
      <4> QED BY <4>1, <4>2, <4>3
    <3> QED BY <3>1, <3>2
  <2>7. Is(g, x)
    <3>1. g = [n \in 0..x |-> g[n]]
      BY <2>5
    <3> QED BY <2>6, <3>1, Zenon
  <2> QED BY <2>1, <2>7
<1>2. \E f : Is(f, N)
  <2>1. N \notin Bad
    BY <1>1
  <2> HIDE DEF Is
  <2> QED BY <2>1
<1> DEFINE after == CHOOSE g : Is(g, N)
<1>3. Is(after, N) /\ Split(k, b) = after[N]
  <2>1. Is(after, N)
    BY <1>2
  <2>2. Split(k, b) = after[N]
    BY DEF Split
  <2> QED BY <2>1, <2>2
<1>4. PICK A : Is(A, N) /\ Split(k, b) = A[N]
  BY <1>3
<1>5. \A n \in 0..N : A[n] = IF n = 0 THEN [items |-> <<>>, rest |-> b] ELSE Pass(A[n - 1])
  <2> HIDE DEF Pass
  <2> QED BY <1>4
<1>6. A[0] = [items |-> <<>>, rest |-> b] /\ \A n \in 1..N : A[n] = Pass(A[n - 1])
  <2> HIDE DEF Pass
  <2>1. \A n \in 1..N : n \in 0..N /\ n # 0
    OBVIOUS
  <2> QED BY <1>5, <2>1
<1> QED BY <1>4, <1>6 DEF Passes

\* The items cut, and one more.
LEMMA OneMore ==
    ASSUME NEW T, NEW L \in Nat, NEW items \in [1..L -> T], NEW e \in Nat, NEW n \in Nat, n >= 1, e + n <= L
    PROVE  [i \in 1..(n - 1) |-> items[e + i]] \o <<items[e + n]>> = [i \in 1..n |-> items[e + i]]
<1>1. \A i \in 1..n : e + i \in 1..L /\ items[e + i] \in T
  <2>1. \A i \in 1..n : e + i \in 1..L
    OBVIOUS
  <2> QED BY <2>1
<1>2. PICK p \in Seq(T) : /\ p = [i \in 1..(n - 1) |-> items[e + i]] /\ Len(p) = n - 1
                          /\ \A i \in 1..(n - 1) : p[i] = items[e + i]
  <2>1. n - 1 \in Nat /\ \A i \in 1..(n - 1) : i \in 1..n
    OBVIOUS
  <2>2. PICK p : p = [i \in 1..(n - 1) |-> items[e + i]]
    OBVIOUS
  <2>3. p \in [1..(n - 1) -> T] /\ \A i \in 1..(n - 1) : p[i] = items[e + i]
    BY <1>1, <2>1, <2>2
  <2>4. p \in Seq(T) /\ Len(p) = n - 1
    BY <2>1, <2>3
  <2> QED BY <2>2, <2>3, <2>4
<1>3. PICK q \in Seq(T) : q = <<items[e + n]>> /\ Len(q) = 1 /\ q[1] = items[e + n]
  <2>1. PICK x \in T : x = items[e + n]
    <3>1. n \in 1..n
      OBVIOUS
    <3> QED BY <1>1, <3>1
  <2>2. <<x>> \in Seq(T) /\ Len(<<x>>) = 1 /\ <<x>>[1] = x
    OBVIOUS
  <2> QED BY <2>1, <2>2
<1>4. PICK r \in Seq(T) : r = [i \in 1..n |-> items[e + i]] /\ Len(r) = n /\ \A i \in 1..n : r[i] = items[e + i]
  <2>1. PICK r : r = [i \in 1..n |-> items[e + i]]
    OBVIOUS
  <2>2. r \in [1..n -> T] /\ \A i \in 1..n : r[i] = items[e + i]
    BY <1>1, <2>1
  <2>3. r \in Seq(T) /\ Len(r) = n
    BY <2>2
  <2> QED BY <2>1, <2>2, <2>3
<1>5. /\ p \o q \in Seq(T) /\ Len(p \o q) = n
      /\ \A i \in 1..(n - 1) : (p \o q)[i] = p[i]
      /\ (p \o q)[n] = q[1]
  <2>1. /\ p \o q \in Seq(T) /\ Len(p \o q) = Len(p) + Len(q)
        /\ \A i \in 1..Len(p) : (p \o q)[i] = p[i]
        /\ \A i \in 1..Len(q) : (p \o q)[Len(p) + i] = q[i]
    BY ConcatProperties
  <2>2. 1 \in 1..1 /\ n - 1 + 1 = n
    OBVIOUS
  <2> QED BY <1>2, <1>3, <2>1, <2>2
<1>6. PICK z \in Seq(T) : z = p \o q
  BY <1>5
<1>7. \A i \in 1..n : z[i] = r[i]
  <2>1. \A i \in 1..n : i \in 1..(n - 1) \/ i = n
    OBVIOUS
  <2> QED BY <1>2, <1>3, <1>4, <1>5, <1>6, <2>1
<1>8. z = r
  <2>1. Len(z) = Len(r) /\ \A i \in 1..Len(z) : z[i] = r[i]
    BY <1>4, <1>5, <1>6, <1>7
  <2> QED BY <2>1, SeqEqual
<1> QED BY <1>2, <1>3, <1>4, <1>6, <1>8

\* The fields of what a pass returns.
LEMMA RecordFields ==
    ASSUME NEW x, NEW y, NEW r, r = [items |-> x, rest |-> y]
    PROVE  r.items = x /\ r.rest = y
OBVIOUS

\* The items from e + 1 to h were cut.
CutTo(out, items, e, h, kept) == out = [items |-> [i \in 1..(h - e) |-> items[e + i]], rest |-> kept]

\* Everything Split finds behind item e: the items up to h, in order, and what is kept.
LEMMA SplitIs ==
    ASSUME NEW k, NEW B, NEW T, NEW L \in Nat, NEW items \in [1..L -> T], NEW w, NEW U, NEW W,
           Carries(k, B, L, items, w, U, W), NEW e \in 0..L, NEW c \in Nat, NEW a \in Nat,
           Resumes(k, U, e, c), c < a, a <= Len(W),
           NEW h \in e..L, h = e \/ U[h] <= a, h = L \/ ~(U[h + 1] <= a)
    PROVE  CutTo(Split(k, SubSeq(W, c + 1, a)), items, e, h, Kept(k, U, W, h, a))
<1>1. BackToBack(B, L, w, U, W) /\ W \in Seq(B) /\ U \in [0..L -> Nat]
  BY DEF Carries, BackToBack
<1>2. PICK b : b = SubSeq(W, c + 1, a)
  OBVIOUS
<1>3. PICK N \in Nat : N = Len(b) /\ N = a - c /\ N >= 1
  <2>1. Len(SubSeq(W, c + 1, a)) = a - c
    <3>1. c <= a
      OBVIOUS
    <3> QED BY <1>1, <3>1, Piece
  <2> QED BY <1>2, <2>1
<1>4. PICK A : /\ A[0] = [items |-> <<>>, rest |-> b]
               /\ \A n \in 1..N : A[n] = [items |-> A[n - 1].items \o First(k, A[n - 1].rest).items,
                                          rest |-> First(k, A[n - 1].rest).rest]
               /\ Split(k, b) = A[N]
  <2>1. N \in Nat /\ N = Len(b)
    BY <1>3
  <2>2. \E A : Passes(A, k, b, N)
    BY <2>1, PassesDefined
  <2> QED BY <2>2 DEF Passes
<1> DEFINE Cut(n) == [i \in 1..n |-> items[e + i]]
           Start(n) == IF n = 0 THEN c ELSE U[e + n]
           Good(n) == A[n] = IF n <= h - e
                             THEN [items |-> Cut(n), rest |-> SubSeq(W, Start(n) + 1, a)]
                             ELSE [items |-> Cut(h - e), rest |-> Kept(k, U, W, h, a)]
<1>5. \A n \in 0..(h - e) : e + n \in 0..L /\ Resumes(k, U, e + n, Start(n)) /\ Start(n) \in Nat /\ Start(n) <= a
  <2> SUFFICES ASSUME NEW n \in 0..(h - e)
               PROVE  e + n \in 0..L /\ Resumes(k, U, e + n, Start(n)) /\ Start(n) \in Nat /\ Start(n) <= a
    OBVIOUS
  <2>1. PICK m \in 0..L : m = e + n /\ m <= h /\ h \in 0..L
    <3>1. e + n \in 0..L /\ e + n <= h
      OBVIOUS
    <3> QED BY <3>1
  <2>2. CASE n = 0
    BY <2>1, <2>2
  <2>3. CASE n # 0
    <3>1. U[m] + 3 * (h - m) <= U[h]
      BY <1>1, <2>1, Apart
    <3>2. U[h] <= a /\ U[h] \in Nat /\ U[m] \in Nat
      BY <1>1, <2>1, <2>3
    <3>3. U[m] <= a
      BY <2>1, <3>1, <3>2
    <3>4. Start(n) = U[m] /\ Resumes(k, U, m, U[m])
      BY <2>1, <2>3 DEF Resumes
    <3> QED BY <2>1, <3>2, <3>3, <3>4
  <2> QED BY <2>2, <2>3
<1>6. ASSUME NEW n \in 0..(h - e)
      PROVE  PassIs(First(k, SubSeq(W, Start(n) + 1, a)), L, items, U, W, e + n, a, Kept(k, U, W, e + n, a))
  <2>1. PICK m \in 0..L, s \in Nat : m = e + n /\ s = Start(n) /\ Resumes(k, U, m, s) /\ s <= a
    BY <1>5
  <2>2. PassIs(First(k, SubSeq(W, s + 1, a)), L, items, U, W, m, a, Kept(k, U, W, m, a))
    BY <2>1, FirstIs
  <2> HIDE DEF Start
  <2> QED BY <2>1, <2>2
<1>7. ~(h < L /\ U[h + 1] <= a) /\ (k # "rtsp" => U[h] <= a)
  <2>1. CASE h = e
    BY <2>1 DEF Resumes
  <2>2. CASE h # e
    BY <2>2
  <2> QED BY <2>1, <2>2
<1>8. First(k, Kept(k, U, W, h, a)) = [items |-> <<>>, rest |-> Kept(k, U, W, h, a)]
  <2>1. h \in 0..L
    OBVIOUS
  <2> QED BY <1>7, <2>1, FirstOfKept
<1>9. Good(0)
  <2>1. Cut(0) = <<>>
    OBVIOUS
  <2>2. Start(0) = c /\ 0 <= h - e
    OBVIOUS
  <2> HIDE DEF Cut, Start
  <2> QED BY <1>2, <1>4, <2>1, <2>2
<1>10. \A n \in 0..(h - e) : Cut(n) \in Seq(T)
  <2> SUFFICES ASSUME NEW n \in 0..(h - e) PROVE Cut(n) \in Seq(T)
    OBVIOUS
  <2>1. \A i \in 1..n : e + i \in 1..L
    OBVIOUS
  <2>2. Cut(n) \in [1..n -> T]
    BY <2>1
  <2> QED BY <2>2
<1>11. ASSUME NEW n \in 1..N, Good(n - 1) PROVE Good(n)
  <2>1. PICK m \in Nat : m = n - 1
    OBVIOUS
  <2>2. A[n] = [items |-> A[m].items \o First(k, A[m].rest).items, rest |-> First(k, A[m].rest).rest]
    BY <1>4, <2>1
  <2>3. CASE m < h - e
    <3>1. /\ A[m] = [items |-> Cut(m), rest |-> SubSeq(W, Start(m) + 1, a)] /\ m \in 0..(h - e)
          /\ e + m < L /\ e + m + 1 = e + n /\ n \in 0..(h - e) /\ n # 0
      <4>1. m <= h - e /\ m \in 0..(h - e) /\ e + m < L /\ e + m + 1 = e + n /\ n \in 0..(h - e) /\ n # 0
        BY <2>1, <2>3
      <4> HIDE DEF Cut, Start
      <4> QED BY <1>11, <2>1, <4>1
    <3>2. U[e + n] <= a /\ Start(n) = U[e + n]
      <4>1. Start(n) = U[e + n]
        BY <3>1
      <4>2. Start(n) <= a
        BY <1>5, <3>1
      <4> QED BY <4>1, <4>2
    <3>3. First(k, A[m].rest) = [items |-> <<items[e + n]>>, rest |-> SubSeq(W, U[e + n] + 1, a)]
      <4>1. PassIs(First(k, A[m].rest), L, items, U, W, e + m, a, Kept(k, U, W, e + m, a))
        <5>1. A[m].rest = SubSeq(W, Start(m) + 1, a)
          <6> HIDE DEF Cut, Start, Good
          <6>1. PICK p : p = SubSeq(W, Start(m) + 1, a)
            OBVIOUS
          <6>2. A[m] = [items |-> Cut(m), rest |-> p]
            BY <3>1, <6>1, Zenon
          <6>3. A[m].rest = p
            BY <6>2, RecordFields
          <6> QED BY <6>1, <6>3, Zenon
        <5> HIDE DEF Start
        <5> QED BY <1>6, <3>1, <5>1
      <4> QED BY <3>1, <3>2, <4>1 DEF PassIs
    <3>4. Cut(m) \o <<items[e + n]>> = Cut(n)
      <4>1. n \in Nat /\ n >= 1 /\ e + n <= L /\ e \in Nat
        BY <3>1
      <4> QED BY <2>1, <4>1, OneMore
    <3>5. n <= h - e
      BY <3>1
    <3> HIDE DEF Cut, Start
    <3>6. A[m].items = Cut(m) /\ First(k, A[m].rest).items = <<items[e + n]>>
          /\ First(k, A[m].rest).rest = SubSeq(W, Start(n) + 1, a)
      BY <3>1, <3>2, <3>3
    <3> QED BY <2>2, <3>4, <3>5, <3>6
  <2>4. CASE ~(m < h - e)
    <3>1. First(k, A[m].rest) = [items |-> <<>>, rest |-> Kept(k, U, W, h, a)] /\ A[m].items = Cut(h - e)
      <4>1. CASE m = h - e
        <5>1. A[m] = [items |-> Cut(m), rest |-> SubSeq(W, Start(m) + 1, a)] /\ m \in 0..(h - e) /\ e + m = h
          <6>1. m <= h - e /\ m \in 0..(h - e) /\ e + m = h
            BY <4>1
          <6> HIDE DEF Cut, Start
          <6> QED BY <1>11, <2>1, <6>1
        <5>2. PassIs(First(k, A[m].rest), L, items, U, W, h, a, Kept(k, U, W, h, a))
          <6>1. A[m].rest = SubSeq(W, Start(m) + 1, a)
            <7> HIDE DEF Cut, Start, Good
            <7>1. PICK p : p = SubSeq(W, Start(m) + 1, a)
              OBVIOUS
            <7>2. A[m] = [items |-> Cut(m), rest |-> p]
              BY <5>1, <7>1, Zenon
            <7>3. A[m].rest = p
              BY <7>2, RecordFields
            <7> QED BY <7>1, <7>3, Zenon
          <6> HIDE DEF Start
          <6> QED BY <1>6, <5>1, <6>1
        <5> HIDE DEF Cut, Start
        <5> QED BY <1>7, <4>1, <5>1, <5>2 DEF PassIs
      <4>2. CASE m # h - e
        <5>1. A[m] = [items |-> Cut(h - e), rest |-> Kept(k, U, W, h, a)]
          <6>1. ~(m <= h - e)
            BY <2>4, <4>2
          <6> HIDE DEF Cut, Start
          <6> QED BY <1>11, <2>1, <6>1
        <5> HIDE DEF Cut, Start
        <5> QED BY <1>8, <5>1
      <4> QED BY <4>1, <4>2
    <3>2. Cut(h - e) \o <<>> = Cut(h - e)
      <4>1. h - e \in 0..(h - e)
        OBVIOUS
      <4>2. Cut(h - e) \in Seq(T)
        BY <1>10, <4>1
      <4> HIDE DEF Cut
      <4> QED BY <4>2, ConcatEmptySeq
    <3>3. ~(n <= h - e)
      BY <2>1, <2>4
    <3> HIDE DEF Cut, Start
    <3> QED BY <2>2, <3>1, <3>2, <3>3
  <2> QED BY <2>3, <2>4
<1>12. \A n \in 0..N : Good(n)
  <2> DEFINE Bad == {n \in 0..N : ~Good(n)}
  <2> SUFFICES ASSUME Bad # {} PROVE FALSE
    OBVIOUS
  <2>1. PICK x \in Bad : \A m \in Bad : x <= m
    <3>1. Bad \subseteq Nat
      OBVIOUS
    <3> HIDE DEF Bad
    <3> QED BY <3>1, LeastNat
  <2>2. x \in 0..N /\ ~Good(x)
    OBVIOUS
  <2> HIDE DEF Good
  <2>3. x # 0
    BY <1>9, <2>2
  <2>4. x - 1 \in 0..N /\ ~(x <= x - 1) /\ x \in 1..N
    BY <2>2, <2>3
  <2>5. Good(x - 1)
    <3>1. x - 1 \notin Bad
      <4> HIDE DEF Bad
      <4> QED BY <2>1, <2>4
    <3> QED BY <2>4, <3>1
  <2> QED BY <1>11, <2>2, <2>4, <2>5
<1>13. N > h - e
  <2>1. CASE h = e
    BY <1>3, <2>1
  <2>2. CASE h # e
    <3>1. e \in 0..L /\ h \in 0..L /\ e <= h
      OBVIOUS
    <3>2. U[e] + 3 * (h - e) <= U[h]
      BY <1>1, <3>1, Apart
    <3>3. U[h] <= a /\ U[h] \in Nat /\ U[e] \in Nat
      BY <1>1, <2>2, <3>1
    <3>4. c <= U[e]
      BY <3>3 DEF Resumes
    <3>5. h - e \in Nat /\ h - e >= 1
      BY <2>2
    <3> QED BY <1>3, <3>2, <3>3, <3>4, <3>5
  <2> QED BY <2>1, <2>2
<1>14. A[N] = [items |-> Cut(h - e), rest |-> Kept(k, U, W, h, a)]
  <2>1. Good(N)
    <3>1. N \in 0..N
      OBVIOUS
    <3> QED BY <1>12, <3>1
  <2>2. ~(N <= h - e)
    BY <1>13
  <2> HIDE DEF Cut, Start
  <2> QED BY <2>1, <2>2
<1> QED BY <1>2, <1>4, <1>14 DEF CutTo

\* d items are whole among the first a bytes.
Reached(L, U, a, d) == d \in 0..L /\ U[d] <= a /\ (d = L \/ ~(U[d + 1] <= a))

\* There is such a number ...
LEMMA SomeReached ==
    ASSUME NEW L \in Nat, NEW U \in [0..L -> Nat], U[0] = 0, NEW a \in Nat
    PROVE  \E d : Reached(L, U, a, d)
<1> DEFINE Over == {n \in 0..L : ~(U[n] <= a)}
<1>1. CASE Over = {}
  <2>1. L \in 0..L /\ L \notin Over
    BY <1>1
  <2>2. Reached(L, U, a, L)
    BY <2>1 DEF Reached
  <2> QED BY <2>2
<1>2. CASE Over # {}
  <2>1. PICK x \in Over : \A m \in Over : x <= m
    <3>1. Over \subseteq Nat
      OBVIOUS
    <3> HIDE DEF Over
    <3> QED BY <1>2, <3>1, LeastNat
  <2>2. x \in 0..L /\ ~(U[x] <= a) /\ x # 0
    OBVIOUS
  <2>3. x - 1 \in 0..L /\ ~(x <= x - 1) /\ x - 1 + 1 = x
    BY <2>2
  <2>4. U[x - 1] <= a
    <3>1. x - 1 \notin Over
      <4> HIDE DEF Over
      <4> QED BY <2>1, <2>3
    <3> QED BY <2>3, <3>1
  <2>5. Reached(L, U, a, x - 1)
    BY <2>2, <2>3, <2>4 DEF Reached
  <2> QED BY <2>5
<1> QED BY <1>1, <1>2

\* The items take up the bytes in order.
Rising(L, U) == \A m, n \in 0..L : m <= n => U[m] + 3 * (n - m) <= U[n]

\* ... the items up to it have come, the others have not ...
LEMMA ReachedOnes ==
    ASSUME NEW L \in Nat, NEW U \in [0..L -> Nat], Rising(L, U), NEW a \in Nat, NEW d, Reached(L, U, a, d)
    PROVE  \A n \in 0..L : (U[n] <= a <=> n <= d)
<1>1. d \in 0..L /\ U[d] <= a
  BY DEF Reached
<1>2. ASSUME NEW n \in 0..L, U[n] <= a PROVE n <= d
  <2> SUFFICES ASSUME d < n PROVE FALSE
    BY <1>1
  <2>1. d + 1 \in 0..L /\ d + 1 <= n /\ d # L
    BY <1>1
  <2>2. ~(U[d + 1] <= a)
    BY <2>1 DEF Reached
  <2>3. U[d + 1] + 3 * (n - (d + 1)) <= U[n]
    BY <2>1 DEF Rising
  <2>4. U[d + 1] \in Nat /\ U[n] \in Nat
    BY <2>1
  <2> QED BY <1>2, <2>1, <2>2, <2>3, <2>4
<1>3. ASSUME NEW n \in 0..L, n <= d PROVE U[n] <= a
  <2>1. U[n] + 3 * (d - n) <= U[d]
    BY <1>1, <1>3 DEF Rising
  <2>2. U[n] \in Nat /\ U[d] \in Nat
    BY <1>1
  <2> QED BY <1>1, <1>3, <2>1, <2>2
<1> QED BY <1>2, <1>3

\* ... and Delivered is that number.
LEMMA ReachedIsMax ==
    ASSUME NEW L \in Nat, NEW U \in [0..L -> Nat], Rising(L, U), NEW a \in Nat, NEW d, Reached(L, U, a, d)
    PROVE  Max({n \in 0..L : U[n] <= a}) = d
<1>1. PICK S : S = {n \in 0..L : U[n] <= a}
  OBVIOUS
<1>2. S \subseteq Nat /\ d \in S /\ \A n \in S : n <= d
  <2>1. \A n \in 0..L : (U[n] <= a <=> n <= d)
    BY ReachedOnes
  <2> QED BY <1>1, <2>1 DEF Reached
<1>3. Max(S) = d
  BY <1>2, MaxIs
<1> QED BY <1>1, <1>3

\* The ranks of the whole items, when more have come behind the ones there were.
Ranked(X, Y, e, h, c) ==
    /\ Cardinality(X) = c /\ Cardinality(Y) = c + (h - e)
    /\ \A i \in X : {k \in Y : k <= i} = {k \in X : k <= i}
    /\ \A i \in (e + 1)..h : Cardinality({k \in Y : k <= i}) = c + (i - e)
    /\ \A i \in X : Cardinality({k \in X : k <= i}) \in 1..c

\* Items from e + 1 to h, all behind those in X, get the ranks after theirs.
LEMMA RanksGrow ==
    ASSUME NEW e \in Nat, NEW h \in Nat, e <= h, NEW X \in SUBSET (1..e), NEW Y, Y = X \cup ((e + 1)..h)
    PROVE  Cardinality(X) \in Nat /\ Ranked(X, Y, e, h, Cardinality(X))
<1>1. IsFiniteSet(X) /\ Cardinality(X) \in Nat
  <2>1. IsFiniteSet(1..e)
    BY FS_Interval
  <2>2. IsFiniteSet(X)
    BY <2>1, FS_Subset
  <2> QED BY <2>2, FS_CardinalityType
<1>2. ASSUME NEW i \in Nat, e <= i PROVE Cardinality(X \cup ((e + 1)..i)) = Cardinality(X) + (i - e)
  <2>1. PICK Z : Z = (e + 1)..i /\ IsFiniteSet(Z) /\ Cardinality(Z) = i - e
    <3>1. IsFiniteSet((e + 1)..i) /\ Cardinality((e + 1)..i) = IF e + 1 > i THEN 0 ELSE i - (e + 1) + 1
      <4>1. e + 1 \in Int /\ i \in Int
        OBVIOUS
      <4> QED BY <4>1, FS_Interval
    <3>2. (IF e + 1 > i THEN 0 ELSE i - (e + 1) + 1) = i - e
      BY <1>2
    <3> QED BY <3>1, <3>2
  <2>2. X \cap Z = {}
    BY <2>1
  <2>3. Cardinality(X \cup Z) = Cardinality(X) + Cardinality(Z) - Cardinality(X \cap Z)
    BY <1>1, <2>1, FS_Union
  <2>4. Cardinality(X \cap Z) = 0
    BY <2>2, FS_EmptySet
  <2>5. Cardinality(X \cup Z) = Cardinality(X) + (i - e)
    BY <1>1, <2>1, <2>3, <2>4
  <2> QED BY <2>1, <2>5
<1>3. Cardinality(Y) = Cardinality(X) + (h - e)
  BY <1>2
<1>4. \A i \in X : {k \in Y : k <= i} = {k \in X : k <= i}
  OBVIOUS
<1>5. ASSUME NEW i \in (e + 1)..h PROVE Cardinality({k \in Y : k <= i}) = Cardinality(X) + (i - e)
  <2>1. {k \in Y : k <= i} = X \cup ((e + 1)..i)
    <3>1. ASSUME NEW k \in X PROVE k \in Nat /\ k <= i
      <4>1. k \in 1..e
        OBVIOUS
      <4> QED BY <4>1
    <3>2. \A k \in (e + 1)..h : k <= i <=> k \in (e + 1)..i
      OBVIOUS
    <3>3. (e + 1)..i \subseteq (e + 1)..h
      OBVIOUS
    <3> QED BY <3>1, <3>2, <3>3
  <2>2. i \in Nat /\ e <= i
    OBVIOUS
  <2> QED BY <1>2, <2>1, <2>2
<1>6. ASSUME NEW i \in X PROVE Cardinality({k \in X : k <= i}) \in 1..Cardinality(X)
  <2>1. PICK Z : Z = {k \in X : k <= i} /\ Z \in SUBSET X /\ i \in Z
    <3>1. i \in 1..e
      OBVIOUS
    <3>2. i <= i
      BY <3>1
    <3> QED BY <3>2
  <2>2. IsFiniteSet(Z) /\ Cardinality(Z) <= Cardinality(X)
    BY <1>1, <2>1, FS_Subset
  <2>3. Cardinality(Z) \in Nat /\ Cardinality(Z) # 0
    BY <2>1, <2>2, FS_CardinalityType, FS_EmptySet
  <2> QED BY <1>1, <2>1, <2>2, <2>3
<1> QED BY <1>1, <1>3, <1>4, <1>5, <1>6 DEF Ranked

Halves(k) == {NewLine} \cup {Half(l, i) : l \in Lines(k), i \in {1, 2}}
Alphabet(k) == IF k = "rtsp" THEN Bytes ELSE Halves(k)
Wires(k, items) == [n \in 1..Len(items) |-> Wire(k, items[n])]
Ends(k, items) == [n \in 0..Len(items) |-> Len(SentUpto(k, items)[n])]
TornAt(k, items, z) == {i \in 1..Len(items) : k = "rtsp" /\ z = Ends(k, items)[i - 1] + 1}

\* Whatever a source shows is carried like that.
LEMMA SourceCarries ==
    ASSUME NEW k \in Streams, NEW items \in Seq(Lines(k))
    PROVE  /\ Carries(k, Alphabet(k), Len(items), items, Wires(k, items), Ends(k, items), Sent(k, items))
           /\ Ends(k, items) \in [0..Len(items) -> Nat] /\ Ends(k, items)[0] = 0
           /\ Rising(Len(items), Ends(k, items))
<1>1. PICK L \in Nat : L = Len(items) /\ items \in [1..L -> Lines(k)]
  OBVIOUS
<1>2. PICK w : w = Wires(k, items)
  OBVIOUS
<1>3. PICK U : U = Ends(k, items)
  OBVIOUS
<1>4. PICK B : B = Alphabet(k)
  OBVIOUS
<1>5. \A n \in 1..L : w[n] = Wire(k, items[n]) /\ items[n] \in Lines(k)
  BY <1>1, <1>2 DEF Wires
<1>6. ASSUME NEW n \in 1..L
      PROVE  w[n] \in Seq(B) /\ Len(w[n]) >= 3 /\ (k = "rtsp" => B = Bytes /\ IsJpeg(w[n]))
  <2>1. CASE k = "rtsp"
    <3>1. w[n] = items[n] /\ items[n] \in Frames
      BY <1>5, <2>1 DEF Wire, Lines
    <3>2. items[n] \in Seq(Bytes) /\ IsJpeg(items[n])
      BY <3>1, AdaptersAssumption
    <3>3. PICK f \in Seq(Bytes) : f = items[n] /\ IsJpeg(f)
      BY <3>2
    <3>4. Len(f) - 1 \in Markers(f, "D9", 3)
      BY <3>3 DEF IsJpeg
    <3>5. Len(f) >= 3
      <4>1. Len(f) \in Nat /\ Len(f) - 1 \in 3..(Len(f) - 1)
        BY <3>4 DEF Markers
      <4> QED BY <4>1
    <3> QED BY <1>4, <2>1, <3>1, <3>3, <3>5 DEF Alphabet
  <2>2. CASE k # "rtsp"
    <3>1. B = Halves(k) /\ w[n] = OnTheWire(items[n]) /\ items[n] \in Lines(k)
      BY <1>4, <1>5, <2>2 DEF Alphabet, Wire
    <3>2. PICK x \in B, y \in B, z \in B : w[n] = <<x, y, z>>
      <4>1. Half(items[n], 1) \in B /\ Half(items[n], 2) \in B /\ NewLine \in B
        BY <3>1 DEF Halves
      <4> QED BY <3>1, <4>1 DEF OnTheWire
    <3>3. <<x, y, z>> \in Seq(B) /\ Len(<<x, y, z>>) = 3
      OBVIOUS
    <3> QED BY <2>2, <3>2, <3>3
  <2> QED BY <2>1, <2>2
<1>7. BackToBack(B, L, w, U, Sent(k, items))
  <2>1. U = [n \in 0..L |-> Len(SentUpto(k, items)[n])]
    BY <1>1, <1>3 DEF Ends
  <2> QED BY <1>1, <1>5, <1>6, <2>1, SentBackToBack
<1>8. Carries(k, B, L, items, w, U, Sent(k, items))
  <2>1. \A n \in 1..L : w[n] = Wire(k, items[n])
    BY <1>5
  <2>2. k = "rtsp" => B = Bytes
    BY <1>4 DEF Alphabet
  <2>3. k = "rtsp" => \A n \in 1..L : IsJpeg(w[n])
    BY <1>6
  <2> QED BY <1>7, <2>1, <2>2, <2>3 DEF Carries
<1>9. U \in [0..L -> Nat] /\ U[0] = 0 /\ Rising(L, U)
  <2>1. U \in [0..L -> Nat] /\ U[0] = 0
    BY <1>7 DEF BackToBack
  <2>2. \A m, n \in 0..L : m <= n => U[m] + 3 * (n - m) <= U[n]
    BY <1>7, Apart
  <2> QED BY <2>1, <2>2 DEF Rising
<1> QED BY <1>1, <1>2, <1>3, <1>4, <1>8, <1>9

\* The items in `whole` have been taken up, once and in order.
TakenUp(items, js, whole) ==
    /\ Len(js) = Cardinality(whole)
    /\ \A i \in whole : js[Cardinality({k \in whole : k <= i})].item = items[i]

StreamJob(k) == [item : Lines(k), number : Nat, pc : {"sending", "done"},
                 outcome : {"none", "skipped", "reported", "published"}]

\* Where a stream is when a bytes have come, and d items are whole: a frame is torn
\* only if it has come, and the one that is coming is in the buffer from its start or,
\* where that was torn, not at all.
InStream(k, items, a, d, buf, tn, js) ==
    /\ items \in Seq(Lines(k))
    /\ a \in 0..Len(Sent(k, items)) /\ Reached(Len(items), Ends(k, items), a, d)
    /\ tn \subseteq 1..(d + 1) /\ (k # "rtsp" => tn = {})
    /\ d + 1 \in tn => d < Len(items) /\ Ends(k, items)[d] < a
    /\ buf = IF d + 1 \in tn THEN <<>> ELSE SubSeq(Sent(k, items), Ends(k, items)[d] + 1, a)
    /\ js \in Seq(StreamJob(k)) /\ \A j \in DOMAIN js : js[j].number = j
    /\ TakenUp(items, js, (1..d) \ tn)

\* A chunk of a stream: the items from e + 1 to h are cut from it, where e were done
\* with and h are whole now, or e still if that one is torn and not over.
LEMMA ChunkSplit ==
    ASSUME NEW k \in Streams, NEW items, NEW a, NEW d, NEW buf, NEW tn, NEW js,
           InStream(k, items, a, d, buf, tn, js), NEW n \in Nat, n >= 1, a + n <= Len(Sent(k, items)),
           NEW D, Reached(Len(items), Ends(k, items), a + n, D),
           NEW e, e = IF d + 1 \in tn THEN d + 1 ELSE d, NEW h, h = IF D >= e THEN D ELSE e
    PROVE  /\ e \in 0..Len(items) /\ h \in e..Len(items) /\ d <= D
           /\ CutTo(Split(k, buf \o SubSeq(Sent(k, items), a + 1, a + n)), items, e, h,
                    Kept(k, Ends(k, items), Sent(k, items), h, a + n))
<1>1. PICK L \in Nat : L = Len(items) /\ items \in [1..L -> Lines(k)] /\ items \in Seq(Lines(k))
  BY DEF InStream
<1>2. PICK U, W, B, w :
        /\ U = Ends(k, items) /\ W = Sent(k, items) /\ Carries(k, B, L, items, w, U, W) /\ Rising(L, U)
        /\ U \in [0..L -> Nat]
  BY <1>1, SourceCarries
<1>3. W \in Seq(B) /\ U[L] = Len(W) /\ Len(W) \in Nat
  BY <1>2 DEF Carries, BackToBack
<1>4. PICK z \in Nat : z = a + n /\ a \in Nat /\ a < z /\ z <= Len(W)
  BY <1>2, <1>3 DEF InStream
<1>5. Reached(L, U, a, d) /\ Reached(L, U, z, D) /\ d \in 0..L /\ D \in 0..L
  BY <1>1, <1>2, <1>4 DEF InStream, Reached
<1>6. U[d] <= a /\ U[D] <= z /\ (d = L \/ ~(U[d + 1] <= a)) /\ (D = L \/ ~(U[D + 1] <= z))
  BY <1>5 DEF Reached
<1>7. d <= D
  <2>1. \A m \in 0..L : (U[m] <= z <=> m <= D)
    BY <1>2, <1>5, ReachedOnes
  <2>2. U[d] <= z
    BY <1>2, <1>4, <1>5, <1>6
  <2> QED BY <1>5, <2>1, <2>2
<1>8. /\ d + 1 \in tn => d < L /\ U[d] < a /\ k = "rtsp"
      /\ buf = IF d + 1 \in tn THEN <<>> ELSE SubSeq(W, U[d] + 1, a)
  BY <1>1, <1>2 DEF InStream
<1>9. e \in 0..L /\ h \in e..L
  BY <1>5, <1>8
<1>10. PICK c \in Nat : /\ Resumes(k, U, e, c) /\ c < z
                        /\ buf \o SubSeq(W, a + 1, z) = SubSeq(W, c + 1, z)
  <2>1. SubSeq(W, a + 1, z) \in Seq(B)
    BY <1>3, <1>4, Piece
  <2>2. CASE d + 1 \in tn
    <3>1. e = d + 1 /\ e - 1 = d /\ U[e - 1] < a /\ k = "rtsp" /\ ~(U[e] <= a) /\ U[e] \in Nat
      BY <1>2, <1>5, <1>6, <1>8, <2>2
    <3>2. Resumes(k, U, e, a)
      <4>1. PICK u \in Nat : u = U[e] /\ ~(u <= a)
        BY <3>1
      <4>2. e >= 1 /\ a <= u
        BY <1>4, <1>5, <3>1, <4>1
      <4> QED BY <3>1, <4>1, <4>2 DEF Resumes
    <3>3. <<>> \o SubSeq(W, a + 1, z) = SubSeq(W, a + 1, z)
      BY <2>1, ConcatEmptySeq
    <3> QED BY <1>4, <1>8, <2>2, <3>2, <3>3
  <2>3. CASE d + 1 \notin tn
    <3>1. e = d /\ U[d] \in Nat /\ U[d] < z
      BY <1>2, <1>4, <1>5, <1>6, <2>3
    <3>2. SubSeq(W, U[d] + 1, a) \o SubSeq(W, a + 1, z) = SubSeq(W, U[d] + 1, z)
      <4>1. PICK u \in Nat : u = U[d] /\ u <= a
        BY <1>6, <3>1
      <4>2. u + 1 \in 1..(Len(W) + 1) /\ a \in (u + 1 - 1)..Len(W) /\ z \in a..Len(W)
        BY <1>3, <1>4, <4>1
      <4>3. SubSeq(W, u + 1, a) \o SubSeq(W, a + 1, z) = SubSeq(W, u + 1, z)
        <5>1. W \in Seq(B)
          BY <1>3
        <5> QED BY <4>2, <5>1, ConcatAdjacentSubSeq
      <4> QED BY <4>1, <4>3
    <3>3. Resumes(k, U, e, U[d])
      BY <3>1 DEF Resumes
    <3> QED BY <1>8, <2>3, <3>1, <3>2, <3>3
  <2> QED BY <2>2, <2>3
<1>11. (h = e \/ U[h] <= z) /\ (h = L \/ ~(U[h + 1] <= z))
  <2>1. CASE D >= e
    BY <1>6, <2>1
  <2>2. CASE ~(D >= e)
    <3>1. h = e /\ e = D + 1 /\ D # L
      BY <1>5, <1>7, <1>9, <2>2
    <3>2. CASE h = L
      BY <3>2, <3>1
    <3>3. CASE h # L
      <4>1. h \in 0..L /\ h + 1 \in 0..L /\ h <= h + 1
        BY <1>5, <1>9, <3>1, <3>3
      <4>2. PICK m \in 0..L : m = h + 1
        BY <4>1
      <4>3. U[h] + 3 * (m - h) <= U[m]
        BY <1>2, <4>1, <4>2 DEF Rising
      <4>4. PICK u \in Nat, v \in Nat : u = U[h] /\ v = U[m] /\ ~(u <= z)
        BY <1>2, <1>6, <3>1, <4>1
      <4>5. m - h = 1
        BY <4>1, <4>2
      <4>6. u + 3 * 1 <= v
        BY <4>3, <4>4, <4>5
      <4>7. ~(v <= z)
        BY <4>4, <4>6
      <4> QED BY <3>1, <4>2, <4>4, <4>7
    <3> QED BY <3>2, <3>3
  <2> QED BY <2>1, <2>2
<1>12. CutTo(Split(k, SubSeq(W, c + 1, z)), items, e, h, Kept(k, U, W, h, z))
  <2>1. Carries(k, B, L, items, w, U, W) /\ items \in [1..L -> Lines(k)]
    BY <1>1, <1>2
  <2>2. z <= Len(W)
    BY <1>4
  <2> QED BY <1>9, <1>10, <1>11, <2>1, <2>2, SplitIs
<1> QED BY <1>1, <1>2, <1>4, <1>7, <1>9, <1>10, <1>12

\* The items of a chunk are taken up behind those before.
LEMMA TakenUpMore ==
    ASSUME NEW T, NEW items, NEW js \in Seq(T), NEW q \in Seq(T), NEW e \in Nat, NEW h \in Nat, e <= h,
           NEW X \in SUBSET (1..e), TakenUp(items, js, X), Len(q) = h - e,
           \A i \in 1..(h - e) : q[i].item = items[e + i],
           NEW Y, Y = X \cup ((e + 1)..h)
    PROVE  TakenUp(items, js \o q, Y)
<1>1. PICK c \in Nat : c = Cardinality(X) /\ c = Len(js)
  <2>1. Cardinality(X) \in Nat /\ Ranked(X, Y, e, h, Cardinality(X))
    BY RanksGrow
  <2> QED BY <2>1 DEF TakenUp
<1>2. PICK z : /\ z = js \o q /\ Len(z) = c + (h - e)
               /\ \A i \in 1..c : z[i] = js[i]
               /\ \A i \in 1..(h - e) : z[c + i] = q[i]
  <2>1. h - e \in Nat /\ h - e = Len(q)
    OBVIOUS
  <2>2. IsJoin(js \o q, js, q, c, h - e)
    BY <1>1, <2>1, Joined
  <2> QED BY <2>2 DEF IsJoin
<1>3. /\ Cardinality(Y) = c + (h - e)
      /\ \A i \in X : {k \in Y : k <= i} = {k \in X : k <= i}
      /\ \A i \in (e + 1)..h : Cardinality({k \in Y : k <= i}) = c + (i - e)
      /\ \A i \in X : Cardinality({k \in X : k <= i}) \in 1..c
  <2>1. Cardinality(X) \in Nat /\ Ranked(X, Y, e, h, Cardinality(X))
    BY RanksGrow
  <2> QED BY <1>1, <2>1 DEF Ranked
<1>4. ASSUME NEW i \in Y PROVE z[Cardinality({k \in Y : k <= i})].item = items[i]
  <2>1. CASE i \in X
    <3>1. PICK m \in 1..c : m = Cardinality({k \in X : k <= i}) /\ m = Cardinality({k \in Y : k <= i})
      BY <1>3, <2>1
    <3>2. js[m].item = items[i]
      BY <2>1, <3>1 DEF TakenUp
    <3> QED BY <1>2, <3>1, <3>2
  <2>2. CASE i \in (e + 1)..h
    <3>1. PICK m \in 1..(h - e) : m = i - e /\ e + m = i
      <4>1. i - e \in 1..(h - e) /\ e + (i - e) = i
        BY <2>2
      <4> QED BY <4>1
    <3>2. Cardinality({k \in Y : k <= i}) = c + m
      BY <1>3, <2>2, <3>1
    <3>3. z[c + m] = q[m] /\ q[m].item = items[i]
      BY <1>2, <3>1
    <3> QED BY <3>2, <3>3
  <2> QED BY <2>1, <2>2
<1>5. TakenUp(items, z, Y)
  BY <1>2, <1>3, <1>4 DEF TakenUp
<1> QED BY <1>2, <1>5

\* The jobs the items of a chunk become.
ChunkJobs(items, e, h, js, q) ==
    /\ Len(q) = h - e
    /\ \A i \in 1..(h - e) : q[i].item = items[e + i] /\ q[i].number = Len(js) + i

LEMMA ChunkTaken ==
    ASSUME NEW k \in Streams, NEW items, NEW a, NEW d, NEW buf, NEW tn, NEW js,
           InStream(k, items, a, d, buf, tn, js), NEW n \in Nat, n >= 1, a + n <= Len(Sent(k, items)),
           NEW D, Reached(Len(items), Ends(k, items), a + n, D),
           NEW e, e = IF d + 1 \in tn THEN d + 1 ELSE d, NEW h, h = IF D >= e THEN D ELSE e,
           NEW q \in Seq(StreamJob(k)), ChunkJobs(items, e, h, js, q),
           NEW torn2, torn2 = tn \cup TornAt(k, items, a + n)
    PROVE  InStream(k, items, a + n, D, Kept(k, Ends(k, items), Sent(k, items), h, a + n), torn2, js \o q)
<1>1. PICK L \in Nat : L = Len(items) /\ items \in [1..L -> Lines(k)] /\ items \in Seq(Lines(k))
  BY DEF InStream
<1>2. PICK U, W, B, w :
        /\ U = Ends(k, items) /\ W = Sent(k, items) /\ Carries(k, B, L, items, w, U, W) /\ Rising(L, U)
        /\ U \in [0..L -> Nat]
  BY <1>1, SourceCarries
<1>3. W \in Seq(B) /\ U[L] = Len(W) /\ Len(W) \in Nat
  BY <1>2 DEF Carries, BackToBack
<1>4. PICK z \in Nat : z = a + n /\ a \in Nat /\ a < z /\ z <= Len(W) /\ z \in 0..Len(W)
  BY <1>2, <1>3 DEF InStream
<1>5. /\ Reached(L, U, z, D) /\ d \in 0..L /\ D \in 0..L
      /\ U[D] <= z /\ (D = L \/ ~(U[D + 1] <= z)) /\ U[D] \in Nat
  BY <1>1, <1>2, <1>4 DEF InStream, Reached
<1>6. e \in 0..L /\ h \in e..L /\ d <= D
  BY <1>1, ChunkSplit
<1>7. /\ tn \subseteq 1..(d + 1) /\ (k # "rtsp" => tn = {})
      /\ js \in Seq(StreamJob(k)) /\ (\A j \in DOMAIN js : js[j].number = j)
      /\ TakenUp(items, js, (1..d) \ tn)
  BY DEF InStream
<1>8. tn \subseteq 1..e
  <2>1. CASE d + 1 \in tn
    BY <1>7, <2>1
  <2>2. CASE d + 1 \notin tn
    <3>1. \A i \in 1..(d + 1) : i # d + 1 => i \in 1..d
      BY <1>5
    <3> QED BY <1>5, <1>7, <2>2, <3>1
  <2> QED BY <2>1, <2>2
<1>9. \A m \in 0..L : (U[m] <= z <=> m <= D)
  BY <1>2, <1>5, ReachedOnes
\* A start marker is torn now only if it is that of the item after D.
<1>10. \A i \in 1..L : (z = U[i - 1] + 1 => i = D + 1)
  <2> SUFFICES ASSUME NEW i \in 1..L, z = U[i - 1] + 1 PROVE i = D + 1
    OBVIOUS
  <2>1. PICK m \in 0..L : m = i - 1
    OBVIOUS
  <2>2. PICK u \in Nat : u = U[m] /\ u <= z /\ z = u + 1
    BY <1>2, <2>1
  <2>3. m <= D
    <3>1. U[m] <= z
      BY <2>2
    <3> QED BY <1>9, <3>1
  <2>4. m = D
    <3> SUFFICES ASSUME m < D PROVE FALSE
      BY <1>5, <2>3
    <3>1. U[m] + 3 * (D - m) <= U[D]
      BY <1>2, <1>5, <2>3 DEF Rising
    <3>2. PICK v \in Nat : v = U[D] /\ v <= z
      BY <1>5
    <3>3. PICK x \in Nat : x = D - m /\ x >= 1
      BY <1>5
    <3>4. u + 3 * x <= v
      BY <2>2, <3>1, <3>2, <3>3
    <3>5. z = u + 1 /\ v <= z
      BY <2>2, <3>2
    <3> QED BY ONLY <3>3, <3>4, <3>5
  <2> QED BY <2>1, <2>4
<1>11. \A i \in torn2 : i \in tn \/ (i = D + 1 /\ k = "rtsp" /\ z = U[D] + 1 /\ D < L)
  <2> SUFFICES ASSUME NEW i \in torn2, i \notin tn
               PROVE  i = D + 1 /\ k = "rtsp" /\ z = U[D] + 1 /\ D < L
    OBVIOUS
  <2>1. i \in 1..L /\ k = "rtsp" /\ z = U[i - 1] + 1
    BY <1>1, <1>2, <1>4 DEF TornAt
  <2>2. i = D + 1
    BY <1>10, <2>1
  <2>3. i - 1 = D
    BY <1>5, <2>2
  <2> QED BY <1>5, <2>1, <2>2, <2>3
<1>12. torn2 \subseteq 1..(D + 1) /\ (k # "rtsp" => torn2 = {})
  <2>1. \A i \in tn : i \in 1..(D + 1)
    BY <1>5, <1>6, <1>7
  <2>2. D + 1 \in 1..(D + 1)
    BY <1>5
  <2> QED BY <1>7, <1>11, <2>1, <2>2
<1>13. D + 1 \in tn => h = e /\ e = D + 1 /\ D = d /\ D < L /\ U[D] < a /\ D + 1 \in torn2
  <2> SUFFICES ASSUME D + 1 \in tn PROVE h = e /\ e = D + 1 /\ D = d /\ D < L /\ U[D] < a /\ D + 1 \in torn2
    OBVIOUS
  <2>1. D = d
    BY <1>5, <1>6, <1>7
  <2>2. e = D + 1 /\ h = e
    BY <1>5, <2>1
  <2>3. D < Len(items) /\ Ends(k, items)[D] < a
    BY <2>1 DEF InStream
  <2> QED BY <1>1, <1>2, <2>1, <2>2, <2>3
<1>14. D + 1 \notin tn => h = D
  <2> SUFFICES ASSUME D + 1 \notin tn, ~(D >= e) PROVE FALSE
    BY <1>5
  <2>1. e = d + 1 /\ d = D /\ d + 1 \in tn
    BY <1>5, <1>6
  <2> QED BY <2>1
<1>15. D + 1 \in torn2 => D < L /\ U[D] < z
  <2>1. CASE D + 1 \in tn
    BY <1>4, <1>5, <1>13, <2>1
  <2>2. CASE D + 1 \notin tn
    BY <1>5, <1>11, <2>2
  <2> QED BY <2>1, <2>2
<1>16. Kept(k, U, W, h, z) = IF D + 1 \in torn2 THEN <<>> ELSE SubSeq(W, U[D] + 1, z)
  <2>1. CASE D + 1 \in tn
    <3>1. PICK m \in 0..L : m = D + 1 /\ h = m /\ ~(U[m] <= z) /\ U[m] \in Nat
      BY <1>2, <1>5, <1>6, <1>13, <2>1
    <3>2. ~(z >= U[h] + 2)
      BY <3>1
    <3>3. k = "rtsp"
      BY <1>7, <2>1
    <3> QED BY <1>13, <2>1, <3>2, <3>3 DEF Kept
  <2>2. CASE D + 1 \notin tn /\ k # "rtsp"
    BY <1>12, <1>14, <2>2 DEF Kept
  <2>3. CASE D + 1 \notin tn /\ k = "rtsp"
    <3>1. h = D /\ (D + 1 \in torn2 <=> z = U[D] + 1)
      <4>1. D + 1 \in torn2 => z = U[D] + 1
        BY <1>11, <2>3
      <4>2. z = U[D] + 1 => D + 1 \in torn2
        <5> SUFFICES ASSUME z = U[D] + 1 PROVE D + 1 \in torn2
          OBVIOUS
        <5>1. D # L
          BY <1>3, <1>4, <1>5
        <5>2. D + 1 \in 1..L /\ D + 1 - 1 = D
          BY <1>5, <5>1
        <5>3. D + 1 \in 1..Len(items)
          BY <1>1, <5>2
        <5>4. PICK i : i = D + 1
          OBVIOUS
        <5>5. i - 1 = D /\ i \in 1..Len(items)
          BY <1>5, <5>2, <5>3, <5>4
        <5>6. a + n = Ends(k, items)[i - 1] + 1
          BY <1>2, <1>4, <5>5
        <5>7. i \in torn2
          BY <2>3, <5>5, <5>6 DEF TornAt
        <5> QED BY <5>4, <5>7
      <4> QED BY <1>14, <2>3, <4>1, <4>2
    <3>2. PICK u \in Nat : u = U[D] /\ u <= z
      BY <1>5
    <3>3. CASE z >= u + 2
      BY <2>3, <3>1, <3>2, <3>3 DEF Kept
    <3>4. CASE z = u + 1
      BY <2>3, <3>1, <3>2, <3>4 DEF Kept
    <3>5. CASE z = u
      <4>1. SubSeq(W, u + 1, z) = <<>>
        <5>1. z < u + 1 /\ u + 1 \in Int /\ z \in Int
          BY <3>5
        <5> QED BY <5>1, SubSeqEmpty
      <4> QED BY <2>3, <3>1, <3>2, <3>5, <4>1 DEF Kept
    <3> QED BY <3>2, <3>3, <3>4, <3>5
  <2> QED BY <2>1, <2>2, <2>3
<1>17. (1..D) \ torn2 = ((1..d) \ tn) \cup ((e + 1)..h) /\ (1..d) \ tn \in SUBSET (1..e)
  <2>1. e = d \/ (e = d + 1 /\ d + 1 \in tn)
    OBVIOUS
  <2>2. \A i \in 1..D : i \in torn2 <=> i \in tn
    <3>1. tn \subseteq torn2
      OBVIOUS
    <3>2. \A i \in 1..D : i # D + 1
      BY <1>5
    <3> QED BY <1>11, <3>1, <3>2
  <2>3. (1..d) \ tn = (1..e) \ tn
    BY <1>5, <2>1
  <2>4. CASE h = D
    <3>1. \A i \in 1..D : i \in 1..e \/ i \in (e + 1)..h
      BY <1>5, <1>6, <2>4
    <3>2. 1..e \subseteq 1..D /\ \A i \in (e + 1)..h : i \in 1..D /\ i \notin 1..e
      BY <1>5, <1>6, <2>4
    <3> QED BY <1>8, <2>2, <2>3, <3>1, <3>2
  <2>5. CASE h # D
    <3>1. h = e /\ e = D + 1 /\ D = d
      BY <1>13, <1>14, <2>5
    <3>2. (e + 1)..h = {}
      BY <1>6, <3>1
    <3> QED BY <2>2, <2>3, <3>1, <3>2
  <2> QED BY <2>4, <2>5
<1>18. TakenUp(items, js \o q, (1..D) \ torn2)
  <2>1. PICK f \in Nat, g \in Nat : f = e /\ g = h /\ f <= g
    BY <1>6
  <2>2. PICK T : T = StreamJob(k)
    OBVIOUS
  <2>3. PICK X \in SUBSET (1..f) : X = (1..d) \ tn /\ TakenUp(items, js, X)
    BY <1>7, <1>17, <2>1
  <2>4. PICK Y : Y = X \cup ((f + 1)..g) /\ Y = (1..D) \ torn2
    BY <1>17, <2>1, <2>3
  <2>5. js \in Seq(T) /\ q \in Seq(T) /\ Len(q) = g - f
    BY <1>7, <2>1, <2>2 DEF ChunkJobs
  <2>6. \A i \in 1..(g - f) : q[i].item = items[f + i]
    BY <2>1 DEF ChunkJobs
  <2>7. TakenUp(items, js \o q, Y)
    <3>1. TakenUp(items, js, X)
      BY <2>3
    <3>2. Y = X \cup ((f + 1)..g) /\ f <= g
      BY <2>1, <2>4
    <3> QED BY ONLY <2>5, <2>6, <3>1, <3>2, TakenUpMore
  <2> QED BY <2>4, <2>7
<1>19. js \o q \in Seq(StreamJob(k)) /\ \A j \in DOMAIN (js \o q) : (js \o q)[j].number = j
  <2>1. PICK c \in Nat, l \in Nat : c = Len(js) /\ l = Len(q) /\ l = h - e
    BY <1>7 DEF ChunkJobs
  <2>2. PICK y : y = js \o q /\ y \in Seq(StreamJob(k)) /\ Len(y) = c + l
                 /\ (\A i \in 1..c : y[i] = js[i])
                 /\ \A i \in 1..l : y[c + i] = q[i]
    <3>1. PICK T : T = StreamJob(k) /\ js \in Seq(T) /\ q \in Seq(T)
      BY <1>7
    <3>2. js \o q \in Seq(T) /\ IsJoin(js \o q, js, q, c, l)
      BY <2>1, <3>1, Joined
    <3> QED BY <3>1, <3>2 DEF IsJoin
  <2>3. /\ \A i \in 1..c : js[i].number = i
        /\ \A i \in 1..l : q[i].number = c + i
    <3>1. DOMAIN js = 1..c
      BY <1>7, <2>1
    <3> QED BY <1>7, <2>1, <3>1 DEF ChunkJobs
  <2>4. ASSUME NEW j \in 1..(c + l) PROVE y[j].number = j
    <3>1. CASE j \in 1..c
      BY <2>2, <2>3, <3>1
    <3>2. CASE j \notin 1..c
      <4>1. PICK i \in 1..l : i = j - c /\ j = c + i
        <5>1. j - c \in 1..l /\ j = c + (j - c)
          BY <3>2
        <5> QED BY <5>1
      <4>2. y[j] = q[i] /\ q[i].number = c + i
        BY <2>2, <2>3, <4>1
      <4> QED BY <4>1, <4>2
    <3> QED BY <3>1, <3>2
  <2>5. DOMAIN y = 1..(c + l)
    BY <2>2
  <2> QED BY <2>2, <2>5, <2>4
<1> QED BY <1>1, <1>2, <1>4, <1>5, <1>12, <1>15, <1>16, <1>18, <1>19 DEF InStream

\* d items of the stream are whole.
StreamInv == kind \in Streams => \E d : InStream(kind, source, at, d, buffer, torn, jobs)

LEMMA StreamBegun == Begun => StreamInv
<1> SUFFICES ASSUME Begun, kind \in Streams
             PROVE  \E d : InStream(kind, source, at, d, buffer, torn, jobs)
  BY DEF StreamInv
<1>1. at = 0 /\ buffer = <<>> /\ torn = {} /\ jobs = <<>> /\ source \in Seq(Lines(kind))
  <2>1. PICK n \in 1..MaxItems : source \in [1..n -> Lines(kind)]
    BY DEF Begun, Feeds
  <2>2. n \in Nat
    BY AdaptersAssumption
  <2> QED BY <2>1, <2>2 DEF Begun
<1>2. PICK L \in Nat : L = Len(source)
  BY <1>1
<1>3. PICK U, W, B : /\ U = Ends(kind, source) /\ W = Sent(kind, source)
                     /\ U \in [0..L -> Nat] /\ U[0] = 0 /\ Rising(L, U)
                     /\ W \in Seq(B)
  BY <1>1, <1>2, SourceCarries DEF Carries, BackToBack
<1>4. PICK d : Reached(L, U, 0, d)
  BY <1>3, SomeReached
<1>5. d = 0
  <2>1. \A n \in 0..L : (U[n] <= 0 <=> n <= d)
    BY <1>3, <1>4, ReachedOnes
  <2>2. d \in 0..L /\ U[d] \in Nat /\ U[d] <= 0
    BY <1>3, <1>4 DEF Reached
  <2>3. 0 \in 0..L /\ (0 <= d => U[0] + 3 * (d - 0) <= U[d])
    BY <1>3, <2>2 DEF Rising
  <2> QED BY <1>3, <2>2, <2>3
<1>6. SubSeq(W, 0 + 1, 0) = <<>>
  BY SubSeqEmpty
<1>7. TakenUp(source, jobs, (1..0) \ {})
  <2>1. (1..0) \ {} = {} /\ Cardinality({}) = 0
    BY FS_EmptySet
  <2> QED BY <1>1, <2>1 DEF TakenUp
<1>8. 0 \in 0..Len(Sent(kind, source))
  BY <1>3
<1>9. InStream(kind, source, at, 0, buffer, torn, jobs)
  BY <1>1, <1>2, <1>3, <1>4, <1>5, <1>6, <1>7, <1>8 DEF InStream
<1> QED BY <1>9

LEMMA StreamInit == AdaptersInit => StreamInv
<1>1. AdaptersInit => Begun
  BY Zenon DEF AdaptersInit, Begun
<1> QED BY <1>1, StreamBegun

LEMMA StreamStartAgain == StartAgain => StreamInv'
<1>1. StartAgain => Begun'
  BY Zenon DEF StartAgain, Begun
<1> QED BY <1>1, StreamBegun, PTL

LEMMA TakenInStream ==
    ASSUME kind \in Streams, NEW item \in Lines(kind), NEW n \in Nat
    PROVE  /\ Taken(item, n) \in StreamJob(kind)
           /\ Taken(item, n).item = item /\ Taken(item, n).number = n
<1>1. PICK o \in {"send", "skipped", "reported"} : o = Outcome(item)
  BY DEF Outcome, Streams, FrameOutcome, LineOutcome
<1>2. PICK new : new = [item |-> item, number |-> n, pc |-> IF o = "send" THEN "sending" ELSE "done",
                        outcome |-> IF o = "send" THEN "none" ELSE o]
  OBVIOUS
<1>3. new \in StreamJob(kind) /\ new.item = item /\ new.number = n
  BY <1>2 DEF StreamJob
<1>4. Taken(item, n) = new
  BY <1>1, <1>2 DEF Taken
<1> QED BY <1>3, <1>4

LEMMA ReceiveInStream ==
    ASSUME StreamInv, NEW n \in 1..(Len(Sent(kind, source)) - at), Receive(n) PROVE StreamInv'
<1> SUFFICES ASSUME kind \in Streams PROVE StreamInv'
  BY DEF StreamInv, Receive
<1>1. PICK d : InStream(kind, source, at, d, buffer, torn, jobs)
  BY DEF StreamInv
<1>2. PICK k \in Streams : k = kind
  OBVIOUS
<1>3. PICK items, a, buf, tn, js : items = source /\ a = at /\ buf = buffer /\ tn = torn /\ js = jobs
  OBVIOUS
<1>4. InStream(k, items, a, d, buf, tn, js)
  BY <1>1, <1>2, <1>3
<1>5. PICK L \in Nat : L = Len(items) /\ items \in [1..L -> Lines(k)] /\ items \in Seq(Lines(k))
  BY <1>4 DEF InStream
<1>6. /\ Ends(k, items) \in [0..L -> Nat] /\ Ends(k, items)[0] = 0
      /\ Len(Sent(k, items)) \in Nat /\ a \in Nat
  BY <1>4, <1>5, SourceCarries DEF Carries, BackToBack, InStream
<1>7. n \in Nat /\ n >= 1 /\ a + n <= Len(Sent(k, items)) /\ a + n \in Nat
  BY <1>2, <1>3, <1>6
<1>8. PICK D : Reached(Len(items), Ends(k, items), a + n, D)
  BY <1>5, <1>6, <1>7, SomeReached
<1>9. PICK e, h : (e = IF d + 1 \in tn THEN d + 1 ELSE d) /\ (h = IF D >= e THEN D ELSE e)
  OBVIOUS
<1>10. PICK out : out = Split(k, buf \o SubSeq(Sent(k, items), a + 1, a + n))
  OBVIOUS
<1>11. /\ e \in 0..Len(items) /\ h \in e..Len(items)
       /\ CutTo(out, items, e, h, Kept(k, Ends(k, items), Sent(k, items), h, a + n))
  BY <1>4, <1>7, <1>8, <1>9, <1>10, ChunkSplit
<1>12. PICK l \in Nat : l = h - e
  BY <1>5, <1>11
<1>13. /\ out.items = [i \in 1..l |-> items[e + i]] /\ DOMAIN out.items = 1..l
       /\ out.rest = Kept(k, Ends(k, items), Sent(k, items), h, a + n)
  BY <1>11, <1>12 DEF CutTo
<1>14. PICK q : q = [i \in DOMAIN out.items |-> Taken(out.items[i], Len(jobs) + i)]
  OBVIOUS
<1>15. /\ kind' = k /\ source' = items /\ at' = a + n
       /\ buffer' = Kept(k, Ends(k, items), Sent(k, items), h, a + n)
       /\ jobs' = js \o q
       /\ torn' = tn \cup {i \in DOMAIN source : kind = "rtsp" /\ at + n = Upto(i - 1) + 1}
  <2>1. Split(kind, buffer \o SubSeq(Sent(kind, source), at + 1, at + n)) = out
    BY <1>2, <1>3, <1>10
  <2> QED BY <1>2, <1>3, <1>13, <1>14, <2>1 DEF Receive
<1>16. {i \in DOMAIN source : kind = "rtsp" /\ at + n = Upto(i - 1) + 1}
           = TornAt(k, items, a + n)
  <2>1. DOMAIN source = 1..Len(items)
    BY <1>3, <1>5
  <2>2. ASSUME NEW i \in 1..Len(items) PROVE Upto(i - 1) = Ends(k, items)[i - 1]
    <3>1. i - 1 \in 0..Len(items)
      BY <1>5
    <3> QED BY <1>2, <1>3, <3>1 DEF Upto, Ends
  <2> QED BY <1>2, <1>3, <2>1, <2>2 DEF TornAt
<1>17. PICK c \in Nat : c = Len(js)
  BY <1>4 DEF InStream
<1>18. ASSUME NEW i \in 1..l
       PROVE  q[i] \in StreamJob(k) /\ q[i].item = items[e + i] /\ q[i].number = c + i
  <2>1. e + i \in 1..L
    BY <1>5, <1>11, <1>12
  <2>2. items[e + i] \in Lines(k)
    BY <1>5, <2>1
  <2>3. q[i] = Taken(items[e + i], c + i)
    BY <1>3, <1>13, <1>14, <1>17
  <2>4. c + i \in Nat
    OBVIOUS
  <2> QED BY <1>2, <2>2, <2>3, <2>4, TakenInStream
<1>19. q \in Seq(StreamJob(k)) /\ Len(q) = h - e
  <2>1. q \in [1..l -> StreamJob(k)]
    BY <1>13, <1>14, <1>18
  <2> QED BY <1>12, <2>1
<1>20. \A i \in 1..(h - e) : q[i].item = items[e + i] /\ q[i].number = Len(js) + i
  BY <1>12, <1>17, <1>18
<1>21. torn' = tn \cup TornAt(k, items, a + n)
  BY <1>15, <1>16
<1>22. PICK torn2 : /\ torn2 = torn'
                    /\ torn2 = tn \cup TornAt(k, items, a + n)
  BY <1>21
<1>23. InStream(k, items, a + n, D, Kept(k, Ends(k, items), Sent(k, items), h, a + n), torn2, js \o q)
  <2>1. torn2 = tn \cup TornAt(k, items, a + n)
    BY <1>22
  <2>2. e = IF d + 1 \in tn THEN d + 1 ELSE d
    BY <1>9
  <2>3. h = IF D >= e THEN D ELSE e
    BY <1>9
  <2>4. PICK m \in Nat : m = n
    BY <1>7
  <2>5. PICK p \in Seq(StreamJob(k)) : p = q
    BY <1>19
  <2>6. m >= 1 /\ a + m <= Len(Sent(k, items)) /\ Reached(Len(items), Ends(k, items), a + m, D)
    BY <1>7, <1>8, <2>4
  <2>7. torn2 = tn \cup TornAt(k, items, a + m)
    BY <2>1, <2>4
  <2>8. ChunkJobs(items, e, h, js, p)
    BY <1>19, <1>20, <2>5 DEF ChunkJobs
  <2>9. InStream(k, items, a + m, D, Kept(k, Ends(k, items), Sent(k, items), h, a + m), torn2, js \o p)
    BY ONLY <1>4, <2>2, <2>3, <2>6, <2>7, <2>8, ChunkTaken
  <2> QED BY <2>4, <2>5, <2>9
<1>24. InStream(kind, source, at, D, buffer, torn, jobs)'
  BY <1>15, <1>22, <1>23
<1> QED BY <1>24 DEF StreamInv

LEMMA SendInStream ==
    ASSUME StreamInv, NEW j \in DOMAIN jobs, Publish(j) \/ FailSend(j) PROVE StreamInv'
<1>1. UNCHANGED <<kind, source, at, buffer, torn>>
  BY DEF Publish, FailSend
<1> SUFFICES ASSUME kind \in Streams PROVE StreamInv'
  BY <1>1 DEF StreamInv
<1>2. PICK d : InStream(kind, source, at, d, buffer, torn, jobs)
  BY DEF StreamInv
<1>3. PICK o \in {"reported", "published"} : jobs' = [jobs EXCEPT ![j].pc = "done", ![j].outcome = o]
  <2>1. kind # "http"
    BY DEF Streams
  <2> QED BY <2>1 DEF Publish, FailSend, Finish
<1>4. PICK T, s, t : T = StreamJob(kind) /\ s = jobs /\ t = jobs'
  OBVIOUS
<1>5. s \in Seq(T) /\ (\A i \in DOMAIN s : s[i].number = i)
  BY <1>2, <1>4 DEF InStream
<1>6. t \in Seq(T) /\ Moves(s, t, j, "done", o)
  <2>1. PICK X, P, O :
          X = Lines(kind) /\ P = {"sending", "done"} /\ O = {"none", "skipped", "reported", "published"}
    OBVIOUS
  <2>2. T = JobSet(X, P, O) /\ "done" \in P /\ o \in O
    BY <1>4, <2>1 DEF StreamJob, JobSet
  <2>3. t = GetsOn(s, j, "done", o) /\ j \in DOMAIN s /\ s \in Seq(T)
    BY <1>3, <1>4, <1>5 DEF GetsOn
  <2> QED BY ONLY <2>2, <2>3, JobMoves
<1>7. /\ DOMAIN t = DOMAIN s /\ Len(t) = Len(s)
      /\ \A i \in DOMAIN s : t[i].item = s[i].item /\ t[i].number = i
  BY <1>5, <1>6 DEF Moves
<1>8. PICK whole : whole = (1..d) \ torn
  OBVIOUS
<1>9. TakenUp(source, t, whole)
  <2>1. TakenUp(source, s, whole)
    BY <1>2, <1>4, <1>8 DEF InStream
  <2>2. IsFiniteSet(whole) /\ Cardinality(whole) \in Nat /\ whole \in SUBSET (1..d) /\ d \in Nat
    <3>1. d \in Nat
      <4>1. source \in Seq(Lines(kind)) /\ d \in 0..Len(source)
        BY <1>2 DEF InStream, Reached
      <4> QED BY <4>1
    <3>2. IsFiniteSet(1..d) /\ whole \in SUBSET (1..d)
      BY <1>8, <3>1, FS_Interval
    <3>3. IsFiniteSet(whole)
      BY <3>2, FS_Subset
    <3> QED BY <3>1, <3>2, <3>3, FS_CardinalityType
  <2>3. ASSUME NEW i \in whole PROVE t[Cardinality({n \in whole : n <= i})].item = source[i]
    <3>1. PICK m : m = Cardinality({n \in whole : n <= i})
      OBVIOUS
    <3>2. m \in 1..Cardinality(whole)
      <4>1. Ranked(whole, whole \cup ((d + 1)..d), d, d, Cardinality(whole))
        BY <2>2, RanksGrow
      <4> QED BY <3>1, <4>1 DEF Ranked
    <3>3. m \in DOMAIN s
      BY <1>5, <2>1, <3>2 DEF TakenUp
    <3> QED BY <1>7, <2>1, <3>1, <3>3 DEF TakenUp
  <2> QED BY <1>7, <2>1, <2>3 DEF TakenUp
<1>10. InStream(kind', source', at', d, buffer', torn', t)
  BY <1>1, <1>2, <1>4, <1>6, <1>7, <1>8, <1>9 DEF InStream
<1> QED BY <1>4, <1>10 DEF StreamInv

LEMMA RestInStream ==
    ASSUME StreamInv,
           \/ UNCHANGED adaptersVars \/ Disconnected \/ \E m \in Messages : Message(m)
           \/ \E r \in Requests : Request(r)
           \/ \E f \in Files, content \in {"absent", "partial", "whole"} : FileEvent(f, content)
           \/ \E f \in Files : Copied(f)
           \/ \E j \in DOMAIN jobs : Settle(j)
           \/ Stop \/ Disconnect \/ Exit
    PROVE  StreamInv'
<1>1. UNCHANGED <<kind, source, at, buffer, torn>>
  BY DEF adaptersVars, Disconnected, Message, Request, FileEvent, Copied, Settle, Stop, Disconnect, Exit
<1> SUFFICES ASSUME kind \in Streams PROVE StreamInv'
  BY <1>1 DEF StreamInv
<1>2. PICK d : InStream(kind, source, at, d, buffer, torn, jobs)
  BY DEF StreamInv
<1>3. \A j \in DOMAIN jobs : jobs[j].pc # "settling"
  <2>1. jobs \in Seq(StreamJob(kind))
    BY <1>2 DEF InStream
  <2>2. \A j \in DOMAIN jobs : jobs[j] \in StreamJob(kind)
    BY <2>1
  <2> QED BY <2>2 DEF StreamJob
<1>4. jobs' = jobs
  <2>1. \A j \in DOMAIN jobs : ~Settle(j)
    BY <1>3 DEF Settle, Waiting
  <2>2. kind \notin {"mqtt", "http", "geotiff"}
    BY DEF Streams
  <2> QED BY <2>1, <2>2 DEF adaptersVars, Disconnected, Message, Request, FileEvent, Copied, Stop,
                              Disconnect, Exit
<1>5. InStream(kind', source', at', d, buffer', torn', jobs')
  BY <1>1, <1>2, <1>4
<1> QED BY <1>5 DEF StreamInv

LEMMA StreamNext == StreamInv /\ [AdaptersNext]_adaptersVars => StreamInv'
BY ReceiveInStream, SendInStream, RestInStream, StreamStartAgain DEF AdaptersNext, Handlers

LEMMA StreamAlways == AdaptersSpec => []StreamInv
BY StreamInit, StreamNext, PTL DEF AdaptersSpec

\* A frame or a line is taken up whole, once and in order however its bytes are cut
\* into chunks, unless a frame's start marker was (MjpegFrameSplitter.push, the "data"
\* handler of the TCP adapters).
THEOREM ItemsInOrder == AdaptersSpec => []WholeItemsInOrder
<1>1. StreamInv => WholeItemsInOrder
  <2> SUFFICES ASSUME StreamInv, kind \in Streams
               PROVE  /\ Len(jobs) = Cardinality((1..Delivered) \ torn)
                      /\ \A i \in (1..Delivered) \ torn :
                            jobs[Cardinality({k \in (1..Delivered) \ torn : k <= i})].item = source[i]
    BY DEF WholeItemsInOrder
  <2>1. PICK d : InStream(kind, source, at, d, buffer, torn, jobs)
    BY DEF StreamInv
  <2>2. PICK L \in Nat : L = Len(source) /\ source \in Seq(Lines(kind))
    BY <2>1 DEF InStream
  <2>3. PICK U : /\ U = Ends(kind, source) /\ U \in [0..L -> Nat] /\ Rising(L, U)
                 /\ Len(Sent(kind, source)) \in Nat
    BY <2>2, SourceCarries DEF Carries, BackToBack
  <2>4. at \in Nat /\ Reached(L, U, at, d)
    BY <2>1, <2>2, <2>3 DEF InStream
  <2>5. {n \in 0..Len(source) : Upto(n) <= at} = {n \in 0..L : U[n] <= at}
    <3>1. \A n \in 0..L : Upto(n) = U[n]
      BY <2>2, <2>3 DEF Upto, Ends
    <3> QED BY <2>2, <3>1
  <2>6. Max({n \in 0..L : U[n] <= at}) = d
    BY <2>3, <2>4, ReachedIsMax
  <2>7. Delivered = d
    BY <2>5, <2>6 DEF Delivered
  <2>8. TakenUp(source, jobs, (1..d) \ torn)
    BY <2>1 DEF InStream
  <2> QED BY <2>7, <2>8 DEF TakenUp
<1> QED BY <1>1, StreamAlways, PTL

\* Where a stream is read, the number of a job is its place among them.
LEMMA StreamNumbersRise == StreamInv /\ kind \in Streams => FrameNumbersRise
<1> SUFFICES ASSUME StreamInv, kind \in Streams PROVE FrameNumbersRise
  OBVIOUS
<1>1. PICK d : InStream(kind, source, at, d, buffer, torn, jobs)
  BY DEF StreamInv
<1>2. jobs \in Seq(StreamJob(kind)) /\ \A j \in DOMAIN jobs : jobs[j].number = j
  BY <1>1 DEF InStream
<1> QED BY <1>2 DEF FrameNumbersRise

\* Between two starts of the service, frames of one camera never share a number and are
\* numbered in the order they were taken up in: a phone's by snapshotFrameNumbers, a
\* stream's by their position.
THEOREM FramesNumbered == AdaptersSpec => []FrameNumbersRise
<1>1. AdaptersInv /\ StreamInv => FrameNumbersRise
  BY StreamNumbersRise DEF AdaptersInv
<1> QED BY <1>1, AdaptersAlways, StreamAlways, PTL
==============================================================================
