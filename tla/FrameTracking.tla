---------------------------- MODULE FrameTracking ----------------------------
(***************************************************************************)
(* The tracker cv-inference-svc keeps for one camera: every frame's        *)
(* detections are associated with the tracks, tracks without a detection   *)
(* age, detections without a track start one, and the confirmed tracks are *)
(* published.                                                              *)
(*                                                                         *)
(* The geometry is left out: how much the predicted box of a track         *)
(* overlaps a detection is any of a few scores, 0 standing for an IoU      *)
(* below the threshold.                                                    *)
(***************************************************************************)
EXTENDS Naturals, FiniteSets, Functions

CONSTANTS
    TrackIds,     \* what randomUUID() may return
    Detections,   \* names for the detections of a frame
    MaxMissed,    \* maxMissedFrames
    MinHits,      \* minHitsToConfirm
    MaxScore,     \* bound: scores that are told apart
    MaxFrames,    \* bound: frames processed
    MaxFailures   \* bound: restarts and sends that fail

ASSUME TrackingAssumption ==
    /\ {MaxMissed, MaxFrames, MaxFailures} \subseteq Nat
    /\ {MinHits, MaxScore} \subseteq Nat \ {0}
    /\ <<>> \notin Detections

VARIABLES
    tracks,       \* DeepSortTracker.tracks
    scene,        \* the detections of the last frame
    shown,        \* what was published of it: <<track, its detection, or <<>> >>
    sent,         \* whether that reached the topic
    frames, failures,
    \* History:
    used,         \* the ids given out since the service started
    seen          \* the last frame each track was matched in

vars == <<tracks, scene, shown, sent, frames, failures, used, seen>>

NoTrack == [missed |-> 0, hits |-> 0]
Tracks == {t \in TrackIds : tracks[t] # NoTrack}

TypeOK ==
    /\ tracks \in [TrackIds -> [missed : 0..MaxMissed, hits : 1..MaxFrames] \cup {NoTrack}]
    /\ scene \subseteq Detections
    /\ shown \subseteq Tracks \X (Detections \cup {<<>>})
    /\ sent \in BOOLEAN
    /\ frames \in 0..MaxFrames /\ failures \in 0..MaxFailures
    /\ used \subseteq TrackIds
    /\ seen \in [TrackIds -> 0..MaxFrames]

Zero == [t \in TrackIds |-> 0]

Init ==
    /\ tracks = [t \in TrackIds |-> NoTrack]
    /\ scene = {} /\ shown = {} /\ sent = FALSE
    /\ frames = 0 /\ failures = 0
    /\ used = {} /\ seen = Zero

------------------------------------------------------------------------------
Share(c, m) == c[1] = m[1] \/ c[2] = m[2]

\* associate(): pairs are taken by falling score, each track and each detection
\* once.  The outcomes, ties taken in any order, are the matchings that leave out
\* a pair only for one that scores no less and shares its track or its detection.
Associations(score) ==
    LET candidates == {c \in DOMAIN score : score[c] > 0}
    IN  {M \in SUBSET candidates :
            /\ \A m, n \in M : Share(m, n) => m = n
            /\ \A c \in candidates \ M : \E m \in M : Share(c, m) /\ score[m] >= score[c]}

\* Bug: a track is dropped at the limit.
AgedEarly(track) ==
    IF track = NoTrack \/ track.missed + 1 >= MaxMissed
    THEN NoTrack ELSE [track EXCEPT !.missed = @ + 1]

\* A track nothing was matched with: kept while framesSinceUpdate <= maxMissedFrames.
Aged(track) ==
    IF track = NoTrack \/ track.missed + 1 > MaxMissed
    THEN NoTrack ELSE [track EXCEPT !.missed = @ + 1]

Matched(track) == [missed |-> 0, hits |-> track.hits + 1]

\* How the boxes of a frame may overlap the predicted ones.
Scores(D) == [Tracks \X D -> 0..MaxScore]

\* What step() returns: the confirmed tracks, those without a detection included.
Confirmed(fresh, D) ==
    {c \in Tracks \X (D \cup {<<>>}) :
        /\ tracks[c[1]].hits >= MinHits
        /\ c \in fresh \/ (c[2] = <<>> /\ \A m \in fresh : m[1] # c[1])}

\* step() and the publication of what it returns.
ProcessFrame(D, score) ==
    /\ frames < MaxFrames
    /\ frames' = frames + 1
    /\ \E M \in Associations(score) :
       \E spawned \in Injection(D \ {m[2] : m \in M}, TrackIds \ used) :
          LET hit == {m[1] : m \in M}
              new == Range(spawned)
              fresh == M \cup {<<spawned[d], d>> : d \in DOMAIN spawned}
          IN  /\ tracks' = [t \in TrackIds |->
                     IF t \in hit \cup new THEN Matched(tracks[t]) ELSE Aged(tracks[t])]
              /\ shown' = Confirmed(fresh, D)'
              /\ used' = used \cup new
              /\ seen' = [t \in TrackIds |-> IF t \in hit \cup new THEN frames + 1 ELSE seen[t]]
    /\ scene' = D
    /\ \/ sent' = TRUE /\ UNCHANGED failures
       \/ sent' = FALSE /\ failures < MaxFailures /\ failures' = failures + 1

\* The process dies; the tracks were in memory.
Crash ==
    /\ failures < MaxFailures
    /\ failures' = failures + 1
    /\ tracks' = [t \in TrackIds |-> NoTrack]
    /\ scene' = {} /\ shown' = {} /\ sent' = FALSE
    /\ used' = {} /\ seen' = Zero
    /\ UNCHANGED frames

Next ==
    \/ \E D \in SUBSET Detections : \E score \in Scores(D) : ProcessFrame(D, score)
    \/ Crash

Spec == Init /\ [][Next]_vars

------------------------------------------------------------------------------
\* With no confirmation asked for, every detection of a frame is published by
\* exactly one track, and no track stands for two.
EveryDetectionOnce ==
    sent =>
        /\ \A d \in scene : Cardinality({t \in TrackIds : <<t, d>> \in shown}) = 1
        /\ \A t \in TrackIds : Cardinality({d \in scene \cup {<<>>} : <<t, d>> \in shown}) <= 1

\* REQ-2.4: an identity survives exactly as long an occlusion as configured,
\* however the other tracks and detections compete.
SurvivesOcclusion ==
    \A t \in used :
        /\ tracks[t] # NoTrack <=> frames - seen[t] <= MaxMissed
        /\ tracks[t] # NoTrack => tracks[t].missed = frames - seen[t]

\* An identity stands for one target: it is neither doubled nor swallowed in a
\* frame, nor dropped or kept for the wrong length of time over several.
IdentityKept == EveryDetectionOnce /\ SurvivesOcclusion
===============================================================================
