------------------------------ MODULE CvInference ------------------------------
(***************************************************************************)
(* cv-inference-svc around its tracker: uploads that replace the detection *)
(* model while frames are being inferred.  An upload is staged, loaded     *)
(* once to validate it, and loaded again to be swapped in; every load is   *)
(* awaited, and uploads overlap.                                           *)
(*                                                                         *)
(* What is uploaded is no model at all, a model ONNX cannot load, a model  *)
(* that loads and is no YOLO detector, or a detector.                      *)
(***************************************************************************)
EXTENDS FrameTracking

CONSTANTS
    Uploads,      \* requests to /api/v1/models/upload by a SuperAdmin
    MaxUploads,   \* bound: uploads begun
    MaxFramesAmid \* bound: frames processed by the end, once there are uploads

VARIABLES
    model,     \* DetectionModel.session: the upload it was made of, or Booted
    uploads,   \* the requests
    frame,     \* the session the frame in hand is inferred with, or NoFrame
    begun,     \* uploads begun
    before     \* history: <<a, b>> when a had been told 200 before b began

modelVars == <<model, uploads, frame, begun, before>>
cvVars == <<vars, modelVars>>

Booted == "MODEL_PATH"
NoFrame == "none"
Kinds == {"noModel", "broken", "other", "detector"}
Idle == [kind |-> "noModel", step |-> "idle", answer |-> "none"]

CvTypeOK ==
    /\ TypeOK
    /\ model \in Uploads \cup {Booted}
    /\ uploads \in [Uploads -> [kind: Kinds, step: {"idle", "staged", "loaded", "swapped", "over"},
                                answer: {"none", "200", "400", "500"}]]
    /\ frame \in Uploads \cup {Booted, NoFrame}
    /\ before \subseteq Uploads \X Uploads

CvInit ==
    /\ Init
    /\ model = Booted
    /\ uploads = [u \in Uploads |-> Idle]
    /\ frame = NoFrame
    /\ begun = 0
    /\ before = {}

Detects(session) == session \in {Booted} \cup {u \in Uploads : uploads[u].kind = "detector"}

------------------------------------------------------------------------------
(* Uploads.                                                                *)

\* The file is checked for a name in .onnx and staged in a directory of its own.
Upload(u) ==
    /\ uploads[u] = Idle
    /\ begun < MaxUploads /\ frames <= MaxFramesAmid
    /\ begun' = begun + 1
    /\ \E kind \in Kinds :
          uploads' = [uploads EXCEPT ![u] =
              IF kind = "noModel" THEN [kind |-> kind, step |-> "over", answer |-> "400"]
              ELSE [kind |-> kind, step |-> "staged", answer |-> "none"]]
    /\ before' = before \cup {<<a, u>> : a \in {a \in Uploads : uploads[a].answer = "200"}}
    /\ UNCHANGED <<vars, model, frame>>

\* DetectionModel.load: the validation, which may fail for want of a GPU too.
Validate(u) ==
    /\ uploads[u].step = "staged"
    /\ \/ /\ uploads[u].kind # "broken"
          /\ uploads' = [uploads EXCEPT ![u].step = "loaded"]
       \/ uploads' = [uploads EXCEPT ![u].step = "over", ![u].answer = "400"]
    /\ UNCHANGED <<vars, model, frame, begun, before>>

\* swap(): the session is made again and replaces the one in use; or making it
\* fails, and the handler with it.
Swap(u) ==
    /\ uploads[u].step = "loaded"
    /\ \/ /\ model' = u
          /\ uploads' = [uploads EXCEPT ![u].step = "swapped"]
          /\ UNCHANGED vars
       \/ /\ failures < MaxFailures /\ failures' = failures + 1
          /\ uploads' = [uploads EXCEPT ![u].step = "over", ![u].answer = "500"]
          /\ UNCHANGED <<model, tracks, scene, shown, sent, frames, used, seen>>
    /\ UNCHANGED <<frame, begun, before>>

\* Bug: the handler does not await the swap.
AnswerEarly(u) ==
    /\ uploads[u].step \in {"loaded", "swapped"} /\ uploads[u].answer = "none"
    /\ uploads' = [uploads EXCEPT ![u].answer = "200"]
    /\ UNCHANGED <<vars, model, frame, begun, before>>

Answer(u) ==
    /\ uploads[u].step = "swapped" /\ uploads[u].answer = "none"
    /\ uploads' = [uploads EXCEPT ![u].answer = "200"]
    /\ UNCHANGED <<vars, model, frame, begun, before>>

------------------------------------------------------------------------------
(* Frames.                                                                 *)

\* infer() captures the session.
BeginFrame ==
    /\ frame = NoFrame
    /\ begun > 0 => frames < MaxFramesAmid
    /\ frame' = model
    /\ UNCHANGED <<vars, model, uploads, begun, before>>

\* Bug: the output is read with the session in use by now.
ReadWithCurrent(session) == model

\* The session the output of an inference is read with.
ReadWith(session) == session

\* The inference ends.  Output that is not a detector's throws, the message
\* counts as handled, and the tracker does not see the frame.
EndFrame ==
    /\ frame # NoFrame
    /\ frame' = NoFrame
    /\ \/ /\ Detects(ReadWith(frame))
          /\ \E D \in SUBSET Detections : \E score \in Scores(D) : ProcessFrame(D, score)
       \/ /\ ~Detects(ReadWith(frame))
          /\ UNCHANGED vars
    /\ UNCHANGED <<model, uploads, begun, before>>

\* A restart loads MODEL_PATH again: what was uploaded is forgotten.
Restart ==
    /\ Crash
    /\ model' = Booted
    /\ uploads' = [u \in Uploads |-> Idle]
    /\ frame' = NoFrame
    /\ before' = {}
    /\ UNCHANGED begun

CvNext ==
    \/ \E u \in Uploads : Upload(u) \/ Validate(u) \/ Swap(u) \/ Answer(u)
    \/ BeginFrame \/ EndFrame \/ Restart

CvSpec == CvInit /\ [][CvNext]_cvVars

------------------------------------------------------------------------------
(* Properties.                                                             *)

\* An upload that began after another was answered is not undone by that one:
\* while two uploads race the one that loads last wins, but once an answer is
\* out its model can only be replaced by a later request's (models.ts:58).
AcceptedStands ==
    \A a, b \in Uploads :
        <<a, b>> \in before /\ uploads[b].answer = "200" => model # a

\* ML-006: a swap drops no frame that is in flight.  A frame begun with a
\* detector reaches the tracker whatever is swapped in until it ends, even a
\* model no frame can be inferred with (session.ts:63).
SwapDropsNoFrame ==
    [][frame # NoFrame /\ Detects(frame) /\ frame' = NoFrame =>
          frames' = frames + 1 \/ failures' > failures]_cvVars
===============================================================================
