--------------------------- MODULE VideoPipeline ----------------------------
(***************************************************************************)
(* VideoPipeline: one queue stage in each of its three modes.  The lyrics  *)
(* mode renders over the video it gets, and fails when it cannot; a clip   *)
(* whose audio cannot be muxed is finalized without it.                    *)
(***************************************************************************)
EXTENDS Pipeline

isVideo(t) == kindOf(t) \in {"avatar", "visual_clip", "lyrics_video"}
videoStage(t) == IF kindOf(t) = "avatar" THEN "lipsync" ELSE "visual_gen"

videoAdvance(t) ==
  /\ isVideo(t) /\ at(t, "load") /\ task[t].result \in {"media", "empty"}
  /\ stageGuard(t)
  /\ \/ task[t].result = "media" /\ goto(t, "finalize")
     \/ task[t].result = "empty" /\ goto(t, "release")
     \/ kindOf(t) = "lyrics_video" /\ goto(t, "release")
  /\ UNCHANGED <<walletVars, tableVars>>

videoFail(t) ==
  /\ isVideo(t) /\ at(t, "load") /\ task[t].result \in {"failed", "canceled"}
  /\ goto(t, "release")
  /\ UNCHANGED <<walletVars, tableVars>>

videoSubmit(t) == isVideo(t) /\ submitFirst(t, videoStage(t))

(* The asset is made whether or not the job already has one.                *)
videoFinalize(t) ==
  /\ isVideo(t)
  /\ \/ postProcess(t, TRUE)
     \/ captureCredits(t, "commit")
     \/ commitProduct(t, TRUE)

VideoStep(t) == videoAdvance(t) \/ videoFail(t) \/ videoSubmit(t) \/ videoFinalize(t)
=============================================================================
