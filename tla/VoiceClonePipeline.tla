------------------------- MODULE VoiceClonePipeline -------------------------
(***************************************************************************)
(* VoiceClonePipeline: no queue stage, the whole pipeline is in start().   *)
(***************************************************************************)
EXTENDS Pipeline

isVoiceClone(t) == kindOf(t) = "voice_clone"

(* Without consent or sample, and when fal refuses, the job fails; no error *)
(* is raised to create_job.                                                 *)
cloneVoice(t) ==
  /\ isVoiceClone(t) /\ at(t, "submit")
  /\ goto(t, "finalize") \/ goto(t, "release")
  /\ UNCHANGED <<walletVars, tableVars>>

clonePostProcess(t) ==
  /\ isVoiceClone(t) /\ at(t, "finalize")
  /\ set_status(jobOf(t), "post_processing")
  /\ goto(t, "commit")
  /\ UNCHANGED <<walletVars, made, fal, event>>

(* The profile becomes ready and the job succeeds; nothing is captured.     *)
cloneCommit(t) == isVoiceClone(t) /\ commitProduct(t, TRUE)

VoiceCloneStep(t) == cloneVoice(t) \/ clonePostProcess(t) \/ cloneCommit(t)
=============================================================================
