--------------------------- MODULE CoverPipeline ----------------------------
(***************************************************************************)
(* CoverPipeline: the stems of the source, then the converted vocal, then  *)
(* the track.                                                              *)
(***************************************************************************)
EXTENDS Pipeline

isCover(t) == kindOf(t) = "cover"

coverAdvance(t) ==
  /\ isCover(t) /\ at(t, "load") /\ task[t].result \in {"media", "empty"}
  /\ stageGuard(t)
  /\ goto(t, "runtime")
  /\ UNCHANGED <<walletVars, tableVars>>

(* Stems with a vocal go on to its conversion; without one, and after the   *)
(* conversion, the job finalizes with the runtime the row then holds.       *)
coverPersist(t) ==
  /\ isCover(t) /\ at(t, "persist")
  /\ persist_runtime(jobOf(t), task[t].runtime)
  /\ goto(t, IF task[t].stage = "stem_separation" /\ task[t].result = "media"
               THEN "submit" ELSE "reread")
  /\ UNCHANGED <<walletVars, made, fal, event>>

coverFail(t) ==
  /\ isCover(t) /\ at(t, "load") /\ task[t].result \in {"failed", "canceled"}
  /\ goto(t, "release")
  /\ UNCHANGED <<walletVars, tableVars>>

coverSubmit(t) ==
  /\ isCover(t)
  /\ submitFirst(t, "stem_separation") \/ submitSecond(t, "voice_conversion")

(* The output is the converted vocal, mixed or bare.                        *)
coverFinalize(t) ==
  /\ isCover(t)
  /\ \/ postProcess(t, "voice_conversion" \in task[t].runtime)
     \/ captureCredits(t, "look")
     \/ lookForTrack(t)
     \/ commitProduct(t, task[t].seen = 0)

CoverStep(t) ==
  coverAdvance(t) \/ coverPersist(t) \/ coverFail(t) \/ coverSubmit(t) \/ coverFinalize(t)
=============================================================================
