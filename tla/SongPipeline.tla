---------------------------- MODULE SongPipeline ----------------------------
(***************************************************************************)
(* SongPipeline: music, then for a song with a voice and lyrics the vocal, *)
(* then the track.  When the music model fails, one other model is tried.  *)
(***************************************************************************)
EXTENDS Pipeline

isSong(t) == kindOf(t) \in {"song", "voiced_song"}

songAdvance(t) ==
  /\ isSong(t) /\ at(t, "load") /\ task[t].result \in {"media", "empty"}
  /\ stageGuard(t)
  /\ goto(t, "runtime")
  /\ UNCHANGED <<walletVars, tableVars>>

(* The result is saved; music of a song with a voice goes on to the vocal.  *)
songPersist(t) ==
  /\ isSong(t) /\ at(t, "persist")
  /\ persist_runtime(jobOf(t), task[t].runtime)
  /\ goto(t, IF kindOf(t) = "voiced_song" /\ task[t].stage = "music_generation"
               THEN "submit" ELSE "finalize")
  /\ UNCHANGED <<walletVars, made, fal, event>>

(* fail(): the fallback is tried once per job, and only for a failure of    *)
(* the music, not for a cancellation.  No guard compares the stage here.    *)
songFail(t) ==
  /\ isSong(t) /\ at(t, "load") /\ task[t].result \in {"failed", "canceled"}
  /\ goto(t, IF /\ task[t].stage = "music_generation" /\ task[t].result = "failed"
                /\ ~ row[jobOf(t)].fallback
               THEN "fallback" ELSE "release")
  /\ UNCHANGED <<walletVars, tableVars>>

songFallback(t) ==
  /\ isSong(t) /\ at(t, "fallback")
  /\ \/ submitted(t, "music_generation", "fallback", "flag")
     \/ refused(t, "release")

songFlag(t) ==
  /\ at(t, "flag")
  /\ set_fallback_used(jobOf(t))
  /\ goto(t, "set_stage")
  /\ UNCHANGED <<walletVars, made, fal, event>>

songSubmit(t) ==
  /\ isSong(t)
  /\ submitFirst(t, "music_generation") \/ submitSecond(t, "vocal_tts")

(* The output is the mix or the music: without music there is none.         *)
songFinalize(t) ==
  /\ isSong(t)
  /\ \/ postProcess(t, "music_generation" \in task[t].runtime)
     \/ captureCredits(t, "look")
     \/ lookForTrack(t)
     \/ commitProduct(t, task[t].seen = 0)

SongStep(t) ==
  songAdvance(t) \/ songPersist(t) \/ songFail(t) \/ songFallback(t) \/ songFlag(t)
  \/ songSubmit(t) \/ songFinalize(t)
=============================================================================
