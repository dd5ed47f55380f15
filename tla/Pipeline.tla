------------------------------ MODULE Pipeline ------------------------------
(***************************************************************************)
(* BasePipeline and the coroutines that run it.  A coroutine is an API     *)
(* request (create_job), a webhook request, the poller or the startup      *)
(* recovery; between two of its awaits any other may run.  One step is one *)
(* database transaction or one call of fal, and the record of the          *)
(* coroutine holds what it read before and uses after.                     *)
(***************************************************************************)
EXTENDS JobTable

VARIABLE task   \* the coroutines

Api(j) == <<"api", j>>
Hook(r) == <<"hook", r>>
Poller == <<"poller", 0>>
Recovery == <<"recovery", 0>>
Task == {Api(j) : j \in Job} \cup {Hook(r) : r \in Request} \cup {Poller, Recovery}

(* Where a coroutine stands; "dead" is a coroutine lost in a crash.         *)
Label == {"idle", "done", "dead",
          "lookup", "reserve", "insert", "start",           \* create_job
          "find", "apply",                                  \* fal_webhook
          "sweep", "next",                                  \* poller, recovery
          "load", "runtime", "persist", "reread",           \* advance and fail
          "submit", "fallback", "flag", "set_stage",
          "finalize", "capture", "look", "commit",          \* _finalize
          "release", "mark_failed"}                         \* _mark_failed

(* job: the job it works on, NoJob when none.  stage: completed_stage or    *)
(* failed_stage, then the stage being submitted.  result: what fal answered *)
(* for it.  runtime: its copy of _runtime.  request: what a submit          *)
(* returned.  seen: the tracks of the job it found.                          *)
CONSTANTS NoJob,
          Refusals   \* may fal refuse a submit
ASSUME PipelineAssumption == NoJob \notin Job /\ Refusals \in BOOLEAN

Fresh == [pc |-> "idle", job |-> NoJob, stage |-> NoStage, result |-> "queued",
          runtime |-> {}, request |-> NoRequest, seen |-> 0]

PipelineInit == task = [t \in Task |-> Fresh]

running(t) == task[t].pc \notin {"idle", "done", "dead"}
at(t, label) == task[t].pc = label
goto(t, label) == task' = [task EXCEPT ![t].pc = label]
jobOf(t) == task[t].job
kindOf(t) == row[jobOf(t)].kind

(* The handler returns: create_job answers the client, the webhook marks    *)
(* its event applied, the poller and the recovery take their next job.      *)
after(t) == CASE t[1] = "api" -> "done"
              [] t[1] = "hook" -> "apply"
              [] OTHER -> "next"
return(t) == task' = [task EXCEPT ![t] = [Fresh EXCEPT !.pc = after(t)]]

-----------------------------------------------------------------------------
(* PipelineRunner loads the job and hands it to the pipeline of its type.   *)
(* Every advance first compares current_stage with the stage the caller     *)
(* read before: this read is the whole of the guard.                        *)
stageGuard(t) == row[jobOf(t)].stage \in {NoStage, task[t].stage}

dropped(t) ==
  /\ at(t, "load") /\ task[t].result \in {"media", "empty"} /\ ~ stageGuard(t)
  /\ return(t)
  /\ UNCHANGED <<walletVars, tableVars>>

(* Mutant: the outcome is stored in the place of the stage.                 *)
withOutcome(t, runtime) == runtime \cup {task[t].result}

(* The runtime of the job with the finished stage in it.                    *)
withResult(t, runtime) ==
  IF task[t].result = "media" THEN runtime \cup {task[t].stage} ELSE runtime \ {task[t].stage}

(* _get_runtime, when the result is to be added to it.                      *)
readRuntime(t) ==
  /\ at(t, "runtime")
  /\ task' = [task EXCEPT ![t].pc = "persist",
                          ![t].runtime = withResult(t, row[jobOf(t)].runtime)]
  /\ UNCHANGED <<walletVars, tableVars>>

(* _get_runtime again, before a _finalize with what the row then holds.     *)
rereadRuntime(t) ==
  /\ at(t, "reread")
  /\ task' = [task EXCEPT ![t].pc = "finalize", ![t].runtime = row[jobOf(t)].runtime]
  /\ UNCHANGED <<walletVars, tableVars>>

-----------------------------------------------------------------------------
(* A submit to fal: accepted, or refused with FalProviderError/FalTimeout.  *)
submitted(t, stage, key, label) ==
  /\ \E r \in Request :
       /\ accepts(jobOf(t), key, r)
       /\ task' = [task EXCEPT ![t].pc = label, ![t].stage = stage, ![t].request = r]
  /\ UNCHANGED <<walletVars, row, made, event>>

refused(t, label) ==
  /\ Refusals
  /\ goto(t, label)
  /\ UNCHANGED <<walletVars, tableVars>>

(* Mutant: the error path marks the job failed and forgets the release.     *)
submitFirstNoRelease(t, stage) ==
  /\ at(t, "submit") /\ t[1] = "api"
  /\ \/ submitted(t, stage, "first", "set_stage")
     \/ refused(t, "mark_failed")

(* start() of a pipeline with a queue stage: the error is raised through    *)
(* start to create_job, which releases and marks the job failed.            *)
submitFirst(t, stage) ==
  /\ at(t, "submit") /\ t[1] = "api"
  /\ \/ submitted(t, stage, "first", "set_stage")
     \/ refused(t, "release")

(* The second stage of a song or a cover: a refusal finalizes without it.   *)
submitSecond(t, stage) ==
  /\ at(t, "submit") /\ t[1] # "api"
  /\ \/ submitted(t, stage, "second", "set_stage")
     \/ refused(t, "reread")

(* Mutant: the return after the submit of a fallback is missing.            *)
setStageThenFail(t) ==
  /\ at(t, "set_stage")
  /\ set_current_stage(jobOf(t), task[t].stage, task[t].request)
  /\ IF row[jobOf(t)].fallback THEN goto(t, "release") ELSE return(t)
  /\ UNCHANGED <<walletVars, made, fal, event>>

(* _set_current_stage after a submit ends the handler.                      *)
setCurrentStage(t) ==
  /\ at(t, "set_stage")
  /\ set_current_stage(jobOf(t), task[t].stage, task[t].request)
  /\ return(t)
  /\ UNCHANGED <<walletVars, made, fal, event>>

-----------------------------------------------------------------------------
(* _mark_failed: the refund, then the status, in two transactions.          *)
releaseCredits(t) ==
  /\ at(t, "release")
  /\ release(jobOf(t))
  /\ goto(t, "mark_failed")
  /\ UNCHANGED tableVars

markFailed(t) ==
  /\ at(t, "mark_failed")
  /\ mark_failed(jobOf(t))
  /\ return(t)
  /\ UNCHANGED <<walletVars, made, fal, event>>

(* Mutant: the coins are not captured.                                      *)
postProcessUnpaid(t, hasOutput) ==
  /\ at(t, "finalize")
  /\ set_status(jobOf(t), "post_processing")
  /\ goto(t, IF hasOutput THEN "commit" ELSE "release")
  /\ UNCHANGED <<walletVars, made, fal, event>>

(* The head of _finalize, up to the choice of its output: without one the   *)
(* job fails.                                                               *)
postProcess(t, hasOutput) ==
  /\ at(t, "finalize")
  /\ set_status(jobOf(t), "post_processing")
  /\ goto(t, IF hasOutput THEN "capture" ELSE "release")
  /\ UNCHANGED <<walletVars, made, fal, event>>

captureCredits(t, label) ==
  /\ at(t, "capture")
  /\ capture(jobOf(t))
  /\ goto(t, label)
  /\ UNCHANGED tableVars

(* The last transaction of _finalize: the product, when it is to be made,   *)
(* and the status, together.                                                *)
commitProduct(t, isNew) ==
  LET j == jobOf(t) IN
  /\ at(t, "commit")
  /\ made' = [made EXCEPT ![j] = IF isNew THEN @ + 1 ELSE @]
  /\ mark_succeeded(j)
  /\ return(t)
  /\ UNCHANGED <<walletVars, fal, event>>

(* That transaction first looks for a track of the job, without a lock.     *)
lookForTrack(t) ==
  /\ at(t, "look")
  /\ task' = [task EXCEPT ![t].pc = "commit", ![t].seen = made[jobOf(t)]]
  /\ UNCHANGED <<walletVars, tableVars>>

BaseStep(t) ==
  \/ dropped(t) \/ readRuntime(t) \/ rereadRuntime(t) \/ setCurrentStage(t)
  \/ releaseCredits(t) \/ markFailed(t)

TaskRecord ==
  [pc : Label, job : Job \cup {NoJob}, stage : Stage \cup {NoStage},
   result : {"media", "empty", "failed", "canceled", "queued"},
   runtime : SUBSET Stage, request : Request \cup {NoRequest}, seen : Nat]

PipelineTypeOK == task \in [Task -> TaskRecord]
=============================================================================
