-------------------------- MODULE GenerationProofs ---------------------------
(***************************************************************************)
(* The generation is a caller the wallet was proved for: every step of its *)
(* coroutines, its crashes and its recovery included, is one operation of  *)
(* the wallet or none.  What the wallet guarantees to any caller therefore *)
(* holds in every generation, whatever the kinds, deliveries and bounds.   *)
(***************************************************************************)
EXTENDS Generation, CoinWalletProofs

(* All a coroutine that runs a pipeline does to the wallet.                 *)
Settles(t) == capture(jobOf(t)) \/ release(jobOf(t)) \/ UNCHANGED walletVars

-----------------------------------------------------------------------------
(* The steps all pipelines share.                                           *)
LEMMA SharedSteps ==
  ASSUME NEW t
  PROVE  /\ BaseStep(t) => Settles(t)
         /\ \A stage : submitFirst(t, stage) \/ submitSecond(t, stage) => Settles(t)
         /\ \A yes : postProcess(t, yes) \/ commitProduct(t, yes) => Settles(t)
         /\ \A label : captureCredits(t, label) => Settles(t)
         /\ \A stage, key, label : submitted(t, stage, key, label) => Settles(t)
         /\ \A label : refused(t, label) => Settles(t)
         /\ lookForTrack(t) => Settles(t)
<1>1. BaseStep(t) => Settles(t)
  BY DEF BaseStep, dropped, readRuntime, rereadRuntime, setCurrentStage, releaseCredits,
         markFailed, Settles
<1>2. /\ \A stage, key, label : submitted(t, stage, key, label) => Settles(t)
      /\ \A label : refused(t, label) => Settles(t)
  BY DEF submitted, refused, Settles
<1>3. \A stage : submitFirst(t, stage) \/ submitSecond(t, stage) => Settles(t)
  BY <1>2 DEF submitFirst, submitSecond
<1>4. /\ \A yes : postProcess(t, yes) \/ commitProduct(t, yes) => Settles(t)
      /\ \A label : captureCredits(t, label) => Settles(t)
      /\ lookForTrack(t) => Settles(t)
  BY DEF postProcess, commitProduct, captureCredits, lookForTrack, Settles
<1> QED
  BY <1>1, <1>2, <1>3, <1>4

(* The steps of each pipeline.                                              *)
LEMMA PipelineSettles ==
  ASSUME NEW t, pipelineStep(t)
  PROVE  Settles(t)
<1>1. SongStep(t) => Settles(t)
  BY SharedSteps DEF SongStep, songAdvance, songPersist, songFail, songFallback, songFlag,
     songSubmit, songFinalize, Settles
<1>2. CoverStep(t) => Settles(t)
  BY SharedSteps DEF CoverStep, coverAdvance, coverPersist, coverFail, coverSubmit,
     coverFinalize, Settles
<1>3. VideoStep(t) => Settles(t)
  BY SharedSteps DEF VideoStep, videoAdvance, videoFail, videoSubmit, videoFinalize, Settles
<1>4. VoiceCloneStep(t) => Settles(t)
  BY SharedSteps DEF VoiceCloneStep, cloneVoice, clonePostProcess, cloneCommit, Settles
<1> QED
  BY <1>1, <1>2, <1>3, <1>4, SharedSteps DEF pipelineStep

(* create_job touches the wallet only to reserve.                           *)
LEMMA CreateJobReserves ==
  ASSUME NEW j \in Job, createJob(j)
  PROVE  (\E p \in Prices : reserve(j, p)) \/ UNCHANGED walletVars
BY DEF createJob, lookupKey, reserveCredits, insertJob, startPipeline

(* Every step of a generation is a step of the wallet or leaves it alone.   *)
LEMMA StepIsWalletStep == [Next]_vars => [WalletNext]_walletVars
<1> SUFFICES ASSUME [Next]_vars PROVE [WalletNext]_walletVars
  OBVIOUS
<1>1. CASE UNCHANGED vars
  BY <1>1 DEF vars
<1>2. ASSUME NEW j \in Job, createJob(j) PROVE [WalletNext]_walletVars
  BY <1>2, CreateJobReserves DEF WalletNext
<1>3. ASSUME NEW r \in Request, webhook(r) \/ falStep(r) PROVE UNCHANGED walletVars
  BY <1>3 DEF webhook, claimEvent, findJob, eventApplied, falStep
<1>4. ASSUME poll PROVE UNCHANGED walletVars
  BY <1>4 DEF poll, pollActive, pollAnswered, pollSkipped, pollEnds
<1>5. ASSUME NEW t \in Task, pipelineStep(t) PROVE [WalletNext]_walletVars
  <2>1. jobOf(t) \in Job
    BY <1>5 DEF pipelineStep
  <2>2. Settles(t)
    BY <1>5, PipelineSettles
  <2> QED
    BY <2>1, <2>2 DEF Settles, WalletNext
<1>6. ASSUME NEW u \in User, NEW k \in OpKey, NEW n \in Amounts, purchase(u, k, n)
      PROVE  [WalletNext]_walletVars
  BY <1>6 DEF purchase, WalletNext
<1>7. ASSUME recoverNext \/ Crash \/ Restart \/ Serve PROVE UNCHANGED walletVars
  BY <1>7 DEF recoverNext, Crash, Restart, Serve
<1> QED
  BY <1>1, <1>2, <1>3, <1>4, <1>5, <1>6, <1>7 DEF Next

-----------------------------------------------------------------------------
(* A generation implements the open wallet: its callers, overlapping and    *)
(* crashing as they do, are among the callers of WalletSpec.                *)
THEOREM GenerationUsesWallet == Spec => WalletSpec
<1>1. Init => WalletInit
  BY DEF Init
<1> QED
  BY <1>1, StepIsWalletStep, PTL DEF Spec, WalletSpec

(* While generations start, race, fail and crash, no wallet column goes     *)
(* negative and the ledger explains every balance.                          *)
THEOREM GenerationLedger == Spec => [](WalletTypeOK /\ LedgerExplainsAvailable)
BY GenerationUsesWallet, WalletTypeCorrect, LedgerAudit, PTL

(* A generation that settles no job both ways keeps the reserved column     *)
(* exact, however many jobs of one user run at once and although a losing   *)
(* call with a used Idempotency-Key leaves its hold open.                   *)
THEOREM GenerationReserved == Spec => []ReservedIsExact
BY GenerationUsesWallet, ReservedExactness, PTL

-----------------------------------------------------------------------------
(***************************************************************************)
(* What a coroutine that runs a pipeline may do, summed up once for every  *)
(* pipeline (PipelineEffect), and from it the type correctness of the      *)
(* tables and the coroutines.                                              *)
(***************************************************************************)

(* A job's coins were spent, or given back, unless it has none.             *)
Captured(h, k, j) == h[j] > 0 => captureKey(j) \in k
Released(h, k, j) == h[j] > 0 => releaseKey(j) \in k

(* Where a coroutine works on the row of a job that exists.                 *)
WorkLabel == {"start", "load", "runtime", "persist", "reread", "submit", "fallback", "flag",
              "set_stage", "finalize", "capture", "look", "commit", "release", "mark_failed"}

(* Where it holds the stage of a submitted request.                         *)
StageLabel == {"load", "runtime", "flag", "set_stage"}
HasStage(x) == x.request # NoRequest => x.stage # NoStage

(* The coroutine moves; it comes to mark_failed only past the release, and  *)
(* to the end of a finalize, but for a voice clone, only past the capture.  *)
TaskEffect(t) ==
  \E q \in TaskRecord :
    /\ task' = [task EXCEPT ![t] = q]
    /\ q.pc \in WorkLabel \cup {"done", "apply", "next"}
    /\ q.pc \in WorkLabel => q.job = jobOf(t)
    /\ q.pc \in StageLabel => q.stage # NoStage
    /\ q.pc = "mark_failed" => Released(hold', keys', jobOf(t))
    /\ q.pc \in {"look", "commit"} =>
         Captured(hold', keys', jobOf(t)) \/ at(t, "look") \/ kindOf(t) = "voice_clone"

(* Only its job's row changes: it fails only in mark_failed, completes only *)
(* in commit, is never canceled, and stays the row of a job of that kind.   *)
RowEffect(t) ==
  \E w \in RowRecord :
    /\ row' = [row EXCEPT ![jobOf(t)] = w]
    /\ w.status # "absent" /\ w.kind = kindOf(t) /\ HasStage(w)
    /\ w.status = "failed" => row[jobOf(t)].status = "failed" \/ at(t, "mark_failed")
    /\ w.status = "completed" => row[jobOf(t)].status = "completed" \/ at(t, "commit")
    /\ w.status = "canceled" => row[jobOf(t)].status = "canceled"

RestEffect ==
  /\ made' \in [Job -> Nat]
  /\ fal' \in Seq(FalRecord) /\ Len(fal) <= Len(fal') /\ Len(fal') <= MaxRequests
  /\ event' = event
  /\ hold' = hold /\ keys \subseteq keys'

PipelineEffect(t) ==
  task[t].pc \in WorkLabel /\ TaskEffect(t) /\ RowEffect(t) /\ RestEffect

(* What the handlers know when they run.                                    *)
Working(t) ==
  /\ TableTypeOK /\ PipelineTypeOK /\ t \in Task
  /\ jobOf(t) \in Job
  /\ task[t].pc \in WorkLabel => exists(jobOf(t))
  /\ task[t].pc \in StageLabel => task[t].stage # NoStage
  /\ HasStage(row[jobOf(t)])

-----------------------------------------------------------------------------
(* The record of a coroutine that starts anew is well typed.                *)
LEMMA FreshType == ASSUME NEW pc \in Label PROVE [Fresh EXCEPT !.pc = pc] \in TaskRecord
BY DEF Fresh, TaskRecord

(* The labels named here are labels.                                        *)
LEMMA LabelType == WorkLabel \cup {"done", "apply", "next", "idle", "dead"} \subseteq Label
BY DEF WorkLabel, Label

(* goto moves the coroutine and nothing else of it.                         *)
LEMMA GotoEffect ==
  ASSUME NEW t, Working(t), NEW label \in WorkLabel, goto(t, label),
         label \in StageLabel => task[t].stage # NoStage,
         label = "mark_failed" => Released(hold', keys', jobOf(t)),
         label \in {"look", "commit"} =>
           Captured(hold', keys', jobOf(t)) \/ at(t, "look") \/ kindOf(t) = "voice_clone"
  PROVE  TaskEffect(t)
<1> DEFINE q == [task[t] EXCEPT !.pc = label]
<1>1. task[t] \in TaskRecord /\ label \in Label
  BY LabelType DEF Working, PipelineTypeOK
<1>2. q \in TaskRecord /\ q.pc = label /\ q.job = jobOf(t) /\ q.stage = task[t].stage
  BY <1>1 DEF TaskRecord, jobOf
<1>3. task' = [task EXCEPT ![t] = q]
  BY DEF goto
<1> QED
  BY <1>2, <1>3 DEF TaskEffect

(* A handler that returns forgets its job.                                  *)
LEMMA ReturnEffect ==
  ASSUME NEW t, Working(t), return(t)
  PROVE  TaskEffect(t)
<1>1. after(t) \in {"done", "apply", "next"}
  BY DEF after
<1> DEFINE q == [Fresh EXCEPT !.pc = after(t)]
<1>2. q \in TaskRecord /\ q.pc = after(t)
  BY <1>1, LabelType, FreshType DEF Fresh
<1>3. q.pc \notin WorkLabel
  BY <1>1, <1>2 DEF WorkLabel
<1>4. task' = [task EXCEPT ![t] = q]
  BY DEF return
<1> HIDE DEF q
<1> QED
  BY <1>1, <1>2, <1>3, <1>4 DEF TaskEffect, WorkLabel, StageLabel

(* The row is left alone, or one of its fields is replaced.                 *)
LEMMA SameRow ==
  ASSUME NEW t, Working(t), task[t].pc \in WorkLabel, row' = row
  PROVE  RowEffect(t)
<1>1. row[jobOf(t)] \in RowRecord /\ exists(jobOf(t)) /\ row \in [Job -> RowRecord]
  BY DEF Working, TableTypeOK
<1>2. row' = [row EXCEPT ![jobOf(t)] = row[jobOf(t)]]
  BY <1>1
<1> QED
  BY <1>1, <1>2 DEF RowEffect, exists, kindOf

(* A step that changes neither queue nor wallet leaves the rest alone.      *)
LEMMA SameRest ==
  ASSUME TableTypeOK, UNCHANGED <<made, fal, event>>,
         UNCHANGED walletVars
  PROVE  RestEffect
BY DEF TableTypeOK, RestEffect, walletVars

(* A step of the coroutine alone.                                           *)
LEMMA Move ==
  ASSUME NEW t, Working(t), task[t].pc \in WorkLabel,
         UNCHANGED <<walletVars, tableVars>>, TaskEffect(t)
  PROVE  PipelineEffect(t)
BY SameRow, SameRest DEF tableVars, Working, PipelineEffect

-----------------------------------------------------------------------------
(* The steps all pipelines share.                                           *)
LEMMA DroppedEffect ==
  ASSUME NEW t, Working(t), dropped(t)
  PROVE  PipelineEffect(t)
<1>1. task[t].pc \in WorkLabel
  BY DEF dropped, at, WorkLabel
<1> QED
  BY <1>1, ReturnEffect, Move DEF dropped

(* Reading _runtime changes the coroutine only.                             *)
LEMMA RuntimeEffect ==
  ASSUME NEW t, Working(t), readRuntime(t) \/ rereadRuntime(t)
  PROVE  PipelineEffect(t)
<1>0. /\ task[t] \in TaskRecord /\ row[jobOf(t)] \in RowRecord
      /\ {"persist", "finalize"} \subseteq Label \cap WorkLabel
      /\ "persist" \notin StageLabel /\ "finalize" \notin StageLabel
  BY DEF Working, PipelineTypeOK, TableTypeOK, Label, WorkLabel, StageLabel
<1>1. CASE readRuntime(t)
  <2>1. at(t, "runtime") /\ task[t].pc \in WorkLabel /\ task[t].stage \in Stage
    BY <1>0, <1>1 DEF readRuntime, at, WorkLabel, StageLabel, Working, TaskRecord
  <2> DEFINE runtime == withResult(t, row[jobOf(t)].runtime)
  <2> DEFINE q == [task[t] EXCEPT !.pc = "persist", !.runtime = runtime]
  <2>2. runtime \in SUBSET Stage
    BY <1>0, <2>1 DEF withResult, RowRecord
  <2>3. task' = [task EXCEPT ![t] = q]
    BY <1>1 DEF readRuntime
  <2> HIDE DEF runtime
  <2>4. q \in TaskRecord /\ q.pc = "persist" /\ q.job = jobOf(t)
    BY <1>0, <2>2 DEF TaskRecord, jobOf
  <2>5. TaskEffect(t)
    BY <1>0, <2>3, <2>4 DEF TaskEffect
  <2> QED
    BY <1>1, <2>1, <2>5, Move DEF readRuntime
<1>2. CASE rereadRuntime(t)
  <2>1. task[t].pc \in WorkLabel
    BY <1>2 DEF rereadRuntime, at, WorkLabel
  <2> DEFINE q == [task[t] EXCEPT !.pc = "finalize", !.runtime = row[jobOf(t)].runtime]
  <2>2. task' = [task EXCEPT ![t] = q]
    BY <1>2 DEF rereadRuntime
  <2>3. q \in TaskRecord /\ q.pc = "finalize" /\ q.job = jobOf(t)
    BY <1>0 DEF TaskRecord, RowRecord, jobOf
  <2>4. TaskEffect(t)
    BY <1>0, <2>2, <2>3 DEF TaskEffect
  <2> QED
    BY <1>2, <2>1, <2>4, Move DEF rereadRuntime
<1> QED
  BY <1>1, <1>2

(* A submit: a new request of the queue or an old one, and the stage.       *)
LEMMA SubmittedEffect ==
  ASSUME NEW t, Working(t), task[t].pc \in WorkLabel,
         NEW stage \in Stage, NEW key \in SubmitKey, NEW label \in {"set_stage", "flag"},
         submitted(t, stage, key, label)
  PROVE  PipelineEffect(t)
<1>0. /\ task[t] \in TaskRecord /\ label \in Label /\ label \in WorkLabel
      /\ label \notin {"mark_failed", "look", "commit"}
      /\ stage # NoStage /\ fal \in Seq(FalRecord) /\ Len(fal) <= MaxRequests
      /\ made \in [Job -> Nat] /\ jobOf(t) \in Job /\ MaxRequests \in Nat
  BY RequestAssumption
     DEF Working, PipelineTypeOK, TableTypeOK, Label, WorkLabel, Stage, NoStage
<1>1. PICK r \in Request :
        /\ accepts(jobOf(t), key, r)
        /\ task' = [task EXCEPT ![t].pc = label, ![t].stage = stage, ![t].request = r]
  BY DEF submitted
<1> DEFINE q == [task[t] EXCEPT !.pc = label, !.stage = stage, !.request = r]
<1>2. task' = [task EXCEPT ![t] = q]
  BY <1>1
<1>3. q \in TaskRecord /\ q.pc = label /\ q.job = jobOf(t) /\ q.stage = stage
  BY <1>0 DEF TaskRecord, jobOf
<1>4. TaskEffect(t)
  BY <1>0, <1>2, <1>3 DEF TaskEffect
<1>5. fal' \in Seq(FalRecord) /\ Len(fal) <= Len(fal') /\ Len(fal') <= MaxRequests
  <2>1. CASE /\ Len(fal) < MaxRequests
             /\ fal' = Append(fal, [job |-> jobOf(t), key |-> key, state |-> "queued"])
    <3>1. [job |-> jobOf(t), key |-> key, state |-> "queued"] \in FalRecord
      BY <1>0 DEF FalRecord
    <3> QED
      BY <1>0, <2>1, <3>1
  <2>2. CASE fal' = fal
    BY <1>0, <2>2
  <2> QED
    BY <1>1, <2>1, <2>2 DEF accepts
<1>6. UNCHANGED <<walletVars, row, made, event>>
  BY DEF submitted
<1>7. RestEffect
  BY <1>0, <1>5, <1>6 DEF RestEffect, walletVars
<1> QED
  BY <1>4, <1>6, <1>7, SameRow DEF PipelineEffect

(* A refused submit fails the job, or finalizes it without the stage.       *)
LEMMA RefusedEffect ==
  ASSUME NEW t, Working(t), task[t].pc \in WorkLabel,
         NEW label \in {"release", "reread"}, refused(t, label)
  PROVE  PipelineEffect(t)
<1>1. label \in WorkLabel /\ label \notin StageLabel
      /\ label \notin {"mark_failed", "look", "commit"}
  BY DEF WorkLabel, StageLabel
<1> QED
  BY <1>1, GotoEffect, Move DEF refused

(* A submit adds a request, or finds it, and holds its stage.               *)
LEMMA SubmitEffect ==
  ASSUME NEW t, Working(t), NEW stage \in Stage,
         submitFirst(t, stage) \/ submitSecond(t, stage)
  PROVE  PipelineEffect(t)
<1>1. task[t].pc \in WorkLabel
  BY DEF submitFirst, submitSecond, at, WorkLabel
<1>2. ASSUME NEW key \in SubmitKey, submitted(t, stage, key, "set_stage")
      PROVE  PipelineEffect(t)
  <2>1. "set_stage" \in {"set_stage", "flag"}
    OBVIOUS
  <2> QED
    BY <1>1, <1>2, <2>1, SubmittedEffect
<1>3. ASSUME NEW label \in {"release", "reread"}, refused(t, label)
      PROVE  PipelineEffect(t)
  BY <1>1, <1>3, RefusedEffect
<1>4. \/ \E key \in SubmitKey : submitted(t, stage, key, "set_stage")
      \/ \E label \in {"release", "reread"} : refused(t, label)
  BY DEF submitFirst, submitSecond, SubmitKey
<1> QED
  BY <1>2, <1>3, <1>4

(* A change of the row that keeps its stage and request, or sets both, in a *)
(* transaction that touches no other table.                                 *)
LEMMA RowStep ==
  ASSUME NEW t, Working(t), task[t].pc \in WorkLabel, NEW w \in RowRecord,
         row' = [row EXCEPT ![jobOf(t)] = w],
         w.status # "absent", w.kind = kindOf(t), HasStage(w),
         w.status = "failed" => row[jobOf(t)].status = "failed" \/ at(t, "mark_failed"),
         w.status = "completed" => row[jobOf(t)].status = "completed" \/ at(t, "commit"),
         w.status = "canceled" => row[jobOf(t)].status = "canceled",
         UNCHANGED <<walletVars, made, fal, event>>, TaskEffect(t)
  PROVE  PipelineEffect(t)
<1>1. RowEffect(t)
  BY DEF RowEffect
<1> QED
  BY <1>1, SameRest DEF PipelineEffect, Working

(* A status is written into the row and nothing else.                       *)
LEMMA StatusStep ==
  ASSUME NEW t, Working(t), task[t].pc \in WorkLabel,
         NEW status \in {"running", "post_processing", "failed"},
         set_status(jobOf(t), status), status = "failed" => at(t, "mark_failed"),
         UNCHANGED <<walletVars, made, fal, event>>, TaskEffect(t)
  PROVE  PipelineEffect(t)
<1> DEFINE w == [row[jobOf(t)] EXCEPT !.status = status]
<1>1. row[jobOf(t)] \in RowRecord /\ HasStage(row[jobOf(t)])
  BY DEF Working, TableTypeOK
<1>2. /\ w \in RowRecord /\ w.status = status /\ w.kind = kindOf(t)
      /\ w.request = row[jobOf(t)].request /\ w.stage = row[jobOf(t)].stage
  BY <1>1 DEF RowRecord, ActiveStatus, TerminalStatus, kindOf
<1>3. row' = [row EXCEPT ![jobOf(t)] = w]
  BY DEF set_status
<1>4. HasStage(w)
  BY <1>1, <1>2 DEF HasStage
<1> HIDE DEF w
<1> QED
  BY <1>2, <1>3, <1>4, RowStep

(* The row takes over the stage and the request of the submit.              *)
LEMMA SetStageEffect ==
  ASSUME NEW t, Working(t), setCurrentStage(t)
  PROVE  PipelineEffect(t)
<1> DEFINE w == [row[jobOf(t)] EXCEPT !.stage = task[t].stage,
                                      !.request = task[t].request, !.status = "running"]
<1>1. /\ row[jobOf(t)] \in RowRecord /\ task[t] \in TaskRecord
      /\ task[t].pc \in WorkLabel /\ task[t].stage # NoStage
  BY DEF setCurrentStage, at, WorkLabel, StageLabel, Working, TableTypeOK, PipelineTypeOK
<1>2. /\ w \in RowRecord /\ w.status = "running" /\ w.kind = kindOf(t)
      /\ w.stage = task[t].stage
  BY <1>1 DEF RowRecord, TaskRecord, ActiveStatus, kindOf
<1>3. row' = [row EXCEPT ![jobOf(t)] = w]
  BY DEF setCurrentStage, set_current_stage
<1>4. HasStage(w)
  BY <1>1, <1>2 DEF HasStage
<1>5. TaskEffect(t)
  BY ReturnEffect DEF setCurrentStage
<1> HIDE DEF w
<1> QED
  BY <1>1, <1>2, <1>3, <1>4, <1>5, RowStep DEF setCurrentStage

(* The release leaves the coins released, whether it or an earlier one did. *)
LEMMA ReleaseEffectOnJob ==
  ASSUME NEW t, Working(t), releaseCredits(t)
  PROVE  PipelineEffect(t)
<1>1. task[t].pc \in WorkLabel /\ UNCHANGED tableVars
      /\ "mark_failed" \in WorkLabel /\ "mark_failed" \notin StageLabel
  BY DEF releaseCredits, at, WorkLabel, StageLabel
<1>2. hold' = hold /\ keys \subseteq keys' /\ Released(hold', keys', jobOf(t))
  BY DEF releaseCredits, release, appendKeyed, walletVars, Released
<1>3. TaskEffect(t)
  BY <1>1, <1>2, GotoEffect DEF releaseCredits
<1>4. RestEffect
  BY <1>1, <1>2 DEF RestEffect, tableVars, Working, TableTypeOK
<1> QED
  BY <1>1, <1>3, <1>4, SameRow DEF PipelineEffect, tableVars

(* The status failed is written at mark_failed only.                        *)
LEMMA MarkFailedEffect ==
  ASSUME NEW t, Working(t), markFailed(t)
  PROVE  PipelineEffect(t)
<1>1. task[t].pc \in WorkLabel /\ at(t, "mark_failed")
  BY DEF markFailed, at, WorkLabel
<1> QED
  BY <1>1, ReturnEffect, StatusStep DEF markFailed, mark_failed

(* The steps of BasePipeline.                                               *)
LEMMA BaseEffect ==
  ASSUME NEW t, Working(t), BaseStep(t)
  PROVE  PipelineEffect(t)
BY DroppedEffect, RuntimeEffect, SetStageEffect, ReleaseEffectOnJob, MarkFailedEffect
   DEF BaseStep

(* The head of a finalize never writes a terminal status.                   *)
LEMMA PostProcessEffect ==
  ASSUME NEW t, Working(t), NEW yes \in BOOLEAN, postProcess(t, yes)
  PROVE  PipelineEffect(t)
<1>1. task[t].pc \in WorkLabel
  BY DEF postProcess, at, WorkLabel
<1>2. ASSUME NEW label \in {"capture", "release"}, goto(t, label)
      PROVE  TaskEffect(t)
  <2>1. label \in WorkLabel /\ label \notin StageLabel
        /\ label \notin {"mark_failed", "look", "commit"}
    BY <1>2 DEF WorkLabel, StageLabel
  <2> QED
    BY <1>2, <2>1, GotoEffect
<1>3. TaskEffect(t)
  BY <1>2 DEF postProcess
<1> QED
  BY <1>1, <1>3, StatusStep DEF postProcess

(* The capture leaves the coins captured, whether it or an earlier one did. *)
LEMMA CaptureEffectOnJob ==
  ASSUME NEW t, Working(t), NEW label \in {"look", "commit"}, captureCredits(t, label)
  PROVE  PipelineEffect(t)
<1>1. task[t].pc \in WorkLabel /\ UNCHANGED tableVars
      /\ label \in WorkLabel /\ label \notin StageLabel /\ label # "mark_failed"
  BY DEF captureCredits, at, WorkLabel, StageLabel
<1>2. hold' = hold /\ keys \subseteq keys' /\ Captured(hold', keys', jobOf(t))
  BY DEF captureCredits, capture, appendKeyed, walletVars, Captured
<1>3. TaskEffect(t)
  BY <1>1, <1>2, GotoEffect DEF captureCredits
<1>4. RestEffect
  BY <1>1, <1>2 DEF RestEffect, tableVars, Working, TableTypeOK
<1> QED
  BY <1>1, <1>3, <1>4, SameRow DEF PipelineEffect, tableVars

(* The search for a track, between the capture and the commit.              *)
LEMMA LookEffect ==
  ASSUME NEW t, Working(t), lookForTrack(t)
  PROVE  PipelineEffect(t)
<1> DEFINE q == [task[t] EXCEPT !.pc = "commit", !.seen = made[jobOf(t)]]
<1>1. /\ task[t].pc \in WorkLabel /\ at(t, "look") /\ "commit" \in Label \cap WorkLabel
      /\ "commit" \notin StageLabel /\ task[t] \in TaskRecord /\ made[jobOf(t)] \in Nat
  BY DEF lookForTrack, at, WorkLabel, Label, StageLabel, Working, PipelineTypeOK, TableTypeOK
<1>2. q \in TaskRecord /\ q.pc = "commit" /\ q.job = jobOf(t)
  BY <1>1 DEF TaskRecord, jobOf
<1>3. task' = [task EXCEPT ![t] = q]
  BY DEF lookForTrack
<1>4. TaskEffect(t)
  BY <1>1, <1>2, <1>3 DEF TaskEffect
<1> QED
  BY <1>1, <1>4, Move DEF lookForTrack

(* The status completed is written at commit only.                          *)
LEMMA CommitEffect ==
  ASSUME NEW t, Working(t), NEW isNew, commitProduct(t, isNew)
  PROVE  PipelineEffect(t)
<1> DEFINE w == [row[jobOf(t)] EXCEPT !.status = "completed"]
<1>1. /\ task[t].pc \in WorkLabel /\ at(t, "commit")
      /\ row[jobOf(t)] \in RowRecord /\ HasStage(row[jobOf(t)])
      /\ made \in [Job -> Nat] /\ fal \in Seq(FalRecord) /\ Len(fal) <= MaxRequests
      /\ jobOf(t) \in Job
  BY DEF commitProduct, at, WorkLabel, Working, TableTypeOK
<1>2. /\ w \in RowRecord /\ w.status = "completed" /\ w.kind = kindOf(t)
      /\ w.request = row[jobOf(t)].request /\ w.stage = row[jobOf(t)].stage
  BY <1>1 DEF RowRecord, TerminalStatus, kindOf
<1>3. row' = [row EXCEPT ![jobOf(t)] = w]
  BY DEF commitProduct, mark_succeeded, set_status
<1>4. HasStage(w)
  BY <1>1, <1>2 DEF HasStage
<1> HIDE DEF w
<1>5. RowEffect(t)
  BY <1>1, <1>2, <1>3, <1>4 DEF RowEffect
<1>6. made' \in [Job -> Nat]
  BY <1>1 DEF commitProduct
<1>7. RestEffect
  BY <1>1, <1>6 DEF commitProduct, RestEffect, walletVars
<1> QED
  BY <1>1, <1>5, <1>7, ReturnEffect DEF commitProduct, PipelineEffect

-----------------------------------------------------------------------------
(* The steps of each pipeline.                                              *)
LEMMA MoveByGoto ==
  ASSUME NEW t, Working(t), task[t].pc \in WorkLabel,
         NEW label \in WorkLabel \ {"mark_failed", "look", "commit"},
         label \in StageLabel => task[t].pc \in StageLabel,
         goto(t, label), UNCHANGED <<walletVars, tableVars>>
  PROVE  PipelineEffect(t)
<1>1. label \in StageLabel => task[t].stage # NoStage
  BY DEF Working
<1> QED
  BY <1>1, GotoEffect, Move

(* The transaction of _persist_runtime or of the fallback flag.             *)
LEMMA PatchStep ==
  ASSUME NEW t, Working(t), task[t].pc \in WorkLabel,
         NEW runtime \in SUBSET Stage, NEW fallback \in BOOLEAN,
         row' = [row EXCEPT ![jobOf(t)] =
                   [@ EXCEPT !.runtime = runtime, !.fallback = fallback]],
         UNCHANGED <<walletVars, made, fal, event>>, TaskEffect(t)
  PROVE  PipelineEffect(t)
<1> DEFINE w == [row[jobOf(t)] EXCEPT !.runtime = runtime, !.fallback = fallback]
<1>1. /\ row[jobOf(t)] \in RowRecord /\ HasStage(row[jobOf(t)])
      /\ row[jobOf(t)].status # "absent"
  BY DEF Working, TableTypeOK, exists
<1>2. /\ w \in RowRecord /\ w.kind = kindOf(t) /\ w.status = row[jobOf(t)].status
      /\ w.request = row[jobOf(t)].request /\ w.stage = row[jobOf(t)].stage
  BY <1>1 DEF RowRecord, kindOf
<1>3. row' = [row EXCEPT ![jobOf(t)] = w]
  OBVIOUS
<1>4. HasStage(w)
  BY <1>1, <1>2 DEF HasStage
<1> HIDE DEF w
<1> QED
  BY <1>1, <1>2, <1>3, <1>4, RowStep

(* Saving a stage result keeps status, kind and stage of the row.           *)
LEMMA PersistStep ==
  ASSUME NEW t, Working(t), at(t, "persist"), NEW label \in {"submit", "finalize", "reread"},
         persist_runtime(jobOf(t), task[t].runtime), goto(t, label),
         UNCHANGED <<walletVars, made, fal, event>>
  PROVE  PipelineEffect(t)
<1>1. /\ task[t] \in TaskRecord /\ row[jobOf(t)] \in RowRecord /\ row \in [Job -> RowRecord]
      /\ jobOf(t) \in Job
      /\ task[t].pc \in WorkLabel /\ label \in WorkLabel /\ label \notin StageLabel
      /\ label \notin {"mark_failed", "look", "commit"}
  BY DEF at, WorkLabel, StageLabel, Working, TableTypeOK, PipelineTypeOK
<1>2. TaskEffect(t)
  BY <1>1, GotoEffect
<1>3. /\ task[t].runtime \in SUBSET Stage
      /\ row[jobOf(t)].fallback \in BOOLEAN
  BY <1>1 DEF TaskRecord, RowRecord
<1>4. row' = [row EXCEPT ![jobOf(t)] =
                [@ EXCEPT !.runtime = task[t].runtime, !.fallback = row[jobOf(t)].fallback]]
  BY <1>1 DEF persist_runtime, RowRecord
<1> QED
  BY <1>1, <1>2, <1>3, <1>4, PatchStep

(* So does the mark that the fallback was used.                             *)
LEMMA FlagEffect ==
  ASSUME NEW t, Working(t), songFlag(t)
  PROVE  PipelineEffect(t)
<1>1. /\ row[jobOf(t)] \in RowRecord /\ row \in [Job -> RowRecord] /\ jobOf(t) \in Job
      /\ task[t].pc \in WorkLabel /\ "set_stage" \in WorkLabel
      /\ task[t].stage # NoStage
  BY DEF songFlag, at, WorkLabel, StageLabel, Working, TableTypeOK
<1>2. TaskEffect(t)
  BY <1>1, GotoEffect DEF songFlag
<1>3. row[jobOf(t)].runtime \in SUBSET Stage
  BY <1>1 DEF RowRecord
<1>4. row' = [row EXCEPT ![jobOf(t)] =
                [@ EXCEPT !.runtime = row[jobOf(t)].runtime, !.fallback = TRUE]]
  BY <1>1 DEF songFlag, set_fallback_used, RowRecord
<1> QED
  BY <1>1, <1>2, <1>3, <1>4, PatchStep DEF songFlag

(* All of a _finalize.                                                      *)
LEMMA FinalizeEffect ==
  ASSUME NEW t, Working(t),
         \/ \E yes \in BOOLEAN : postProcess(t, yes)
         \/ \E label \in {"look", "commit"} : captureCredits(t, label)
         \/ lookForTrack(t)
         \/ \E isNew \in BOOLEAN : commitProduct(t, isNew)
  PROVE  PipelineEffect(t)
BY PostProcessEffect, CaptureEffectOnJob, LookEffect, CommitEffect

(* The steps of a song.                                                     *)
LEMMA SongEffect ==
  ASSUME NEW t, Working(t), SongStep(t)
  PROVE  PipelineEffect(t)
<1>1. CASE songAdvance(t)
  BY <1>1, MoveByGoto DEF songAdvance, at, WorkLabel, StageLabel
<1>2. CASE songPersist(t)
  BY <1>2, PersistStep DEF songPersist
<1>3. CASE songFail(t)
  BY <1>3, MoveByGoto DEF songFail, at, WorkLabel, StageLabel
<1>4. CASE songFallback(t)
  <2>1. task[t].pc \in WorkLabel /\ "music_generation" \in Stage /\ "fallback" \in SubmitKey
    BY <1>4 DEF songFallback, at, WorkLabel, Stage, SubmitKey
  <2> QED
    BY <1>4, <2>1, SubmittedEffect, RefusedEffect DEF songFallback
<1>5. CASE songFlag(t)
  BY <1>5, FlagEffect
<1>6. CASE songSubmit(t)
  <2>1. {"music_generation", "vocal_tts"} \subseteq Stage
    BY DEF Stage
  <2> QED
    BY <1>6, <2>1, SubmitEffect DEF songSubmit
<1>7. CASE songFinalize(t)
  <2>1. /\ ("music_generation" \in task[t].runtime) \in BOOLEAN
        /\ (task[t].seen = 0) \in BOOLEAN
    OBVIOUS
  <2> QED
    BY <1>7, <2>1, FinalizeEffect DEF songFinalize
<1> QED
  BY <1>1, <1>2, <1>3, <1>4, <1>5, <1>6, <1>7 DEF SongStep

(* The steps of a cover.                                                    *)
LEMMA CoverEffect ==
  ASSUME NEW t, Working(t), CoverStep(t)
  PROVE  PipelineEffect(t)
<1>1. CASE coverAdvance(t)
  BY <1>1, MoveByGoto DEF coverAdvance, at, WorkLabel, StageLabel
<1>2. CASE coverPersist(t)
  BY <1>2, PersistStep DEF coverPersist
<1>3. CASE coverFail(t)
  BY <1>3, MoveByGoto DEF coverFail, at, WorkLabel, StageLabel
<1>4. CASE coverSubmit(t)
  <2>1. {"stem_separation", "voice_conversion"} \subseteq Stage
    BY DEF Stage
  <2> QED
    BY <1>4, <2>1, SubmitEffect DEF coverSubmit
<1>5. CASE coverFinalize(t)
  <2>1. /\ ("voice_conversion" \in task[t].runtime) \in BOOLEAN
        /\ (task[t].seen = 0) \in BOOLEAN
    OBVIOUS
  <2> QED
    BY <1>5, <2>1, FinalizeEffect DEF coverFinalize
<1> QED
  BY <1>1, <1>2, <1>3, <1>4, <1>5 DEF CoverStep

(* The steps of a video.                                                    *)
LEMMA VideoEffect ==
  ASSUME NEW t, Working(t), VideoStep(t)
  PROVE  PipelineEffect(t)
<1>1. CASE videoAdvance(t)
  BY <1>1, MoveByGoto DEF videoAdvance, at, WorkLabel, StageLabel
<1>2. CASE videoFail(t)
  BY <1>2, MoveByGoto DEF videoFail, at, WorkLabel, StageLabel
<1>3. CASE videoSubmit(t)
  <2>1. videoStage(t) \in Stage
    BY DEF videoStage, Stage
  <2> QED
    BY <1>3, <2>1, SubmitEffect DEF videoSubmit
<1>4. CASE videoFinalize(t)
  BY <1>4, FinalizeEffect DEF videoFinalize
<1> QED
  BY <1>1, <1>2, <1>3, <1>4 DEF VideoStep

(* A voice clone comes to its commit without a capture.                     *)
LEMMA VoiceCloneEffect ==
  ASSUME NEW t, Working(t), VoiceCloneStep(t)
  PROVE  PipelineEffect(t)
<1>1. CASE cloneVoice(t)
  BY <1>1, MoveByGoto DEF cloneVoice, at, WorkLabel, StageLabel
<1>2. CASE clonePostProcess(t)
  <2>1. /\ task[t].pc \in WorkLabel /\ "commit" \in WorkLabel /\ "commit" \notin StageLabel
        /\ kindOf(t) = "voice_clone"
    BY <1>2 DEF clonePostProcess, at, WorkLabel, StageLabel, isVoiceClone
  <2>2. TaskEffect(t)
    BY <1>2, <2>1, GotoEffect DEF clonePostProcess
  <2> QED
    BY <1>2, <2>1, <2>2, StatusStep DEF clonePostProcess
<1>3. CASE cloneCommit(t)
  BY <1>3, FinalizeEffect DEF cloneCommit
<1> QED
  BY <1>1, <1>2, <1>3 DEF VoiceCloneStep

(* Every step of every pipeline.                                            *)
LEMMA StepEffectOfPipeline ==
  ASSUME NEW t, Working(t), pipelineStep(t)
  PROVE  PipelineEffect(t)
BY BaseEffect, SongEffect, CoverEffect, VideoEffect, VoiceCloneEffect DEF pipelineStep
=============================================================================
