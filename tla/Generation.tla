----------------------------- MODULE Generation -----------------------------
(***************************************************************************)
(* A generation from the call of create_job to its last status: the API    *)
(* request that starts it, the fal queue, the webhook and the poller that  *)
(* both bring the result, crashes of the server and the recovery at its    *)
(* start.                                                                  *)
(*                                                                         *)
(* The server is one process (UVICORN_WORKERS is 1 by default): a crash    *)
(* loses every coroutine, and the recovery ends before requests are served.*)
(***************************************************************************)
EXTENDS SongPipeline, CoverPipeline, VideoPipeline, VoiceClonePipeline

CONSTANTS
  Kinds,          \* kinds of generation clients ask for
  Deliveries,     \* deployments: how results may arrive
  PollLimit,      \* list_active_with_request(limit)
  ResultErrors,   \* may the result endpoint answer a finished request with an error
  WrappedStems,   \* does the separation model put its stems under "stems"
  MaxCrashes      \* bound

ASSUME DeliveryAssumption ==
  /\ Kinds \subseteq Kind
  /\ Deliveries \subseteq SUBSET {"webhook", "poller"}
  /\ PollLimit \in Nat \ {0}
  /\ MaxCrashes \in Nat
  /\ ResultErrors \in BOOLEAN /\ WrappedStems \in BOOLEAN

VARIABLES
  delivery,   \* {"webhook"} needs PUBLIC_BASE_URL, {"poller"} needs POLL_ENABLED
  server,     \* "serving", "down" or "recovering"
  batch,      \* what the poller or the recovery has read and not yet handled
  crashes

serverVars == <<delivery, server, crashes>>
vars == <<walletVars, tableVars, task, delivery, server, batch, crashes>>

Init ==
  /\ WalletInit /\ TableInit /\ PipelineInit
  /\ delivery \in Deliveries
  /\ server = "serving"
  /\ batch = {}
  /\ crashes = 0

-----------------------------------------------------------------------------
(* create_job: the earlier call with the same key answers a repeated one.   *)
lookupKey(j) ==
  /\ server = "serving" /\ at(Api(j), "idle")
  /\ task' = [task EXCEPT ![Api(j)].pc = IF sameKey(j) = {} THEN "reserve" ELSE "done",
                          ![Api(j)].job = j]
  /\ UNCHANGED <<walletVars, tableVars>>

(* The price is read and reserved in one transaction; 402 ends the call.    *)
reserveCredits(j) ==
  /\ at(Api(j), "reserve")
  /\ \E p \in Prices :
       \/ /\ reserve(j, p)
          /\ goto(Api(j), "insert")
       \/ /\ p = 0
          /\ goto(Api(j), "insert")
          /\ UNCHANGED walletVars
       \/ /\ available[OwnerOf[j]] < p
          /\ goto(Api(j), "done")
          /\ UNCHANGED walletVars
  /\ UNCHANGED tableVars

(* Mutant: the unique index was never created.                              *)
insertAnyway(j) ==
  /\ at(Api(j), "insert")
  /\ \E k \in Kinds : create(j, k)
  /\ goto(Api(j), "start")
  /\ UNCHANGED <<walletVars, made, fal, event>>

(* Mutant: the row is inserted without its reserved_credits.                *)
insertUnpriced(j) ==
  /\ at(Api(j), "insert")
  /\ sameKey(j) = {}
  /\ \E k \in Kinds : create(j, k)
  /\ hold' = [hold EXCEPT ![j] = 0]
  /\ goto(Api(j), "start")
  /\ UNCHANGED <<available, reserved, keys, booked, made, fal, event>>

(* A second row with the key violates the unique index: the error ends the  *)
(* call, and the reserve of the transaction before stays.                   *)
insertJob(j) ==
  /\ at(Api(j), "insert")
  /\ \/ /\ sameKey(j) = {}
        /\ \E k \in Kinds : create(j, k)
        /\ goto(Api(j), "start")
     \/ /\ sameKey(j) # {}
        /\ goto(Api(j), "done")
        /\ UNCHANGED row
  /\ UNCHANGED <<walletVars, made, fal, event>>

(* Every pipeline's start() begins with this transaction.                   *)
startPipeline(j) ==
  /\ at(Api(j), "start")
  /\ set_status(j, "running")
  /\ goto(Api(j), "submit")
  /\ UNCHANGED <<walletVars, made, fal, event>>

createJob(j) ==
  /\ lookupKey(j) \/ reserveCredits(j) \/ insertJob(j) \/ startPipeline(j)
  /\ UNCHANGED batch

-----------------------------------------------------------------------------
(* fal_webhook.  fal may deliver an event never, once or again, also after  *)
(* the request that handled it ended or was lost.  The claim is its own     *)
(* transaction, so a delivery of a claimed event ends at once; the model    *)
(* lets a later delivery take the place of one that ended.                  *)
claimEvent(r) ==
  /\ server = "serving" /\ "webhook" \in delivery
  /\ ~ running(Hook(r)) /\ finished(r)
  /\ try_record(r)
  /\ goto(Hook(r), "find")
  /\ UNCHANGED <<walletVars, row, made, fal>>

(* The job of the request and its current_stage; no such job: ignored.      *)
findJob(r) ==
  /\ at(Hook(r), "find")
  /\ \/ \E j \in find_by_request_id(r) :
          task' = [task EXCEPT ![Hook(r)].pc = "load", ![Hook(r)].job = j,
                               ![Hook(r)].stage = row[j].stage,
                               ![Hook(r)].result = fal[r].state]
     \/ find_by_request_id(r) = {} /\ goto(Hook(r), "done")
  /\ UNCHANGED <<walletVars, tableVars>>

eventApplied(r) ==
  /\ at(Hook(r), "apply")
  /\ mark_applied(r)
  /\ goto(Hook(r), "done")
  /\ UNCHANGED <<walletVars, row, made, fal>>

webhook(r) ==
  /\ claimEvent(r) \/ findJob(r) \/ eventApplied(r)
  /\ UNCHANGED batch

-----------------------------------------------------------------------------
(* FalPoller: at most PollLimit active jobs, in no order.                   *)
pollActive ==
  /\ server = "serving" /\ "poller" \in delivery /\ at(Poller, "idle")
  /\ \E S \in SUBSET list_active_with_request :
       /\ S # {}
       /\ S = list_active_with_request \/ Cardinality(S) = PollLimit
       /\ Cardinality(S) <= PollLimit
       /\ batch' = {[job |-> j, stage |-> row[j].stage, request |-> row[j].request] : j \in S}
  /\ goto(Poller, "next")
  /\ UNCHANGED <<walletVars, tableVars>>

(* fetch_status of one of them.  A finished request whose result cannot be  *)
(* fetched counts as failed, and unwrapped stems are not found.             *)
fetched(b) ==
  (IF fal[b.request].state = "media" /\ b.stage = "stem_separation" /\ ~ WrappedStems
     THEN {"empty"} ELSE {fal[b.request].state})
  \cup (IF ResultErrors /\ fal[b.request].state \in {"media", "empty"}
          THEN {"failed"} ELSE {})

pollAnswered(b) ==
  /\ at(Poller, "next") /\ b \in batch /\ finished(b.request)
  /\ \E result \in fetched(b) :
       task' = [task EXCEPT ![Poller].pc = "load", ![Poller].job = b.job,
                            ![Poller].stage = b.stage, ![Poller].result = result]
  /\ batch' = batch \ {b}
  /\ UNCHANGED <<walletVars, tableVars>>

(* Still queued, or fetch_status raised: the next cycle asks again.         *)
pollSkipped(b) ==
  /\ at(Poller, "next") /\ b \in batch
  /\ batch' = batch \ {b}
  /\ UNCHANGED <<walletVars, tableVars, task>>

pollEnds ==
  /\ at(Poller, "next") /\ batch = {}
  /\ goto(Poller, "idle")
  /\ UNCHANGED <<walletVars, tableVars, batch>>

poll == pollActive \/ pollEnds \/ \E b \in batch : pollAnswered(b) \/ pollSkipped(b)

-----------------------------------------------------------------------------
(* A crash loses the coroutines that run; what they committed stays.        *)
Crash ==
  /\ server # "down" /\ crashes < MaxCrashes
  /\ server' = "down"
  /\ crashes' = crashes + 1
  /\ task' = [t \in Task |->
                IF t \in {Poller, Recovery} THEN Fresh
                ELSE IF running(t) THEN [Fresh EXCEPT !.pc = "dead"] ELSE task[t]]
  /\ batch' = {}
  /\ UNCHANGED <<walletVars, tableVars, delivery>>

(* recover_orphan_jobs: what it read at the start, one job after another.   *)
Restart ==
  /\ server = "down"
  /\ server' = "recovering"
  /\ batch' = {[job |-> j, stage |-> row[j].stage, request |-> NoRequest] : j \in list_orphans}
  /\ goto(Recovery, "next")
  /\ UNCHANGED <<walletVars, tableVars, delivery, crashes>>

recoverNext ==
  /\ at(Recovery, "next")
  /\ \E b \in batch :
       /\ task' = [task EXCEPT ![Recovery].pc = "release", ![Recovery].job = b.job]
       /\ batch' = batch \ {b}
  /\ UNCHANGED <<walletVars, tableVars, serverVars>>

Serve ==
  /\ at(Recovery, "next") /\ batch = {}
  /\ goto(Recovery, "idle")
  /\ server' = "serving"
  /\ UNCHANGED <<walletVars, tableVars, delivery, batch, crashes>>

-----------------------------------------------------------------------------
pipelineStep(t) ==
  /\ jobOf(t) \in Job
  /\ BaseStep(t) \/ SongStep(t) \/ CoverStep(t) \/ VideoStep(t) \/ VoiceCloneStep(t)
  /\ UNCHANGED batch

(* The user buys coins while generations run.                               *)
purchase(u, k, n) ==
  /\ grantKey(k) \notin keys
  /\ grantCoins(u, k, n)
  /\ UNCHANGED <<tableVars, task, batch>>

falStep(r) ==
  /\ falEnds(r)
  /\ UNCHANGED <<walletVars, row, made, event, task, batch>>

Next ==
  \/ /\ \/ \E j \in Job : createJob(j)
        \/ \E r \in Request : webhook(r) \/ falStep(r)
        \/ poll
        \/ \E t \in Task : pipelineStep(t)
        \/ \E u \in User, k \in OpKey, n \in Amounts : purchase(u, k, n)
     /\ UNCHANGED serverVars
  \/ recoverNext \/ Crash \/ Restart \/ Serve

Spec == Init /\ [][Next]_vars

(* What runs on: fal ends every request; the event loop resumes every       *)
(* coroutine; the container restarts; the poller cycles, and fetch_status   *)
(* does not fail for one job in every cycle.  Nothing is assumed of the     *)
(* delivery of webhooks, nor that a client calls or a crash comes.          *)
Fairness ==
  /\ \A r \in Request : /\ WF_vars(falStep(r) /\ UNCHANGED serverVars)
                        /\ WF_vars((findJob(r) \/ eventApplied(r)) /\ UNCHANGED <<batch, serverVars>>)
  /\ \A j \in Job :
       /\ WF_vars((reserveCredits(j) \/ insertJob(j) \/ startPipeline(j))
                   /\ UNCHANGED <<batch, serverVars>>)
       /\ SF_vars((\E b \in batch : b.job = j /\ pollAnswered(b)) /\ UNCHANGED serverVars)
  /\ \A t \in Task : WF_vars(pipelineStep(t) /\ UNCHANGED serverVars)
  /\ WF_vars(poll /\ UNCHANGED serverVars)
  /\ WF_vars(recoverNext) /\ WF_vars(Restart) /\ WF_vars(Serve)

FairSpec == Spec /\ Fairness

-----------------------------------------------------------------------------
(* A completed job was paid for: the capture is committed before the        *)
(* status, in every interleaving and across a crash between the two.        *)
CompletedIsCaptured ==
  \A j \in Job : row[j].status = "completed" /\ hold[j] > 0 => captureKey(j) \in keys

(* A failed job gave its coins back, whoever failed it: the start, the      *)
(* webhook, the poller or the recovery.                                     *)
FailedIsReleased ==
  \A j \in Job : row[j].status = "failed" /\ hold[j] > 0 => releaseKey(j) \in keys

(* No job is both paid for and refunded.                                    *)
SettledOnce == CallersSettleOneWay

(* That much holds of one delivery while the server stays up.  A crash      *)
(* between the release and the failed status leaves a job the poller takes  *)
(* up again, and the second attempt may succeed: the fallback or the render *)
(* is not bound to end as it did before.                                    *)
SettledOnceUnlessCrashed == crashes = 0 => SettledOnce

(* The calls of a user with one Idempotency-Key make one job, also when     *)
(* they overlap and both find no row.                                       *)
OneJobPerKey ==
  \A i, j \in Job :
    /\ i # j /\ exists(i) /\ exists(j)
    /\ ClientKeyOf[i] # NoKey /\ ClientKeyOf[i] = ClientKeyOf[j]
    => OwnerOf[i] # OwnerOf[j]

(* A job that ended well is not refunded as well.                           *)
CompletedNotRefunded ==
  \A j \in Job : row[j].status = "completed" => releaseKey(j) \notin keys

(* A job makes one track or asset, however often its result arrives.        *)
OneProduct == \A j \in Job : made[j] <= 1

(* A job that ended stays as it ended: its client has stopped polling it.   *)
TerminalIsFinal ==
  [][\A j \in Job : terminal(j) => row'[j].status = row[j].status]_vars

(* With the poller on, a job that has a request ends, though webhooks are   *)
(* lost, come too early to find the job, or die in a crash half-way.        *)
RequestedJobEnds ==
  \A j \in Job :
    (active(j) /\ row[j].request # NoRequest /\ "poller" \in delivery) ~> terminal(j)

(* A job that was started gets a request or ends, also when the server      *)
(* crashes before the submit is recorded.                                   *)
StartedJobEnds ==
  \A j \in Job :
    row[j].status = "running" /\ row[j].request = NoRequest
      ~> row[j].request # NoRequest \/ terminal(j)

(* With the poller on, coins once captured buy a product or are given back, *)
(* also when the server crashes between the capture and the commit of the   *)
(* product and the second finalize ends otherwise than the first.           *)
CaptureBuysProduct ==
  \A j \in Job :
    captureKey(j) \in keys /\ "poller" \in delivery
      ~> made[j] > 0 \/ releaseKey(j) \in keys
=============================================================================
