------------------------------ MODULE JobTable ------------------------------
(***************************************************************************)
(* The tables a generation works on and the fal queue it waits for: jobs   *)
(* (JobsRepository), tracks and assets (how many a job produced), and      *)
(* processed_webhooks (WebhooksRepository), beside the coin wallet.        *)
(*                                                                         *)
(* Each operator is one transaction of a repository.  job_stage_log is     *)
(* left out: nothing reads it back but the progress screen and the         *)
(* "skipped" marks of _finalize.  Of input_payload the model keeps what    *)
(* decides control: _music_fallback_used and the stages of _runtime that   *)
(* hold a media url.                                                       *)
(***************************************************************************)
EXTENDS CoinWallet, Sequences

CONSTANTS
  ClientKeyOf,   \* Idempotency-Key header of a call of create_job, or NoKey
  NoKey,
  MaxRequests,   \* bound: requests the fal queue accepts
  Outcomes       \* how fal may end a request, of the four below

ASSUME RequestAssumption ==
  /\ MaxRequests \in Nat
  /\ Outcomes \subseteq {"media", "empty", "failed", "canceled"}

VARIABLES
  row,     \* jobs
  made,    \* tracks, assets or ready voice profiles a job has produced
  fal,     \* requests submitted to the fal queue; the request id is the index
  event    \* processed_webhooks.outcome of the completion event of a request

tableVars == <<row, made, fal, event>>

Kind == {"song", "voiced_song", "cover", "avatar", "visual_clip", "lyrics_video", "voice_clone"}
Stage == {"music_generation", "vocal_tts", "stem_separation", "voice_conversion",
          "lipsync", "visual_gen"}
NoStage == "none"
SubmitKey == {"first", "second", "fallback"}   \* suffixes of X-Idempotency-Key
NoRequest == 0
Request == 1 .. MaxRequests

ActiveStatus == {"created", "queued", "running", "post_processing"}
TerminalStatus == {"completed", "failed", "canceled"}

NoRow == [status |-> "absent", kind |-> "song", stage |-> NoStage, request |-> NoRequest,
          fallback |-> FALSE, runtime |-> {}]

TableInit ==
  /\ row = [j \in Job |-> NoRow]
  /\ made = [j \in Job |-> 0]
  /\ fal = <<>>
  /\ event = [r \in Request |-> "none"]

exists(j) == row[j].status # "absent"
active(j) == row[j].status \in ActiveStatus
terminal(j) == row[j].status \in TerminalStatus

-----------------------------------------------------------------------------
(* JobsRepository                                                           *)

(* get_by_idempotency_key: the row an earlier call with the same key and    *)
(* user made.  The index uq_jobs_user_id_client_idempotency_key also makes  *)
(* a second insert fail.                                                    *)
sameKey(j) ==
  {i \in Job : /\ ClientKeyOf[j] # NoKey /\ exists(i)
               /\ ClientKeyOf[i] = ClientKeyOf[j] /\ OwnerOf[i] = OwnerOf[j]}

create(j, kind) == row' = [row EXCEPT ![j].status = "created", ![j].kind = kind]

find_by_request_id(r) == {j \in Job : row[j].request = r}

(* Mutant: a job in post-processing is forgotten.                           *)
listRunningWithRequest == {j \in Job : row[j].status = "running" /\ row[j].request # NoRequest}

(* Mutant: the status is not looked at.                                     *)
listAnyWithRequest == {j \in Job : row[j].request # NoRequest}

list_active_with_request == {j \in Job : active(j) /\ row[j].request # NoRequest}

(* Mutant: only jobs that were never started count as orphans.              *)
listQueuedOrphans == {j \in Job : row[j].status = "queued" /\ row[j].request = NoRequest}

list_orphans ==
  {j \in Job : row[j].status \in {"queued", "running"} /\ row[j].request = NoRequest}

set_status(j, status) == row' = [row EXCEPT ![j].status = status]

(* The status is running again whatever it was.                             *)
set_current_stage(j, stage, r) ==
  row' = [row EXCEPT ![j].stage = stage, ![j].request = r, ![j].status = "running"]

(* mark_succeeded and mark_failed test nothing: a terminal status is        *)
(* overwritten as well.                                                     *)
mark_succeeded(j) == set_status(j, "completed")

(* Mutant: a status the enumeration does not have.                          *)
markError(j) == set_status(j, "error")

mark_failed(j) == set_status(j, "failed")

(* _persist_runtime and the _music_fallback_used patch lock the row and     *)
(* replace one key of input_payload.                                        *)
persist_runtime(j, runtime) == row' = [row EXCEPT ![j].runtime = runtime]
set_fallback_used(j) == row' = [row EXCEPT ![j].fallback = TRUE]

-----------------------------------------------------------------------------
(* WebhooksRepository: the claim of an event and the note that it was       *)
(* applied.  An event id is request_id:status, one per request.             *)
(* Mutant: an event claimed before may be claimed again.                    *)
recordAgain(r) == event' = [event EXCEPT ![r] = "received"]

try_record(r) ==
  /\ event[r] = "none"
  /\ event' = [event EXCEPT ![r] = "received"]

mark_applied(r) == event' = [event EXCEPT ![r] = "applied"]

-----------------------------------------------------------------------------
(* The fal queue.  A submit is accepted as a new request, or, when fal      *)
(* honours X-Idempotency-Key, answered with the request that has the key.   *)
accepts(j, key, r) ==
  \/ /\ Len(fal) < MaxRequests /\ r = Len(fal) + 1
     /\ fal' = Append(fal, [job |-> j, key |-> key, state |-> "queued"])
  \/ /\ r \in DOMAIN fal
     /\ fal[r].job = j /\ fal[r].key = key
     /\ UNCHANGED fal

finished(r) == r \in DOMAIN fal /\ fal[r].state # "queued"

falEnds(r) ==
  /\ r \in DOMAIN fal /\ fal[r].state = "queued"
  /\ \E o \in Outcomes : fal' = [fal EXCEPT ![r].state = o]

-----------------------------------------------------------------------------
RowRecord ==
  [status : ActiveStatus \cup TerminalStatus \cup {"absent"}, kind : Kind,
   stage : Stage \cup {NoStage}, request : Request \cup {NoRequest},
   fallback : BOOLEAN, runtime : SUBSET Stage]
FalRecord == [job : Job, key : SubmitKey, state : Outcomes \cup {"queued"}]

TableTypeOK ==
  /\ row \in [Job -> RowRecord]
  /\ made \in [Job -> Nat]
  /\ fal \in Seq(FalRecord)
  /\ Len(fal) <= MaxRequests
  /\ event \in [Request -> {"none", "received", "applied"}]
=============================================================================
