------------------------------ MODULE Library ------------------------------
(***************************************************************************)
(* The user's library at work: songs, covers of cloned voices and videos   *)
(* of tracks are ordered, finished by deliveries of fal that may overlap,  *)
(* renamed and deleted, while voices are cloned, instances restart and the *)
(* guest signs in.                                                         *)
(***************************************************************************)
EXTENDS Voices

CONSTANTS
  Delivery,   \* webhook calls and poller visits at work at one time
  Workloads   \* bounds: what one behaviour may ask for

Workload == [todo : SUBSET Job, users : SUBSET User, events : SUBSET Order, merges : Nat,
             visits : Nat, deaths : Nat, starts : Nat, edits : Nat, deletes : Nat]

ASSUME WorkloadAssumption == Workloads \subseteq Workload

VARIABLES
  delivery,    \* finalisations: the order, and what its transaction has read
  sweep,       \* jobs the starting instance has listed as orphans
  overlapped,  \* history: songs two deliveries of which finalised at a time
  workload     \* what is left of the bounds

vars == <<tableVars, request, delivery, sweep, overlapped, workload>>

NoDelivery == [at |-> "idle", order |-> None, user |-> None, exists |-> FALSE]

Init ==
  /\ TableInit
  /\ request = [j \in Job |-> Idle]
  /\ delivery = [d \in Delivery |-> NoDelivery]
  /\ sweep = {}
  /\ overlapped = {}
  /\ workload \in Workloads

-----------------------------------------------------------------------------
(* create_song, create_cover, create_video                                  *)

(* _resolve_target_voice, but for presets: the user's ready voices.         *)
voicesFor(u) == {v \in Voice : ownsVoice(u, v) /\ profile[v].status = "ready"}

(* _resolve_track_audio: the user's tracks.                                 *)
tracksFor(u) == {s \in Song : shownTo(s, u) # {}}

(* None: an uploaded url, a preset, or only a prompt.                       *)
sourcesOf(o, u) == {None} \cup IF o \in Song THEN voicesFor(u) ELSE tracksFor(u)

(* The source is copied into the payload here, and the job inserted later.  *)
order(o, u, source) ==
  /\ at(o, "idle") /\ source \in sourcesOf(o, u)
  /\ asks(o, u, source, "create job")
  /\ UNCHANGED tableVars

(* 402, or the job that fal accepted.                                       *)
createOrderJob(o) ==
  /\ at(o, "create job")
  /\ \/ /\ createJobRow(o, request[o].user, request[o].source, "running")
        /\ goto(o, "answered")
     \/ goto(o, "refused") /\ UNCHANGED job
  /\ UNCHANGED <<consent, profile, product, merged>>

-----------------------------------------------------------------------------
(* A delivery of fal's answer about the last stage: current_stage does not  *)
(* change any more, so advance lets every one of them pass.  The stages     *)
(* before it are in Generation.                                             *)

(* The claimed event of fal finds its job whatever has become of it.        *)
fal_webhook(d, o) ==
  /\ delivery[d].at = "idle" /\ job[o].status # "absent"
  /\ delivery' = [delivery EXCEPT ![d].at = "advance", ![d].order = o]
  /\ UNCHANGED <<tableVars, request, overlapped>>

(* The poller visits the jobs that were active when it listed them.         *)
poll(d, o) ==
  /\ delivery[d].at = "idle" /\ active(o)
  /\ delivery' = [delivery EXCEPT ![d].at = "advance", ![d].order = o]
  /\ UNCHANGED <<tableVars, request, overlapped>>

(* fail, or no media: of a video at once, of a song or cover in _finalize.  *)
(* Nobody looks at what has become of the job.  The music fallback is in    *)
(* Generation.                                                              *)
generationFails(d) ==
  LET o == delivery[d].order IN
  /\ delivery[d].at = "advance" \/ (delivery[d].at = "reading" /\ o \in Song)
  /\ mark_failed(o, "PROVIDER_FAILED")
  /\ delivery' = [delivery EXCEPT ![d] = NoDelivery]
  /\ UNCHANGED <<consent, profile, product, merged, request, overlapped>>

(* Mutant: the job is completed first, and its product made afterwards.     *)
succeedFirst(d) ==
  LET o == delivery[d].order IN
  /\ delivery[d].at = "advance"
  /\ mark_succeeded(o)
  /\ delivery' = [delivery EXCEPT ![d].at = "reading"]
  /\ UNCHANGED <<consent, profile, product, merged, request, overlapped>>

(* _finalize reopens the job, a completed or failed one too.                *)
finalizeStarts(d) ==
  LET o == delivery[d].order IN
  /\ delivery[d].at = "advance"
  /\ set_status(o, "post_processing")
  /\ delivery' = [delivery EXCEPT ![d].at = "reading"]
  /\ UNCHANGED <<consent, profile, product, merged, request, overlapped>>

finalising(o) == {d \in Delivery : delivery[d].order = o /\ delivery[d].at = "finalize"}

(* Its last transaction reads the job, and for a track if there is one.     *)
finalizeReads(d) ==
  LET o == delivery[d].order IN
  /\ delivery[d].at = "reading"
  /\ delivery' = [delivery EXCEPT ![d].at = "finalize", ![d].user = job[o].user,
                                  ![d].exists = o \in Song /\ existsByJob(o)]
  /\ overlapped' = IF o \in Song /\ finalising(o) # {}
                   THEN overlapped \cup {o} ELSE overlapped
  /\ UNCHANGED <<tableVars, request>>

(* And then writes on what it has read.                                     *)
finalize(d) ==
  LET o == delivery[d].order IN
  /\ delivery[d].at = "finalize"
  /\ IF delivery[d].exists THEN UNCHANGED product ELSE createProduct(o, delivery[d].user)
  /\ mark_succeeded(o)
  /\ delivery' = [delivery EXCEPT ![d] = NoDelivery]
  /\ UNCHANGED <<consent, profile, merged, request, overlapped>>

DeliveryStep(d) == generationFails(d) \/ finalizeStarts(d) \/ finalizeReads(d) \/ finalize(d)

-----------------------------------------------------------------------------
(* A track is addressed by its id, a video by its job: any row of it.       *)
rename_track(u, s) ==
  /\ \E i \in shownTo(s, u) : retitle(s, i)
  /\ UNCHANGED <<consent, profile, job, merged, request>>

delete_track(u, s) ==
  /\ \E i \in shownTo(s, u) : hide(s, i)
  /\ UNCHANGED <<consent, profile, job, merged, request>>

rename_video(u, m) ==
  /\ job[m].user = u /\ \E i \in shownTo(m, u) : retitle(m, i)
  /\ UNCHANGED <<consent, profile, job, merged, request>>

delete_video(u, m) ==
  /\ job[m].user = u /\ \E i \in shownTo(m, u) : hide(m, i)
  /\ UNCHANGED <<consent, profile, job, merged, request>>

-----------------------------------------------------------------------------
(* An instance starts, beside others that serve: recover_orphan_jobs lists  *)
(* and then ends the jobs one by one.                                       *)
startInstance ==
  /\ sweep = {} /\ sweep' = list_orphans /\ sweep' # {}
  /\ UNCHANGED <<tableVars, request>>

recoverOrphan(v) ==
  /\ v \in sweep /\ sweep' = sweep \ {v}
  /\ mark_failed(v, "STARTUP_RECOVERY")
  /\ UNCHANGED <<consent, profile, product, merged, request>>

(* The process of a request dies, or it raises what nobody catches.         *)
die(j) ==
  /\ request[j].at \notin {"idle", "answered", "refused", "dead"} /\ goto(j, "dead")
  /\ UNCHANGED tableVars

-----------------------------------------------------------------------------
spend(what) ==
  /\ workload[what] > 0
  /\ workload' = [workload EXCEPT ![what] = @ - 1]

inTurn(j) == j \in workload.todo /\ workload' = [workload EXCEPT !.todo = @ \ {j}]

(* One event of an order is claimed once: fal_webhook answers "duplicate".  *)
eventOf(o) == o \in workload.events /\ workload' = [workload EXCEPT !.events = @ \ {o}]

Ask ==
  /\ UNCHANGED <<delivery, sweep, overlapped>>
  /\ \E u \in workload.users :
       \/ \E c \in Consent : create_consent(u, c) /\ UNCHANGED workload
       \/ \E v \in Voice, c \in Consent : createVoice(v, u, c) /\ inTurn(v)
       \/ \E o \in Order : \E source \in sourcesOf(o, u) : order(o, u, source) /\ inTurn(o)
       \/ \E v \in Voice : rename_voice(u, v) /\ spend("edits")
       \/ \E v \in Voice : delete_voice(u, v) /\ spend("deletes")
       \/ \E s \in Song : rename_track(u, s) /\ spend("edits")
       \/ \E s \in Song : delete_track(u, s) /\ spend("deletes")
       \/ \E m \in Video : rename_video(u, m) /\ spend("edits")
       \/ \E m \in Video : delete_video(u, m) /\ spend("deletes")

Serve ==
  /\ UNCHANGED <<delivery, sweep, overlapped, workload>>
  /\ (\E v \in Voice : CloneStep(v)) \/ (\E o \in Order : createOrderJob(o))

Deliver ==
  /\ UNCHANGED sweep
  /\ \E d \in Delivery :
       \/ DeliveryStep(d) /\ UNCHANGED workload
       \/ \E o \in Order : poll(d, o) /\ spend("visits")
       \/ \E o \in Order : fal_webhook(d, o) /\ eventOf(o)

Fail ==
  /\ UNCHANGED <<delivery, overlapped>>
  /\ \/ startInstance /\ spend("starts")
     \/ \E v \in Voice : recoverOrphan(v) /\ UNCHANGED workload
     \/ \E j \in Job : die(j) /\ spend("deaths") /\ UNCHANGED sweep

SignIn == reassign_all /\ spend("merges") /\ UNCHANGED <<request, delivery, sweep, overlapped>>

Next == Ask \/ Serve \/ Deliver \/ Fail \/ SignIn

(* A request runs to its end unless it dies: the client of fal times out.   *)
Spec ==
  /\ Init /\ [][Next]_vars
  /\ \A v \in Voice :
       WF_vars(CloneStep(v) /\ UNCHANGED <<delivery, sweep, overlapped, workload>>)

-----------------------------------------------------------------------------
Owner == User \cup {None}
Source == Consent \cup Voice \cup Song \cup {None}
Statement == {"idle", "create job", "start", "consent_check", "voice_clone", "fail profile",
              "fail job", "post_processing", "finalize", "answered", "refused", "dead"}
Status == {"absent", "created", "running", "post_processing", "completed", "failed"}
Error == {None, "PIPELINE", "PROVIDER_FAILED", "STARTUP_RECOVERY"}
ProfileStatus == {"absent", "pending", "ready", "failed"}
Title == {"given", "edited"}

ProfileRow == [user : Owner, consent : Consent \cup {None}, status : ProfileStatus,
               title : Title, deleted : BOOLEAN]
JobRow == [user : Owner, source : Source, status : Status, error : Error]
ProductRow == [user : Owner, title : Title, deleted : BOOLEAN]
Request == [at : Statement, user : Owner, source : Source]
DeliveryRecord == [at : {"idle", "advance", "reading", "finalize"}, order : Order \cup {None},
                   user : Owner, exists : BOOLEAN]

(* The tables hold what the code writes into them.                          *)
TypesOK ==
  /\ consent \in [Consent -> Owner]
  /\ profile \in [Voice -> ProfileRow]
  /\ job \in [Job -> JobRow]
  /\ product \in [Order -> Seq(ProductRow)]
  /\ request \in [Job -> Request]
  /\ delivery \in [Delivery -> DeliveryRecord]
  /\ merged \in BOOLEAN /\ sweep \subseteq Voice /\ overlapped \subseteq Song
  /\ workload \in Workload

(* And a completed song, cover or video has what was ordered: its user sees *)
(* the job completed no sooner than there is a row to show for it.          *)
LibraryTypeOK ==
  /\ TypesOK
  /\ \A o \in Order : job[o].status = "completed" => product[o] # <<>>

(* A cover of a cloned voice and a video of a track are of a voice or track *)
(* of the same person, and the voice was cloned with that person's consent, *)
(* also when the guest signs in between resolve, insert and finalisation.   *)
SourcesAreOwn ==
  \A o \in Order :
    LET s == job[o].source  owner == person(job[o].user) IN
    s # None =>
      /\ o \in Song => /\ profile[s].status = "ready"
                       /\ person(profile[s].user) = owner
                       /\ person(consent[profile[s].consent]) = owner
      /\ o \in Video => \E i \in DOMAIN product[s] : person(product[s][i].user) = owner

(* A profile and its clone job tell the same: ready exactly when the job    *)
(* completed, and failed only with it, but for a job that an instance which *)
(* started meanwhile swept, and the moment between failing the two.         *)
ProfileTellsJob ==
  \A v \in Voice :
    /\ job[v].status = "completed" => profile[v].status = "ready"
    /\ profile[v].status = "ready" =>
         job[v].status = "completed" \/ job[v].error = "STARTUP_RECOVERY"
    /\ profile[v].status = "failed" /\ at(v, "answered") => job[v].status = "failed"

(* A song or cover its user deleted is not shown again by a repeated or     *)
(* late delivery: get_by_job_id with include_deleted finds the hidden row.  *)
(* Only two finalisations at the same time leave a second row to be seen.   *)
(* (A video has no such look-up: its late event makes a second asset.)      *)
DeletedStaysHidden ==
  \A o \in Song : shown(o) # {} /\ hidden(o) # {} => o \in overlapped

(* A voice does not stay pending, unless its request was refused or died    *)
(* after the profile was committed.                                         *)
VoicesSettle ==
  \A v \in Voice :
    profile[v].status = "pending" ~>
      profile[v].status # "pending" \/ request[v].at \in {"refused", "dead"}
=============================================================================
