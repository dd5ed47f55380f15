------------------------------- MODULE Voices -------------------------------
(***************************************************************************)
(* Consents and cloned voices: api/v1/voices.py with the clone pipeline    *)
(* that runs inside the request.  Its transactions are separate steps: the *)
(* profile is committed before the job, and fails before the job does.     *)
(***************************************************************************)
EXTENDS LibraryTables

VARIABLE request   \* requests that create something: statement, user, source

Idle == [at |-> "idle", user |-> None, source |-> None]

at(j, statement) == request[j].at = statement
goto(j, statement) == request' = [request EXCEPT ![j].at = statement]
asks(j, u, source, statement) ==
  request' = [request EXCEPT ![j] = [at |-> statement, user |-> u, source |-> source]]

(* A consent that is not accepted is refused.                               *)
create_consent(u, c) ==
  /\ consent[c] = None
  /\ consent' = [consent EXCEPT ![c] = u]
  /\ UNCHANGED <<profile, job, product, merged, request>>

-----------------------------------------------------------------------------
(* create_voice                                                             *)

createVoice(v, u, c) ==
  /\ at(v, "idle") /\ asks(v, u, c, "create job")
  /\ create_profile(v, u, c)
  /\ UNCHANGED <<consent, job, product, merged>>

(* create_job refuses a user who cannot pay, and no one touches the profile.*)
createVoiceJob(v) ==
  /\ at(v, "create job")
  /\ \/ /\ createJobRow(v, request[v].user, request[v].source, "created")
        /\ goto(v, "start")
     \/ goto(v, "refused") /\ UNCHANGED job
  /\ UNCHANGED <<consent, profile, product, merged>>

startClone(v) ==
  /\ at(v, "start") /\ goto(v, "consent_check")
  /\ set_status(v, "running")
  /\ UNCHANGED <<consent, profile, product, merged>>

(* Mutant: any consent will do.                                             *)
consentGiven(v) == consent[request[v].source] # None

(* Against the user the request came with, wherever the rows are now.       *)
consentHolds(v) == consent[request[v].source] = request[v].user

(* The request schema has a sample, so quality_check passes.                *)
consentCheck(v) ==
  /\ at(v, "consent_check")
  /\ goto(v, IF consentHolds(v) THEN "voice_clone" ELSE "fail profile")
  /\ UNCHANGED tableVars

cloneVoice(v) ==
  /\ at(v, "voice_clone")
  /\ goto(v, "post_processing") \/ goto(v, "fail profile")
  /\ UNCHANGED tableVars

(* Mutant: the pipeline only fails its job.                                 *)
leaveProfile(v) ==
  /\ at(v, "fail profile") /\ goto(v, "fail job")
  /\ UNCHANGED tableVars

failProfile(v) ==
  /\ at(v, "fail profile") /\ goto(v, "fail job")
  /\ update_profile(v, "failed")
  /\ UNCHANGED <<consent, job, product, merged>>

failJob(v) ==
  /\ at(v, "fail job") /\ goto(v, "answered")
  /\ mark_failed(v, "PIPELINE")
  /\ UNCHANGED <<consent, profile, product, merged>>

postProcess(v) ==
  /\ at(v, "post_processing") /\ goto(v, "finalize")
  /\ set_status(v, "post_processing")
  /\ UNCHANGED <<consent, profile, product, merged>>

(* Mutant: the pipeline only finishes its job.                              *)
finalizeJobOnly(v) ==
  /\ at(v, "finalize") /\ goto(v, "answered")
  /\ mark_succeeded(v)
  /\ UNCHANGED <<consent, profile, product, merged>>

finalizeVoice(v) ==
  /\ at(v, "finalize") /\ goto(v, "answered")
  /\ update_profile(v, "ready")
  /\ mark_succeeded(v)
  /\ UNCHANGED <<consent, product, merged>>

CloneStep(v) ==
  \/ createVoiceJob(v) \/ startClone(v) \/ consentCheck(v) \/ cloneVoice(v)
  \/ failProfile(v) \/ failJob(v) \/ postProcess(v) \/ finalizeVoice(v)

-----------------------------------------------------------------------------
ownsVoice(u, v) == get_active_profile(v) /\ profile[v].user = u

rename_voice(u, v) ==
  /\ ownsVoice(u, v)
  /\ profile' = [profile EXCEPT ![v].title = "edited"]
  /\ UNCHANGED <<consent, job, product, merged, request>>

delete_voice(u, v) ==
  /\ ownsVoice(u, v)
  /\ profile' = [profile EXCEPT ![v].deleted = TRUE]
  /\ UNCHANGED <<consent, job, product, merged, request>>
=============================================================================
