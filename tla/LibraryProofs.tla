--------------------------- MODULE LibraryProofs ---------------------------
(***************************************************************************)
(* LibraryTypeOK, ProfileTellsJob, DeletedStaysHidden and SourcesAreOwn of *)
(* Library, for any number of users, voices, orders and deliveries.        *)
(***************************************************************************)
EXTENDS Library, SequenceTheorems, TLAPS

(* What a request at a statement has written so far: its profile is pending *)
(* and its job not completed until the two change together, or the profile  *)
(* has failed and the job is about to.                                      *)
CloneOK(v) ==
  /\ request[v].at \in {"create job", "start", "consent_check", "voice_clone", "fail profile",
                        "post_processing", "finalize"}
       => profile[v].status = "pending" /\ job[v].status # "completed"
  /\ at(v, "idle") => profile[v].status = "absent" /\ job[v].status = "absent" /\ v \notin sweep
  /\ at(v, "fail job") => profile[v].status = "failed" /\ job[v].status # "completed"
  /\ job[v].status = "completed" => profile[v].status = "ready"
  /\ profile[v].status = "ready" =>
       job[v].status = "completed" \/ job[v].error = "STARTUP_RECOVERY"
  /\ profile[v].status = "failed" /\ at(v, "answered") => job[v].status = "failed"

CloneInv == \A v \in Voice : CloneOK(v)

(* Unless deliveries overlapped: at most one is where it decides whether to *)
(* make the track, it has decided on what is there, and one row is all.     *)
SongOK(o) ==
  o \notin overlapped =>
    /\ Len(product[o]) <= 1
    /\ \A d, e \in finalising(o) : d = e
    /\ \A d \in finalising(o) : ~delivery[d].exists => product[o] = <<>>

(* A job is completed when its product is there, and a delivery that goes   *)
(* by what another has made still finds it.                                 *)
MadeOK(o) ==
  /\ job[o].status = "completed" => product[o] # <<>>
  /\ \A d \in finalising(o) : delivery[d].exists => product[o] # <<>>

OrderOK(o) == MadeOK(o) /\ (o \in Song => SongOK(o))

(* A delivery has an order while it is under way.                           *)
Ordered == \A d \in Delivery : delivery[d].order = None <=> delivery[d].at = "idle"

OrderInv == Ordered /\ \A o \in Order : OrderOK(o)

Inv == TypesOK /\ CloneInv /\ OrderInv

(* Nothing of what OrderInv speaks of changes.                              *)
OrdersSame ==
  /\ product' = product /\ delivery' = delivery /\ overlapped' = overlapped
  /\ \A o \in Order : job'[o].status = job[o].status

(* Nothing of what CloneInv speaks of changes, or less is swept.            *)
VoicesSame ==
  sweep' \subseteq sweep /\
  \A v \in Voice : /\ request'[v].at = request[v].at
                   /\ profile'[v].status = profile[v].status
                   /\ job'[v] = job[v]

-----------------------------------------------------------------------------
(* An action that leaves the orders alone keeps their invariants.           *)
LEMMA OrdersKept == ASSUME OrderInv, OrdersSame PROVE OrderInv'
<1>1. Ordered'
  BY DEF OrderInv, Ordered, OrdersSame
<1>2. ASSUME NEW o \in Order PROVE OrderOK(o)'
  <2>1. finalising(o)' = finalising(o) /\ OrderOK(o)
    BY DEF OrdersSame, finalising, OrderInv
  <2>. QED BY <2>1 DEF OrderOK, MadeOK, SongOK, OrdersSame
<1>. QED BY <1>1, <1>2 DEF OrderInv

(* An action that leaves the voices alone keeps their invariant.            *)
LEMMA VoicesKept == ASSUME CloneInv, VoicesSame PROVE CloneInv'
BY DEF CloneInv, CloneOK, VoicesSame, at

(* A row appended, or one of them changed, leaves a sequence of rows.       *)
LEMMA RowAppended ==
  ASSUME NEW s \in Seq(ProductRow), NEW r \in ProductRow
  PROVE Append(s, r) \in Seq(ProductRow) /\ Len(Append(s, r)) = Len(s) + 1
BY AppendProperties

LEMMA RowChanged ==
  ASSUME NEW s \in Seq(ProductRow), NEW t, NEW i \in DOMAIN s, NEW r \in ProductRow,
         t = [s EXCEPT ![i] = r]
  PROVE t \in Seq(ProductRow) /\ Len(t) = Len(s)
BY ExceptSeq

-----------------------------------------------------------------------------
(* The empty tables are consistent.                                         *)
LEMMA InitInv == Init => Inv
<1>. SUFFICES ASSUME Init PROVE Inv
  OBVIOUS
<1>. USE DEF Init, TableInit
<1>1. TypesOK
  BY WorkloadAssumption, EmptySeq
  DEF TypesOK, ProfileRow, JobRow, Request, DeliveryRecord, Status, Error, ProfileStatus,
      Title, NoProfile, NoJob, Idle, NoDelivery, Owner, Source, Statement
<1>2. CloneInv
  BY DEF CloneInv, CloneOK, at, Idle, NoProfile, NoJob, Job
<1>3. \A o \in Order : finalising(o) = {}
  BY DEF finalising, NoDelivery
<1>4. OrderInv
  BY <1>3, EmptySeq DEF OrderInv, Ordered, OrderOK, MadeOK, SongOK, Job, NoJob, NoDelivery
<1>. QED BY <1>1, <1>2, <1>4 DEF Inv

-----------------------------------------------------------------------------
(* What the repositories write, row by row.                                 *)

(* A request moves on.                                                      *)
LEMMA GotoEffect ==
  ASSUME request \in [Job -> Request], NEW j \in Job, NEW s \in Statement, goto(j, s)
  PROVE  /\ request' \in [Job -> Request] /\ request'[j].at = s
         /\ \A i \in Job \ {j} : request'[i] = request[i]
<1> DEFINE r == [request[j] EXCEPT !.at = s]
<1>1. request[j] \in Request
  OBVIOUS
<1>2. r \in Request /\ r.at = s
  BY <1>1 DEF Request
<1>3. request' = [request EXCEPT ![j] = r]
  BY DEF goto
<1> HIDE DEF r
<1>. QED BY <1>2, <1>3

(* A request starts.                                                        *)
LEMMA AsksEffect ==
  ASSUME request \in [Job -> Request], NEW j \in Job, NEW u \in Owner, NEW x \in Source,
         NEW s \in Statement, asks(j, u, x, s)
  PROVE  /\ request' \in [Job -> Request] /\ request'[j].at = s
         /\ \A i \in Job \ {j} : request'[i] = request[i]
<1> DEFINE r == [at |-> s, user |-> u, source |-> x]
<1>2. r \in Request /\ r.at = s
  BY DEF Request
<1>3. request' = [request EXCEPT ![j] = r]
  BY DEF asks
<1> HIDE DEF r
<1>. QED BY <1>2, <1>3

(* job'[j] has that status, and the other rows are as they were.            *)
JobBecomes(j, status) ==
  /\ job' \in [Job -> JobRow] /\ job'[j].status = status
  /\ \A i \in Job \ {j} : job'[i] = job[i]

(* A job changes its status.                                                *)
LEMMA StatusEffect ==
  ASSUME job \in [Job -> JobRow], NEW j \in Job, NEW s \in Status, set_status(j, s)
  PROVE  JobBecomes(j, s) /\ job'[j].error = job[j].error
<1> DEFINE r == [job[j] EXCEPT !.status = s]
<1>1. job[j] \in JobRow
  OBVIOUS
<1>2. r \in JobRow /\ r.status = s /\ r.error = job[j].error
  BY <1>1 DEF JobRow
<1>3. job' = [job EXCEPT ![j] = r]
  BY DEF set_status
<1> HIDE DEF r
<1>. QED BY <1>2, <1>3 DEF JobBecomes

(* A job fails.                                                             *)
LEMMA FailedEffect ==
  ASSUME job \in [Job -> JobRow], NEW j \in Job, NEW e \in Error, mark_failed(j, e)
  PROVE  JobBecomes(j, "failed") /\ job'[j].error = e
<1> DEFINE r == [job[j] EXCEPT !.status = "failed", !.error = e]
<1>1. job[j] \in JobRow
  OBVIOUS
<1>2. r \in JobRow /\ r.status = "failed" /\ r.error = e
  BY <1>1 DEF JobRow, Status
<1>3. job' = [job EXCEPT ![j] = r]
  BY <1>1 DEF mark_failed
<1> HIDE DEF r
<1>. QED BY <1>2, <1>3 DEF JobBecomes

(* A job is inserted.                                                       *)
LEMMA InsertEffect ==
  ASSUME job \in [Job -> JobRow], NEW j \in Job, NEW u \in Owner, NEW x \in Source,
         NEW s \in Status, createJobRow(j, u, x, s)
  PROVE  JobBecomes(j, s)
<1> DEFINE r == [NoJob EXCEPT !.user = u, !.source = x, !.status = s]
<1>2. r \in JobRow /\ r.status = s
  BY DEF JobRow, NoJob, Error
<1>3. job' = [job EXCEPT ![j] = r]
  BY DEF createJobRow
<1> HIDE DEF r
<1>. QED BY <1>2, <1>3 DEF JobBecomes

(* profile'[v] has that status, and the other rows are as they were.        *)
ProfileBecomes(v, status) ==
  /\ profile' \in [Voice -> ProfileRow] /\ profile'[v].status = status
  /\ \A i \in Voice \ {v} : profile'[i] = profile[i]

(* A profile changes its status.                                            *)
LEMMA ProfileStatusEffect ==
  ASSUME profile \in [Voice -> ProfileRow], NEW v \in Voice, NEW s \in ProfileStatus,
         update_profile(v, s)
  PROVE  ProfileBecomes(v, s)
<1> DEFINE r == [profile[v] EXCEPT !.status = s]
<1>1. profile[v] \in ProfileRow
  OBVIOUS
<1>2. r \in ProfileRow /\ r.status = s
  BY <1>1 DEF ProfileRow
<1>3. profile' = [profile EXCEPT ![v] = r]
  BY DEF update_profile
<1> HIDE DEF r
<1>. QED BY <1>2, <1>3 DEF ProfileBecomes

(* A profile is inserted.                                                   *)
LEMMA ProfileInsertEffect ==
  ASSUME profile \in [Voice -> ProfileRow], NEW v \in Voice, NEW u \in Owner,
         NEW c \in Consent, create_profile(v, u, c)
  PROVE  ProfileBecomes(v, "pending")
<1> DEFINE r == [NoProfile EXCEPT !.user = u, !.consent = c, !.status = "pending"]
<1>2. r \in ProfileRow /\ r.status = "pending"
  BY DEF ProfileRow, NoProfile, ProfileStatus, Title
<1>3. profile' = [profile EXCEPT ![v] = r]
  BY DEF create_profile
<1> HIDE DEF r
<1>. QED BY <1>2, <1>3 DEF ProfileBecomes

(* A profile is renamed or deleted.                                         *)
LEMMA ProfileEditEffect ==
  ASSUME profile \in [Voice -> ProfileRow], NEW u, NEW v \in Voice,
         rename_voice(u, v) \/ delete_voice(u, v)
  PROVE  ProfileBecomes(v, profile[v].status)
<1> DEFINE n == [profile[v] EXCEPT !.title = "edited"]
           d == [profile[v] EXCEPT !.deleted = TRUE]
<1>1. profile[v] \in ProfileRow
  OBVIOUS
<1>2. n \in ProfileRow /\ n.status = profile[v].status
  BY <1>1 DEF ProfileRow, Title
<1>3. d \in ProfileRow /\ d.status = profile[v].status
  BY <1>1 DEF ProfileRow
<1>4. profile' = [profile EXCEPT ![v] = n] \/ profile' = [profile EXCEPT ![v] = d]
  BY DEF rename_voice, delete_voice
<1> HIDE DEF n, d
<1>. QED BY <1>2, <1>3, <1>4 DEF ProfileBecomes

-----------------------------------------------------------------------------
(* Voices                                                                   *)

Beside == UNCHANGED <<delivery, overlapped>> /\ sweep' \subseteq sweep /\ workload' \in Workload

(* Only what belongs to one voice changes.                                  *)
VoiceMoves(v) ==
  /\ request' \in [Job -> Request] /\ \A i \in Job \ {v} : request'[i] = request[i]
  /\ job' \in [Job -> JobRow] /\ \A i \in Job \ {v} : job'[i] = job[i]
  /\ profile' \in [Voice -> ProfileRow] /\ \A i \in Voice \ {v} : profile'[i] = profile[i]
  /\ UNCHANGED <<consent, product, merged>>

(* A step of one voice keeps the invariant if it keeps it for that voice.   *)
LEMMA VoiceMove ==
  ASSUME Inv, Beside, NEW v \in Voice, VoiceMoves(v), CloneOK(v)' PROVE Inv'
<1>. USE DEF Inv, Beside, VoiceMoves
<1>1. TypesOK'
  BY DEF TypesOK
<1>2. OrdersSame
  BY LibraryAssumption DEF OrdersSame, Order, Job
<1>3. ASSUME NEW i \in Voice \ {v} PROVE CloneOK(i)'
  <2>1. request'[i] = request[i] /\ job'[i] = job[i] /\ profile'[i] = profile[i] /\ CloneOK(i)
    BY DEF Job, CloneInv
  <2>. QED BY <2>1 DEF CloneOK, at
<1>. QED BY <1>1, <1>2, <1>3, OrdersKept DEF CloneInv

(* No clone depends on a consent that is only added.                        *)
LEMMA ConsentInv ==
  ASSUME Inv, Beside, NEW u \in User, NEW c \in Consent, create_consent(u, c)
  PROVE Inv'
<1>. USE DEF Inv, create_consent, Beside
<1>1. TypesOK'
  BY DEF TypesOK, Owner
<1>2. OrdersSame /\ VoicesSame
  BY DEF OrdersSame, VoicesSame
<1>. QED BY <1>1, <1>2, OrdersKept, VoicesKept

(* A profile starts pending, without a job.                                 *)
LEMMA CreateVoiceInv ==
  ASSUME Inv, Beside, NEW u \in User, NEW v \in Voice, NEW c \in Consent, createVoice(v, u, c)
  PROVE Inv'
<1>0. /\ v \in Job /\ u \in Owner /\ c \in Source /\ "create job" \in Statement
      /\ request \in [Job -> Request] /\ job \in [Job -> JobRow]
      /\ profile \in [Voice -> ProfileRow]
  BY DEF Job, Owner, Source, Statement, Inv, TypesOK
<1>1. /\ request' \in [Job -> Request] /\ request'[v].at = "create job"
      /\ \A i \in Job \ {v} : request'[i] = request[i]
  BY <1>0, AsksEffect DEF createVoice
<1>2. ProfileBecomes(v, "pending")
  BY <1>0, ProfileInsertEffect DEF createVoice
<1>3. job[v].status = "absent"
  BY DEF createVoice, Inv, CloneInv, CloneOK
<1>4. VoiceMoves(v)
  BY <1>0, <1>1, <1>2 DEF VoiceMoves, ProfileBecomes, createVoice
<1>5. CloneOK(v)'
  BY <1>1, <1>2, <1>3 DEF CloneOK, at, ProfileBecomes, createVoice
<1>. QED BY <1>4, <1>5, VoiceMove

(* The clone pipeline keeps profile and job in step.                        *)
LEMMA CloneStepInv ==
  ASSUME Inv, Beside, NEW v \in Voice, CloneStep(v)
  PROVE Inv'
<1>0. /\ v \in Job /\ request \in [Job -> Request] /\ job \in [Job -> JobRow]
      /\ profile \in [Voice -> ProfileRow] /\ CloneOK(v)
  BY DEF Job, Inv, CloneInv, TypesOK
<1>s. {"start", "refused", "consent_check", "voice_clone", "fail profile", "fail job",
       "post_processing", "finalize", "answered"} \subseteq Statement
  BY DEF Statement
<1>g. \A s \in Statement : goto(v, s) =>
        /\ request' \in [Job -> Request] /\ request'[v].at = s
        /\ \A i \in Job \ {v} : request'[i] = request[i]
  BY <1>0, GotoEffect
<1>t. {"created", "running", "post_processing", "completed"} \subseteq Status
  BY DEF Status
<1>j. \A s \in Status : set_status(v, s) => JobBecomes(v, s) /\ job'[v].error = job[v].error
  BY <1>0, StatusEffect
<1>p. \A s \in {"failed", "ready"} : update_profile(v, s) => ProfileBecomes(v, s)
  BY <1>0, ProfileStatusEffect DEF ProfileStatus
<1>. USE DEF VoiceMoves, JobBecomes, ProfileBecomes
<1>1. CASE createVoiceJob(v)
  <2>1. CASE createJobRow(v, request[v].user, request[v].source, "created") /\ goto(v, "start")
    <3>1. request[v].user \in Owner /\ request[v].source \in Source
      BY <1>0 DEF Request
    <3>2. JobBecomes(v, "created")
      BY <1>0, <1>t, <2>1, <3>1, InsertEffect
    <3>3. request' \in [Job -> Request] /\ request'[v].at = "start"
          /\ \A i \in Job \ {v} : request'[i] = request[i]
      BY <1>s, <1>g, <2>1
    <3>4. VoiceMoves(v)
      BY <1>0, <1>1, <3>2, <3>3 DEF createVoiceJob
    <3>5. CloneOK(v)'
      BY <1>0, <1>1, <3>2, <3>3 DEF CloneOK, at, createVoiceJob
    <3>. QED BY <3>4, <3>5, VoiceMove
  <2>2. CASE goto(v, "refused") /\ UNCHANGED job
    <3>1. request' \in [Job -> Request] /\ request'[v].at = "refused"
          /\ \A i \in Job \ {v} : request'[i] = request[i]
      BY <1>s, <1>g, <2>2
    <3>2. VoiceMoves(v)
      BY <1>0, <1>1, <2>2, <3>1 DEF createVoiceJob
    <3>3. CloneOK(v)'
      BY <1>0, <1>1, <2>2, <3>1 DEF CloneOK, at, createVoiceJob
    <3>. QED BY <3>2, <3>3, VoiceMove
  <2>. QED BY <1>1, <2>1, <2>2 DEF createVoiceJob
<1>2. CASE startClone(v)
  <2>1. VoiceMoves(v) /\ request'[v].at = "consent_check"
    BY <1>0, <1>2, <1>s, <1>g, <1>t, <1>j DEF startClone
  <2>2. CloneOK(v)'
    BY <1>0, <1>2, <1>t, <1>j, <2>1 DEF startClone, CloneOK, at
  <2>. QED BY <2>1, <2>2, VoiceMove
<1>3. CASE consentCheck(v)
  <2>1. VoiceMoves(v) /\ request'[v].at \in {"voice_clone", "fail profile"}
    BY <1>0, <1>3, <1>s, <1>g DEF consentCheck, tableVars
  <2>2. CloneOK(v)'
    BY <1>0, <1>3, <2>1 DEF consentCheck, CloneOK, at, tableVars
  <2>. QED BY <2>1, <2>2, VoiceMove
<1>4. CASE cloneVoice(v)
  <2>1. VoiceMoves(v) /\ request'[v].at \in {"post_processing", "fail profile"}
    BY <1>0, <1>4, <1>s, <1>g DEF cloneVoice, tableVars
  <2>2. CloneOK(v)'
    BY <1>0, <1>4, <2>1 DEF cloneVoice, CloneOK, at, tableVars
  <2>. QED BY <2>1, <2>2, VoiceMove
<1>5. CASE failProfile(v)
  <2>1. VoiceMoves(v) /\ request'[v].at = "fail job"
    BY <1>0, <1>5, <1>s, <1>g, <1>p DEF failProfile
  <2>2. CloneOK(v)'
    BY <1>0, <1>5, <1>p, <2>1 DEF failProfile, CloneOK, at
  <2>. QED BY <2>1, <2>2, VoiceMove
<1>6. CASE failJob(v)
  <2>1. JobBecomes(v, "failed")
    BY <1>0, <1>6, FailedEffect DEF failJob, Error
  <2>2. VoiceMoves(v) /\ request'[v].at = "answered"
    BY <1>0, <1>6, <1>s, <1>g, <2>1 DEF failJob
  <2>3. CloneOK(v)'
    BY <1>0, <1>6, <2>1, <2>2 DEF failJob, CloneOK, at
  <2>. QED BY <2>2, <2>3, VoiceMove
<1>7. CASE postProcess(v)
  <2>1. VoiceMoves(v) /\ request'[v].at = "finalize"
    BY <1>0, <1>7, <1>s, <1>g, <1>t, <1>j DEF postProcess
  <2>2. CloneOK(v)'
    BY <1>0, <1>7, <1>t, <1>j, <2>1 DEF postProcess, CloneOK, at
  <2>. QED BY <2>1, <2>2, VoiceMove
<1>8. CASE finalizeVoice(v)
  <2>1. VoiceMoves(v) /\ request'[v].at = "answered"
    BY <1>0, <1>8, <1>s, <1>g, <1>t, <1>j, <1>p DEF finalizeVoice, mark_succeeded
  <2>2. CloneOK(v)'
    BY <1>0, <1>8, <1>t, <1>j, <1>p, <2>1 DEF finalizeVoice, mark_succeeded, CloneOK, at
  <2>. QED BY <2>1, <2>2, VoiceMove
<1>. QED BY <1>1, <1>2, <1>3, <1>4, <1>5, <1>6, <1>7, <1>8 DEF CloneStep

(* Renaming or deleting a voice leaves its status alone.                    *)
LEMMA VoiceEditInv ==
  ASSUME Inv, Beside, NEW u \in User, NEW v \in Voice, rename_voice(u, v) \/ delete_voice(u, v)
  PROVE Inv'
<1>1. ProfileBecomes(v, profile[v].status)
  BY ProfileEditEffect DEF Inv, TypesOK
<1>2. VoiceMoves(v)
  BY <1>1 DEF VoiceMoves, ProfileBecomes, rename_voice, delete_voice, Inv, TypesOK
<1>3. CloneOK(v)'
  BY <1>1 DEF Inv, CloneInv, CloneOK, at, ProfileBecomes, rename_voice, delete_voice, Beside
<1>. QED BY <1>2, <1>3, VoiceMove

(* A swept job tells so by its error.                                       *)
LEMMA RecoverInv ==
  ASSUME Inv, Beside, NEW v \in Voice, recoverOrphan(v)
  PROVE Inv'
<1>1. JobBecomes(v, "failed") /\ job'[v].error = "STARTUP_RECOVERY"
  BY FailedEffect DEF recoverOrphan, Error, Inv, TypesOK, Job
<1>2. VoiceMoves(v)
  BY <1>1 DEF VoiceMoves, JobBecomes, recoverOrphan, Inv, TypesOK
<1>3. CloneOK(v)'
  BY <1>1 DEF Inv, CloneInv, CloneOK, at, JobBecomes, recoverOrphan
<1>. QED BY <1>2, <1>3, VoiceMove

(* Only jobs that were inserted are swept.                                  *)
LEMMA StartInv ==
  ASSUME Inv, UNCHANGED <<delivery, overlapped>>, workload' \in Workload, startInstance
  PROVE  Inv'
<1>. USE DEF Inv, startInstance, tableVars
<1>1. TypesOK'
  BY DEF TypesOK, list_orphans
<1>2. OrdersSame
  BY DEF OrdersSame
<1>3. CloneInv'
  BY DEF CloneInv, CloneOK, at, list_orphans
<1>. QED BY <1>1, <1>2, <1>3, OrdersKept

-----------------------------------------------------------------------------
(* Songs and videos                                                         *)

(* Only what belongs to one order changes.                                  *)
OrderMoves(o) ==
  /\ request' \in [Job -> Request] /\ \A i \in Job \ {o} : request'[i] = request[i]
  /\ job' \in [Job -> JobRow] /\ \A i \in Job \ {o} : job'[i] = job[i]
  /\ product' \in [Order -> Seq(ProductRow)] /\ \A i \in Order \ {o} : product'[i] = product[i]
  /\ overlapped \subseteq overlapped' /\ overlapped' \subseteq Song \cap (overlapped \cup {o})
  /\ UNCHANGED <<consent, profile, merged>> /\ sweep' \subseteq sweep
  /\ workload' \in Workload

(* Deliveries of the other orders stay where they are.                      *)
DeliveriesMove(o) ==
  /\ delivery' \in [Delivery -> DeliveryRecord]
  /\ \A d \in Delivery :
       /\ delivery'[d].order = None <=> delivery'[d].at = "idle"
       /\ \/ delivery'[d] = delivery[d]
          \/ {delivery[d].order, delivery'[d].order} \subseteq {None, o}

(* A step of one order keeps the invariant if it keeps it for that order.   *)
LEMMA OrderMove ==
  ASSUME Inv, NEW o \in Order, OrderMoves(o), DeliveriesMove(o), OrderOK(o)' PROVE Inv'
<1>. USE DEF Inv, OrderMoves, DeliveriesMove
<1>1. TypesOK'
  BY DEF TypesOK
<1>2. VoicesSame
  BY LibraryAssumption DEF VoicesSame, Order, Job
<1>3. ASSUME NEW p \in Order \ {o}
      PROVE  /\ request'[p] = request[p] /\ job'[p] = job[p] /\ product'[p] = product[p]
             /\ p \in overlapped' <=> p \in overlapped
             /\ \A d \in Delivery : delivery[d].order = p \/ delivery'[d].order = p
                                    => delivery'[d] = delivery[d]
  BY LibraryAssumption DEF Job, Order
<1>4. ASSUME NEW p \in Order \ {o} PROVE finalising(p)' = finalising(p)
  BY <1>3 DEF finalising
<1>5. ASSUME NEW p \in Order, p # o PROVE OrderOK(p)'
  <2>1. p \in Order \ {o} /\ OrderOK(p)
    BY <1>5 DEF OrderInv
  <2>2. \A d \in finalising(p) : delivery'[d] = delivery[d]
    BY <1>3, <2>1 DEF finalising
  <2>3. /\ job'[p] = job[p] /\ product'[p] = product[p] /\ finalising(p)' = finalising(p)
        /\ p \in overlapped' <=> p \in overlapped
    BY <1>3, <1>4, <2>1
  <2>4. MadeOK(p)'
    BY <2>1, <2>2, <2>3 DEF OrderOK, MadeOK
  <2>5. ASSUME p \in Song PROVE SongOK(p)'
    BY <2>1, <2>2, <2>3, <2>5 DEF OrderOK, SongOK
  <2>. QED BY <2>4, <2>5 DEF OrderOK
<1>6. OrderInv'
  BY <1>5 DEF Ordered, OrderInv
<1>. QED BY <1>1, <1>2, <1>6, VoicesKept

(* The facts about an order's tables that the actions below start from.     *)
LEMMA OrderFacts ==
  ASSUME Inv, NEW o \in Order
  PROVE  /\ o \in Job /\ request \in [Job -> Request] /\ job \in [Job -> JobRow]
         /\ product \in [Order -> Seq(ProductRow)] /\ delivery \in [Delivery -> DeliveryRecord]
         /\ \A d \in Delivery : delivery[d].order = None <=> delivery[d].at = "idle"
         /\ MadeOK(o) /\ (o \in Song => SongOK(o))
         /\ o # None
BY LibraryAssumption DEF Inv, TypesOK, Job, Order, OrderInv, Ordered, OrderOK

(* While no delivery moves and no row comes or goes, an order stays safe.   *)
LEMMA OrderKeeps ==
  ASSUME Inv, NEW o \in Order, UNCHANGED <<delivery, overlapped>>,
         Len(product'[o]) = Len(product[o]), product'[o] = <<>> <=> product[o] = <<>>,
         job'[o].status = "completed" => job[o].status = "completed"
  PROVE  OrderOK(o)'
<1>1. finalising(o)' = finalising(o)
  BY DEF finalising
<1>2. ASSUME o \in Song PROVE SongOK(o)'
  <2>1. SongOK(o)
    BY <1>2, OrderFacts
  <2>. QED BY <1>1, <2>1 DEF SongOK
<1>3. MadeOK(o)'
  BY <1>1, OrderFacts DEF MadeOK
<1>. QED BY <1>2, <1>3 DEF OrderOK

(* An order that is resolved has written nothing.                           *)
LEMMA AskInv ==
  ASSUME Inv, Beside, NEW u \in User, NEW o \in Order, NEW source \in sourcesOf(o, u),
         order(o, u, source)
  PROVE  Inv'
<1>. USE OrderFacts
<1>1. u \in Owner /\ source \in Source /\ "create job" \in Statement
  BY DEF Owner, Source, Statement, sourcesOf, voicesFor, tracksFor
<1>2. /\ request' \in [Job -> Request] /\ request'[o].at = "create job"
      /\ \A i \in Job \ {o} : request'[i] = request[i]
  BY <1>1, AsksEffect DEF order
<1>3. OrderMoves(o) /\ DeliveriesMove(o)
  BY <1>2 DEF OrderMoves, DeliveriesMove, order, tableVars, Beside
<1>4. OrderOK(o)'
  BY OrderKeeps DEF order, tableVars, Beside
<1>. QED BY <1>3, <1>4, OrderMove

(* The insert of its job makes no track.                                    *)
LEMMA CreateOrderJobInv ==
  ASSUME Inv, Beside, NEW o \in Order, createOrderJob(o)
  PROVE  Inv'
<1>. USE OrderFacts
<1>1. ASSUME NEW s \in {"answered", "refused"}, goto(o, s)
      PROVE  /\ request' \in [Job -> Request] /\ request'[o].at = s
             /\ \A i \in Job \ {o} : request'[i] = request[i]
  BY <1>1, GotoEffect DEF Statement
<1>2. request[o] \in Request /\ request[o].user \in Owner /\ request[o].source \in Source
  <2>1. request[o] \in Request
    OBVIOUS
  <2>. QED BY <2>1 DEF Request
<1>3. /\ request' \in [Job -> Request] /\ request'[o].at \in {"answered", "refused"}
      /\ \A i \in Job \ {o} : request'[i] = request[i]
  BY <1>1 DEF createOrderJob
<1>4. /\ job' \in [Job -> JobRow] /\ \A i \in Job \ {o} : job'[i] = job[i]
      /\ job'[o].status = "completed" => job[o].status = "completed"
  BY <1>2, InsertEffect DEF createOrderJob, Status, JobBecomes
<1>5. OrderMoves(o) /\ DeliveriesMove(o)
  BY <1>3, <1>4 DEF OrderMoves, DeliveriesMove, createOrderJob, Beside
<1>6. OrderOK(o)'
  BY <1>4, OrderKeeps DEF createOrderJob, Beside
<1>. QED BY <1>5, <1>6, OrderMove

(* A request that dies leaves what it has written.                          *)
LEMMA DieInv ==
  ASSUME Inv, Beside, NEW j \in Job, die(j)
  PROVE  Inv'
<1>1. /\ request' \in [Job -> Request] /\ request'[j].at = "dead"
      /\ \A i \in Job \ {j} : request'[i] = request[i]
  BY GotoEffect DEF die, Statement, Inv, TypesOK
<1>2. CASE j \in Voice
  <2>1. VoiceMoves(j)
    BY <1>1 DEF VoiceMoves, die, tableVars, Inv, TypesOK
  <2>2. CloneOK(j)'
    BY <1>1, <1>2 DEF Inv, CloneInv, CloneOK, at, die, tableVars, Beside
  <2>. QED BY <1>2, <2>1, <2>2, VoiceMove
<1>3. CASE j \in Order
  <2>. USE <1>3, OrderFacts
  <2>1. OrderMoves(j) /\ DeliveriesMove(j)
    BY <1>1 DEF OrderMoves, DeliveriesMove, die, tableVars, Beside
  <2>2. OrderOK(j)'
    BY OrderKeeps DEF die, tableVars, Beside
  <2>. QED BY <2>1, <2>2, OrderMove
<1>. QED BY <1>2, <1>3 DEF Job

(* A user's rename or delete writes one row.                                *)
LEMMA ProductEditInv ==
  ASSUME Inv, Beside, NEW u \in User, NEW o \in Order,
         \/ o \in Song /\ (rename_track(u, o) \/ delete_track(u, o))
         \/ o \in Video /\ (rename_video(u, o) \/ delete_video(u, o))
  PROVE  Inv'
<1>. USE OrderFacts
<1>1. PICK i \in DOMAIN product[o] :
        \/ product' = [product EXCEPT ![o][i].title = "edited"]
        \/ product' = [product EXCEPT ![o][i].deleted = TRUE]
  BY DEF rename_track, delete_track, rename_video, delete_video, retitle, hide, shownTo, shown
<1>2. product[o] \in Seq(ProductRow) /\ product[o][i] \in ProductRow
  BY <1>1, LenProperties
<1> DEFINE n == [product[o][i] EXCEPT !.title = "edited"]
           d == [product[o][i] EXCEPT !.deleted = TRUE]
<1>3. n \in ProductRow /\ d \in ProductRow
  BY <1>2 DEF ProductRow, Title
<1>4. PICK r \in ProductRow : product' = [product EXCEPT ![o] = [product[o] EXCEPT ![i] = r]]
  BY <1>1, <1>3
<1>5. /\ [product[o] EXCEPT ![i] = r] \in Seq(ProductRow)
      /\ Len([product[o] EXCEPT ![i] = r]) = Len(product[o])
  BY <1>1, <1>2, <1>4, RowChanged
<1>6. /\ product' \in [Order -> Seq(ProductRow)] /\ Len(product'[o]) = Len(product[o])
      /\ \A p \in Order \ {o} : product'[p] = product[p]
  BY <1>4, <1>5
<1>7. product[o] # <<>> /\ product'[o] # <<>>
  BY <1>1, <1>2, <1>6, LenProperties
<1>8. OrderMoves(o) /\ DeliveriesMove(o)
  BY <1>6
  DEF OrderMoves, DeliveriesMove, rename_track, delete_track, rename_video, delete_video, Beside
<1>9. OrderOK(o)'
  BY <1>6, <1>7, OrderKeeps
  DEF rename_track, delete_track, rename_video, delete_video, Beside
<1>. QED BY <1>8, <1>9, OrderMove
-----------------------------------------------------------------------------
(* Deliveries                                                               *)

(* delivery'[d] is about o at that statement, and no other delivery moves.  *)
DeliveryBecomes(d, o, statement) ==
  /\ delivery' \in [Delivery -> DeliveryRecord]
  /\ delivery'[d].order = o /\ delivery'[d].at = statement
  /\ \A e \in Delivery \ {d} : delivery'[e] = delivery[e]

(* A step of a delivery that reads no product and writes none.              *)
LEMMA DeliveryAside ==
  ASSUME Inv, NEW d \in Delivery, NEW o \in Order, OrderMoves(o),
         UNCHANGED <<product, overlapped>>,
         job'[o].status = "completed" => job[o].status = "completed",
         delivery[d].order \in {None, o}, delivery[d].at # "finalize",
         NEW x \in {None, o}, NEW s \in {"idle", "advance", "reading"}, x = None <=> s = "idle",
         DeliveryBecomes(d, x, s)
  PROVE  Inv'
<1>. USE OrderFacts
<1>1. DeliveriesMove(o)
  BY DEF DeliveriesMove, DeliveryBecomes
<1>2. /\ finalising(o)' = finalising(o)
      /\ \A e \in finalising(o) : delivery'[e] = delivery[e]
  BY DEF finalising, DeliveryBecomes
<1>3. OrderOK(o)'
  BY <1>2 DEF OrderOK, MadeOK, SongOK
<1>. QED BY <1>1, <1>3, OrderMove

(* A delivery that sets out has not looked at anything yet.                 *)
LEMMA DeliveryInv ==
  ASSUME Inv, NEW d \in Delivery, NEW o \in Order, fal_webhook(d, o) \/ poll(d, o),
         workload' \in Workload, UNCHANGED sweep
  PROVE  Inv'
<1> DEFINE r == [delivery[d] EXCEPT !.at = "advance", !.order = o]
<1>1. delivery \in [Delivery -> DeliveryRecord] /\ delivery[d] \in DeliveryRecord
  BY OrderFacts
<1>2. r \in DeliveryRecord /\ r.at = "advance" /\ r.order = o
  BY <1>1 DEF DeliveryRecord
<1>3. delivery' = [delivery EXCEPT ![d] = r]
  BY <1>1 DEF fal_webhook, poll
<1> HIDE DEF r
<1>4. DeliveryBecomes(d, o, "advance")
  BY <1>1, <1>2, <1>3 DEF DeliveryBecomes
<1>5. delivery[d].order = None /\ delivery[d].at = "idle" /\ o # None
  BY OrderFacts DEF fal_webhook, poll
<1>6. UNCHANGED <<tableVars, request, overlapped>>
  BY DEF fal_webhook, poll
<1>7. OrderMoves(o)
  BY <1>6 DEF OrderMoves, tableVars, Inv, TypesOK
<1>8. UNCHANGED <<product, overlapped, job>>
  BY <1>6 DEF tableVars
<1>. QED BY <1>4, <1>5, <1>7, <1>8, DeliveryAside

(* A delivery under way has an order.                                       *)
LEMMA UnderWay ==
  ASSUME Inv, NEW d \in Delivery, delivery[d].at # "idle"
  PROVE  /\ delivery[d] \in DeliveryRecord /\ delivery[d].order \in Order
         /\ delivery[d].user \in Owner
<1>1. delivery[d] \in DeliveryRecord /\ delivery[d].order # None
  BY DEF Inv, TypesOK, OrderInv, Ordered
<1>. QED BY <1>1 DEF DeliveryRecord

(* The job is reopened.                                                     *)
LEMMA FinalizeStartsInv ==
  ASSUME Inv, NEW d \in Delivery, finalizeStarts(d), UNCHANGED <<sweep, workload>>
  PROVE  Inv'
<1> DEFINE r == [delivery[d] EXCEPT !.at = "reading"]
<1>1. /\ delivery[d].at = "advance" /\ delivery[d] \in DeliveryRecord
      /\ delivery[d].order \in Order
  BY UnderWay DEF finalizeStarts
<1>2. PICK o \in Order : o = delivery[d].order
  BY <1>1
<1>3. JobBecomes(o, "post_processing")
  BY <1>2, OrderFacts, StatusEffect DEF finalizeStarts, Status
<1>4. r \in DeliveryRecord /\ r.at = "reading" /\ r.order = o
  BY <1>1, <1>2 DEF DeliveryRecord
<1>5. delivery' = [delivery EXCEPT ![d] = r]
  BY DEF finalizeStarts
<1> HIDE DEF r
<1>6. DeliveryBecomes(d, o, "reading")
  BY <1>2, <1>4, <1>5, OrderFacts DEF DeliveryBecomes
<1>7. UNCHANGED <<consent, profile, product, merged, request, overlapped>>
  BY DEF finalizeStarts
<1>8. OrderMoves(o)
  BY <1>3, <1>7 DEF OrderMoves, JobBecomes, Inv, TypesOK
<1>9. job'[o].status # "completed" /\ o # None
  BY <1>3, OrderFacts DEF JobBecomes
<1>. QED BY <1>1, <1>2, <1>6, <1>7, <1>8, <1>9, DeliveryAside

(* Or it fails, whatever has become of it.                                  *)
LEMMA GenerationFailsInv ==
  ASSUME Inv, NEW d \in Delivery, generationFails(d), UNCHANGED <<sweep, workload>>
  PROVE  Inv'
<1>1. /\ delivery[d].at \in {"advance", "reading"} /\ delivery[d] \in DeliveryRecord
      /\ delivery[d].order \in Order
  BY UnderWay DEF generationFails
<1>2. PICK o \in Order : o = delivery[d].order
  BY <1>1
<1>3. JobBecomes(o, "failed")
  BY <1>2, OrderFacts, FailedEffect DEF generationFails, Error
<1>4. NoDelivery \in DeliveryRecord /\ NoDelivery.at = "idle" /\ NoDelivery.order = None
  BY DEF NoDelivery, DeliveryRecord, Owner
<1>5. delivery' = [delivery EXCEPT ![d] = NoDelivery]
  BY DEF generationFails
<1>6. DeliveryBecomes(d, None, "idle")
  BY <1>2, <1>4, <1>5, OrderFacts DEF DeliveryBecomes
<1>7. UNCHANGED <<consent, profile, product, merged, request, overlapped>>
  BY DEF generationFails
<1>8. OrderMoves(o)
  BY <1>3, <1>7 DEF OrderMoves, JobBecomes, Inv, TypesOK
<1>9. job'[o].status # "completed"
  BY <1>3 DEF JobBecomes
<1>. QED BY <1>1, <1>2, <1>6, <1>7, <1>8, <1>9, DeliveryAside

(* A finalisation that reads alone, reads what is there.                    *)
LEMMA FinalizeReadsInv ==
  ASSUME Inv, NEW d \in Delivery, finalizeReads(d), UNCHANGED <<sweep, workload>>
  PROVE  Inv'
<1>0. delivery[d] \in DeliveryRecord /\ delivery[d].at = "reading" /\ delivery[d].order \in Order
  BY UnderWay DEF finalizeReads
<1>1. PICK o \in Order : o = delivery[d].order
  BY <1>0
<1> DEFINE found == o \in Song /\ existsByJob(o)
           r == [delivery[d] EXCEPT !.at = "finalize", !.user = job[o].user, !.exists = found]
<1>. USE OrderFacts
<1>2. job[o].user \in Owner
  <2>1. job[o] \in JobRow
    BY <1>0, <1>1
  <2>. QED BY <2>1 DEF JobRow
<1>3. /\ r \in DeliveryRecord /\ r.at = "finalize" /\ r.order = o
      /\ r.exists = found
  BY <1>0, <1>1, <1>2 DEF DeliveryRecord, existsByJob
<1>4. delivery' = [delivery EXCEPT ![d] = r]
  BY <1>0, <1>1 DEF finalizeReads
<1>5. DeliveryBecomes(d, o, "finalize") /\ delivery'[d].exists = found
  <2>. HIDE DEF r, found
  <2>. QED BY <1>0, <1>1, <1>3, <1>4 DEF DeliveryBecomes
<1> HIDE DEF r
<1>6. OrderMoves(o)
  BY <1>0, <1>1 DEF OrderMoves, finalizeReads, tableVars, Inv, TypesOK
<1>7. DeliveriesMove(o)
  BY <1>0, <1>1, <1>5 DEF DeliveriesMove, DeliveryBecomes
<1>8. /\ finalising(o)' = finalising(o) \cup {d}
      /\ d \notin finalising(o)
      /\ \A e \in finalising(o) : delivery'[e] = delivery[e]
  BY <1>0, <1>1, <1>5 DEF finalising, DeliveryBecomes
<1>u. UNCHANGED product
  BY DEF finalizeReads, tableVars
<1>9. ASSUME o \in Song PROVE SongOK(o)'
  <2>1. SongOK(o)
    BY <1>0, <1>1, <1>9
  <2>2. ~delivery'[d].exists => product[o] = <<>>
    BY <1>5, <1>9 DEF existsByJob
  <2>3. CASE finalising(o) = {} /\ o \notin overlapped
    BY <1>8, <1>u, <2>1, <2>2, <2>3 DEF SongOK
  <2>4. CASE finalising(o) # {} \/ o \in overlapped
    <3>1. o \in overlapped'
      BY <1>0, <1>1, <1>9, <2>4 DEF finalizeReads
    <3>. QED BY <3>1 DEF SongOK
  <2>. QED BY <2>3, <2>4
<1>10. MadeOK(o)'
  <2>1. found => product[o] # <<>>
    BY DEF existsByJob
  <2>2. UNCHANGED job /\ MadeOK(o)
    BY DEF finalizeReads, tableVars
  <2>. QED BY <1>5, <1>8, <1>u, <2>1, <2>2 DEF MadeOK
<1>11. OrderOK(o)'
  BY <1>9, <1>10 DEF OrderOK
<1>. QED BY <1>0, <1>1, <1>6, <1>7, <1>11, OrderMove

(* And then writes on what it has read.                                     *)
LEMMA FinalizeInv ==
  ASSUME Inv, NEW d \in Delivery, finalize(d), UNCHANGED <<sweep, workload>>
  PROVE  Inv'
<1>0. /\ delivery[d] \in DeliveryRecord /\ delivery[d].at = "finalize"
      /\ delivery[d].order \in Order /\ delivery[d].user \in Owner
  BY UnderWay DEF finalize
<1>1. PICK o \in Order : o = delivery[d].order
  BY <1>0
<1> DEFINE row == [user |-> delivery[d].user, title |-> "given", deleted |-> FALSE]
<1>. USE OrderFacts
<1>2. NoDelivery \in DeliveryRecord /\ NoDelivery.at = "idle" /\ NoDelivery.order = None
  BY DEF NoDelivery, DeliveryRecord, Owner
<1>d. delivery' = [delivery EXCEPT ![d] = NoDelivery]
  BY DEF finalize
<1>3. DeliveryBecomes(d, None, "idle")
  BY <1>2, <1>d DEF DeliveryBecomes
<1>4. JobBecomes(o, "completed")
  BY <1>0, <1>1, StatusEffect DEF finalize, mark_succeeded, Status
<1>5. row \in ProductRow /\ product[o] \in Seq(ProductRow)
  BY <1>0, <1>1 DEF ProductRow, Title
<1>6. /\ product' \in [Order -> Seq(ProductRow)]
      /\ \A p \in Order \ {o} : product'[p] = product[p]
      /\ delivery[d].exists => product'[o] = product[o]
      /\ ~delivery[d].exists => product'[o] = Append(product[o], row)
  <2>1. Append(product[o], row) \in Seq(ProductRow)
    BY <1>5, RowAppended
  <2>2. CASE delivery[d].exists
    BY <2>2 DEF finalize
  <2>3. CASE ~delivery[d].exists
    <3>1. product' = [product EXCEPT ![o] = Append(product[o], row)]
      BY <1>0, <1>1, <2>3 DEF finalize, createProduct
    <3>. HIDE DEF row
    <3>. QED BY <1>0, <1>1, <2>1, <2>3, <3>1
  <2>. QED BY <2>2, <2>3
<1>7. product[o] = <<>> => Len(Append(product[o], row)) = 1
  BY <1>5, RowAppended, EmptySeq
<1> HIDE DEF row
<1>8. OrderMoves(o)
  BY <1>0, <1>1, <1>4, <1>6 DEF OrderMoves, finalize, JobBecomes, Inv, TypesOK
<1>9. DeliveriesMove(o)
  BY <1>0, <1>1, <1>3 DEF DeliveriesMove, DeliveryBecomes
<1>10. finalising(o)' = finalising(o) \ {d} /\ d \in finalising(o)
  BY <1>0, <1>1, <1>3 DEF finalising, DeliveryBecomes
<1>u. UNCHANGED <<request, overlapped>>
  BY DEF finalize
<1>11. ASSUME o \in Song PROVE SongOK(o)'
  <2>1. SongOK(o)
    BY <1>0, <1>1, <1>11
  <2>2. ASSUME o \notin overlapped
        PROVE  finalising(o)' = {} /\ Len(product'[o]) <= 1
    BY <1>6, <1>7, <1>10, <2>1, <2>2 DEF SongOK
  <2>. QED BY <1>u, <2>2 DEF SongOK
<1>12. MadeOK(o)'
  <2>1. product'[o] # <<>>
    <3>1. CASE delivery[d].exists
      BY <1>6, <1>10, <3>1 DEF MadeOK
    <3>2. CASE ~delivery[d].exists
      BY <1>5, <1>6, <3>2, RowAppended, EmptySeq
    <3>. QED BY <3>1, <3>2
  <2>. QED BY <2>1 DEF MadeOK
<1>13. OrderOK(o)'
  BY <1>11, <1>12 DEF OrderOK
<1>. QED BY <1>0, <1>1, <1>8, <1>9, <1>13, OrderMove

-----------------------------------------------------------------------------
(* The sign-in renames owners and nothing else.                             *)

(* No status and no row count changes with the owner.                       *)
LEMMA SignInInv ==
  ASSUME Inv, reassign_all, UNCHANGED <<request, delivery, sweep, overlapped>>,
         workload' \in Workload
  PROVE  Inv'
<1>. USE DEF Inv
<1>1. \A x \in Owner : reassigned(x) \in Owner
  BY LibraryAssumption DEF reassigned, Owner
<1>2. consent' \in [Consent -> Owner]
  BY <1>1 DEF reassign_all, TypesOK
<1>3. ASSUME NEW v \in Voice
      PROVE  profile'[v] \in ProfileRow /\ profile'[v].status = profile[v].status
  <2>1. profile[v] \in ProfileRow
    BY DEF TypesOK
  <2>2. profile'[v] = [profile[v] EXCEPT !.user = reassigned(profile[v].user)]
    BY DEF reassign_all
  <2>. QED BY <1>1, <2>1, <2>2 DEF ProfileRow
<1>4. ASSUME NEW j \in Job
      PROVE  /\ job'[j] \in JobRow /\ job'[j].status = job[j].status
             /\ job'[j].error = job[j].error
  <2>1. job[j] \in JobRow
    BY DEF TypesOK
  <2>2. job'[j] = [job[j] EXCEPT !.user = reassigned(job[j].user)]
    BY DEF reassign_all
  <2>. QED BY <1>1, <2>1, <2>2 DEF JobRow
<1>5. ASSUME NEW o \in Order
      PROVE  product'[o] \in Seq(ProductRow) /\ Len(product'[o]) = Len(product[o])
  <2>1. product[o] \in Seq(ProductRow)
    BY DEF TypesOK
  <2>2. Len(product[o]) \in Nat /\ DOMAIN product[o] = 1 .. Len(product[o])
    BY <2>1, LenProperties
  <2>3. product'[o] = [i \in DOMAIN product[o] |->
                         [product[o][i] EXCEPT !.user = reassigned(product[o][i].user)]]
    BY DEF reassign_all
  <2>4. ASSUME NEW i \in DOMAIN product[o]
        PROVE  [product[o][i] EXCEPT !.user = reassigned(product[o][i].user)] \in ProductRow
    <3>1. product[o][i] \in ProductRow
      BY <2>1, <2>2, LenProperties
    <3>. QED BY <1>1, <3>1 DEF ProductRow
  <2>5. product'[o] \in [1 .. Len(product[o]) -> ProductRow]
    BY <2>2, <2>3, <2>4
  <2>. QED BY <2>2, <2>5
<1>6. TypesOK'
  <2>1. profile' \in [Voice -> ProfileRow] /\ job' \in [Job -> JobRow]
    BY <1>3, <1>4 DEF reassign_all
  <2>2. product' \in [Order -> Seq(ProductRow)]
    BY <1>5 DEF reassign_all
  <2>3. merged'
    BY DEF reassign_all
  <2>. QED BY <1>2, <2>1, <2>2, <2>3 DEF TypesOK
<1>7. CloneInv'
  BY <1>3, <1>4 DEF CloneInv, CloneOK, at, Job
<1>8. ASSUME NEW o \in Order PROVE OrderOK(o)'
  <2>1. product'[o] = <<>> <=> product[o] = <<>>
    BY <1>5, EmptySeq, LenProperties DEF TypesOK
  <2>2. job'[o].status = job[o].status
    BY <1>4 DEF Job
  <2>. QED BY <1>5, <2>1, <2>2, OrderKeeps
<1>9. OrderInv'
  BY <1>8 DEF OrderInv, Ordered
<1>. QED BY <1>6, <1>7, <1>9

-----------------------------------------------------------------------------
(* What is left of the bounds stays a record of bounds.                     *)
LEMMA SpendType ==
  ASSUME workload \in Workload,
         NEW f \in {"merges", "visits", "deaths", "starts", "edits", "deletes"}, spend(f)
  PROVE  workload' \in Workload
<1>1. workload.merges \in Nat /\ workload.visits \in Nat /\ workload.deaths \in Nat /\ workload.starts \in Nat
      /\ workload.edits \in Nat /\ workload.deletes \in Nat
  BY DEF Workload
<1>2. CASE f = "merges"
  BY <1>1, <1>2 DEF spend, Workload
<1>3. CASE f = "deaths"
  BY <1>1, <1>3 DEF spend, Workload
<1>4. CASE f = "starts"
  BY <1>1, <1>4 DEF spend, Workload
<1>5. CASE f = "edits"
  BY <1>1, <1>5 DEF spend, Workload
<1>6. CASE f = "deletes"
  BY <1>1, <1>6 DEF spend, Workload
<1>7. CASE f = "visits"
  BY <1>1, <1>7 DEF spend, Workload
<1>. QED BY <1>2, <1>3, <1>4, <1>5, <1>6, <1>7

(* So does what is left to ask for.                                         *)
LEMMA InTurnType ==
  ASSUME workload \in Workload, NEW j, inTurn(j) PROVE workload' \in Workload
BY DEF inTurn, Workload

(* And what is left to deliver.                                             *)
LEMMA EventType ==
  ASSUME workload \in Workload, NEW o, eventOf(o) PROVE workload' \in Workload
BY DEF eventOf, Workload

(* Every step keeps the invariant.                                          *)
LEMMA NextInv == Inv /\ [Next]_vars => Inv'
<1>. SUFFICES ASSUME Inv, [Next]_vars PROVE Inv'
  OBVIOUS
<1>0. workload \in Workload /\ workload.users \subseteq User
  <2>1. workload \in Workload
    BY DEF Inv, TypesOK
  <2>. QED BY <2>1 DEF Workload
<1>1. CASE Ask
  <2>1. PICK u \in workload.users :
          \/ \E c \in Consent : create_consent(u, c) /\ UNCHANGED workload
          \/ \E v \in Voice, c \in Consent : createVoice(v, u, c) /\ inTurn(v)
          \/ \E o \in Order : \E source \in sourcesOf(o, u) : order(o, u, source) /\ inTurn(o)
          \/ \E v \in Voice : rename_voice(u, v) /\ spend("edits")
          \/ \E v \in Voice : delete_voice(u, v) /\ spend("deletes")
          \/ \E s \in Song : rename_track(u, s) /\ spend("edits")
          \/ \E s \in Song : delete_track(u, s) /\ spend("deletes")
          \/ \E m \in Video : rename_video(u, m) /\ spend("edits")
          \/ \E m \in Video : delete_video(u, m) /\ spend("deletes")
    BY <1>1 DEF Ask
  <2>2. Beside /\ u \in User
    BY <1>0, <1>1, <2>1, SpendType, InTurnType DEF Ask, Beside
  <2>. QED BY <2>1, <2>2, ConsentInv, CreateVoiceInv, AskInv, VoiceEditInv, ProductEditInv
              DEF Order
<1>2. CASE Serve
  <2>1. Beside
    BY <1>0, <1>2 DEF Serve, Beside
  <2>. QED BY <1>2, <2>1, CloneStepInv, CreateOrderJobInv DEF Serve
<1>3. CASE Deliver
  <2>1. PICK d \in Delivery :
          \/ DeliveryStep(d) /\ UNCHANGED workload
          \/ \E o \in Order : poll(d, o) /\ spend("visits")
          \/ \E o \in Order : fal_webhook(d, o) /\ eventOf(o)
    BY <1>3 DEF Deliver
  <2>2. workload' \in Workload /\ UNCHANGED sweep
    BY <1>0, <1>3, <2>1, EventType, SpendType DEF Deliver
  <2>. QED BY <2>1, <2>2, DeliveryInv, GenerationFailsInv, FinalizeStartsInv, FinalizeReadsInv,
              FinalizeInv DEF DeliveryStep
<1>4. CASE Fail
  <2>1. CASE startInstance /\ spend("starts")
    <3>1. workload' \in Workload
      BY <1>0, <2>1, SpendType
    <3>. QED BY <1>4, <2>1, <3>1, StartInv DEF Fail
  <2>2. CASE \E v \in Voice : recoverOrphan(v) /\ UNCHANGED workload
    <3>1. Beside
      BY <1>0, <1>4, <2>2 DEF Fail, Beside, recoverOrphan
    <3>. QED BY <2>2, <3>1, RecoverInv
  <2>3. CASE \E j \in Job : die(j) /\ spend("deaths") /\ UNCHANGED sweep
    <3>1. Beside
      BY <1>0, <1>4, <2>3, SpendType DEF Fail, Beside
    <3>. QED BY <2>3, <3>1, DieInv
  <2>. QED BY <1>4, <2>1, <2>2, <2>3 DEF Fail
<1>5. CASE SignIn
  <2>1. workload' \in Workload
    BY <1>0, <1>5, SpendType DEF SignIn
  <2>. QED BY <1>5, <2>1, SignInInv DEF SignIn
<1>6. CASE UNCHANGED vars
  <2>1. TypesOK'
    BY <1>6 DEF vars, tableVars, Inv, TypesOK
  <2>2. OrdersSame /\ VoicesSame
    BY <1>6 DEF vars, tableVars, OrdersSame, VoicesSame
  <2>. QED BY <2>1, <2>2, OrdersKept, VoicesKept DEF Inv
<1>. QED BY <1>1, <1>2, <1>3, <1>4, <1>5, <1>6 DEF Next

(* The invariant holds throughout.                                          *)
LEMMA Invariance == Spec => []Inv
<1>1. Init /\ [][Next]_vars => []Inv
  BY InitInv, NextInv, PTL
<1>. QED BY <1>1, PTL DEF Spec

(* The tables are well typed, and what is completed has been made.          *)
THEOREM LibraryTypeCorrect == Spec => []LibraryTypeOK
<1>1. Inv => LibraryTypeOK
  BY DEF Inv, OrderInv, OrderOK, MadeOK, LibraryTypeOK
<1>. QED BY <1>1, Invariance, PTL

(* A profile and its clone job tell the same, but for a sweep: the two      *)
(* change in one transaction of finalize, and before it neither is final.   *)
THEOREM ProfileAgreesWithJob == Spec => []ProfileTellsJob
<1>1. Inv => ProfileTellsJob
  BY DEF Inv, CloneInv, CloneOK, ProfileTellsJob
<1>. QED BY <1>1, Invariance, PTL

(* What was deleted is not shown again unless two finalisations overlapped: *)
(* otherwise a song never has more than one row.                            *)
THEOREM DeletionLasts == Spec => []DeletedStaysHidden
<1>1. ASSUME Inv PROVE DeletedStaysHidden
  <2>1. SUFFICES ASSUME NEW o \in Song, shown(o) # {}, hidden(o) # {}, o \notin overlapped
                 PROVE  FALSE
    BY DEF DeletedStaysHidden
  <2>2. Len(product[o]) <= 1
    BY <1>1, <2>1, OrderFacts DEF SongOK, Order
  <2>3. product[o] \in Seq(ProductRow)
    BY <1>1 DEF Inv, TypesOK, Order
  <2>4. Len(product[o]) \in Nat /\ DOMAIN product[o] = 1 .. Len(product[o])
    BY <2>3, LenProperties
  <2>5. PICK i \in DOMAIN product[o] : i \in shown(o)
    BY <2>1 DEF shown
  <2>6. PICK k \in DOMAIN product[o] : k \notin shown(o)
    BY <2>1 DEF hidden
  <2>7. i = 1 /\ k = 1
    BY <2>2, <2>4, <2>5, <2>6
  <2>. QED BY <2>5, <2>6, <2>7
<1>. QED BY <1>1, Invariance, PTL

-----------------------------------------------------------------------------
(***************************************************************************)
(* What a cover or a video was made from belongs to the person who ordered *)
(* it.  The request resolves the source, the job is inserted later, and a  *)
(* sign-in may come between: person compares what was read before with the *)
(* rows as they are.                                                       *)
(***************************************************************************)

(* A profile names a consent; the request that clones it knows both, and    *)
(* past consent_check the consent is its user's.                            *)
VoiceOwn(v) ==
  /\ profile[v].status # "absent" =>
       profile[v].consent \in Consent /\ consent[profile[v].consent] # None
  /\ request[v].at \in {"create job", "start", "consent_check", "voice_clone",
                        "post_processing", "finalize"} =>
       /\ request[v].source = profile[v].consent
       /\ person(request[v].user) = person(profile[v].user)
  /\ request[v].at \in {"voice_clone", "post_processing", "finalize"} =>
       person(consent[request[v].source]) = person(request[v].user)
  /\ profile[v].status = "ready" =>
       person(consent[profile[v].consent]) = person(profile[v].user)

(* s is a fit source of o for the user u.                                   *)
Sourced(o, s, u) ==
  s # None =>
    /\ o \in Song => /\ s \in Voice /\ profile[s].status = "ready"
                     /\ person(profile[s].user) = person(u)
    /\ o \in Video => /\ s \in Song
                      /\ \E i \in DOMAIN product[s] : person(product[s][i].user) = person(u)

OrderOwn(o) ==
  /\ Sourced(o, job[o].source, job[o].user)
  /\ at(o, "create job") => Sourced(o, request[o].source, request[o].user)

OwnInv == (\A v \in Voice : VoiceOwn(v)) /\ (\A o \in Order : OrderOwn(o))

(* What no step but the sign-in does to what others rely on.                *)
OwnersStay ==
  /\ merged' = merged
  /\ \A c \in Consent : consent[c] # None => consent'[c] = consent[c]
  /\ \A v \in Voice : profile[v].status = "ready" =>
       profile'[v].status = "ready" /\ profile'[v].user = profile[v].user
  /\ \A s \in Song : \A i \in DOMAIN product[s] :
       i \in DOMAIN product'[s] /\ product'[s][i].user = product[s][i].user

VoiceSame(v) ==
  /\ request'[v] = request[v]
  /\ profile'[v].user = profile[v].user /\ profile'[v].consent = profile[v].consent
  /\ profile'[v].status = profile[v].status

OrderSame(o) ==
  /\ request'[o] = request[o]
  /\ job'[o].user = job[o].user /\ job'[o].source = job[o].source

(* A fit source stays fit.                                                  *)
LEMMA SourcedStays ==
  ASSUME OwnersStay, NEW o, NEW s, NEW u, Sourced(o, s, u)
  PROVE  s # None =>
           /\ o \in Song => /\ s \in Voice /\ profile'[s].status = "ready"
                            /\ person(profile'[s].user) = person(u)
           /\ o \in Video => /\ s \in Song
                             /\ \E i \in DOMAIN product'[s] : person(product'[s][i].user) = person(u)
<1>1. CASE o \in Song /\ s # None
  BY <1>1, LibraryAssumption DEF Sourced, OwnersStay
<1>2. CASE o \in Video /\ s # None
  <2>1. s \in Song /\ \E i \in DOMAIN product[s] : person(product[s][i].user) = person(u)
    BY <1>2 DEF Sourced
  <2>2. \E i \in DOMAIN product'[s] : person(product'[s][i].user) = person(u)
    BY <2>1 DEF OwnersStay
  <2>. QED BY <1>2, <2>1, <2>2, LibraryAssumption
<1>. QED BY <1>1, <1>2

(* The voices and orders a step does not touch.                             *)
LEMMA VoiceKept ==
  ASSUME Inv, OwnersStay, NEW v \in Voice, VoiceOwn(v), VoiceSame(v)
  PROVE  VoiceOwn(v)'
<1>1. profile[v] \in ProfileRow
  BY DEF Inv, TypesOK
<1>2. request[v].at \in {"voice_clone", "post_processing", "finalize"} =>
        profile[v].status = "pending"
  BY DEF Inv, CloneInv, CloneOK
<1>. QED BY <1>1, <1>2 DEF VoiceOwn, VoiceSame, OwnersStay, person, reassigned

LEMMA OrderKept ==
  ASSUME OwnersStay, NEW o \in Order, OrderOwn(o), OrderSame(o)
  PROVE  OrderOwn(o)'
<1>1. merged' = merged
  BY DEF OwnersStay
<1>2. Sourced(o, job[o].source, job[o].user)'
  <2>1. Sourced(o, job[o].source, job[o].user)
    BY DEF OrderOwn
  <2>. QED BY <1>1, <2>1, SourcedStays DEF Sourced, OrderSame, person, reassigned
<1>3. ASSUME request[o].at = "create job"
      PROVE  Sourced(o, request[o].source, request[o].user)'
  <2>1. Sourced(o, request[o].source, request[o].user)
    BY <1>3 DEF OrderOwn, at
  <2>2. request'[o].source = request[o].source /\ request'[o].user = request[o].user
    BY DEF OrderSame
  <2>3. ASSUME NEW s, NEW u, s = request[o].source, u = request[o].user
        PROVE  Sourced(o, s, u)'
    <3>1. Sourced(o, s, u)
      BY <2>1, <2>3
    <3>. QED BY <1>1, <3>1, SourcedStays DEF Sourced, person, reassigned
  <2>. QED BY <2>2, <2>3 DEF Sourced
<1>. QED BY <1>2, <1>3 DEF OrderOwn, OrderSame, at

LEMMA OwnKept ==
  ASSUME Inv, OwnInv, OwnersStay,
         \A v \in Voice : VoiceSame(v) \/ VoiceOwn(v)',
         \A o \in Order : OrderSame(o) \/ OrderOwn(o)'
  PROVE  OwnInv'
<1>1. ASSUME NEW v \in Voice PROVE VoiceOwn(v)'
  BY VoiceKept DEF OwnInv
<1>2. ASSUME NEW o \in Order PROVE OrderOwn(o)'
  BY OrderKept DEF OwnInv
<1>. QED BY <1>1, <1>2 DEF OwnInv

(* The kinds of calls are apart.                                            *)
LEMMA KindsApart ==
  /\ \A v \in Voice : v \in Job /\ v \notin Order
  /\ \A o \in Order : o \in Job /\ o \notin Voice
BY LibraryAssumption DEF Order, Job

(* Steps that change none of it.                                            *)
LEMMA ConsentOwn ==
  ASSUME Inv, OwnInv, NEW u \in User, NEW c \in Consent, create_consent(u, c)
  PROVE  OwnInv'
<1>1. consent \in [Consent -> Owner]
  BY DEF Inv, TypesOK
<1>2. OwnersStay /\ \A v \in Voice : VoiceSame(v)
  BY <1>1 DEF create_consent, OwnersStay, VoiceSame
<1>3. \A o \in Order : OrderSame(o)
  BY DEF create_consent, OrderSame
<1>. QED BY <1>2, <1>3, OwnKept

LEMMA VoiceEditOwn ==
  ASSUME Inv, OwnInv, NEW u, NEW v \in Voice, rename_voice(u, v) \/ delete_voice(u, v)
  PROVE  OwnInv'
<1>1. profile \in [Voice -> ProfileRow]
  BY DEF Inv, TypesOK
<1>2. UNCHANGED <<consent, job, product, merged, request>>
  BY DEF rename_voice, delete_voice
<1>3. \A w \in Voice : VoiceSame(w)
  BY <1>1, <1>2 DEF rename_voice, delete_voice, VoiceSame, ProfileRow
<1>4. OwnersStay
  BY <1>2, <1>3 DEF OwnersStay, VoiceSame
<1>5. \A o \in Order : OrderSame(o)
  BY <1>2 DEF OrderSame
<1>. QED BY <1>3, <1>4, <1>5, OwnKept

(* A renamed or deleted row keeps its owner, and an appended one moves none.*)
LEMMA RowsKept ==
  ASSUME Inv, NEW o \in Order,
         \/ \E i \in DOMAIN product[o] : retitle(o, i) \/ hide(o, i)
         \/ \E u : createProduct(o, u)
         \/ UNCHANGED product
  PROVE  \A s \in Song : \A i \in DOMAIN product[s] :
           i \in DOMAIN product'[s] /\ product'[s][i].user = product[s][i].user
<1>. SUFFICES ASSUME NEW s \in Song, NEW i \in DOMAIN product[s]
              PROVE  i \in DOMAIN product'[s] /\ product'[s][i].user = product[s][i].user
  OBVIOUS
<1>1. /\ product \in [Order -> Seq(ProductRow)] /\ s \in Order
      /\ product[s] \in Seq(ProductRow) /\ Len(product[s]) \in Nat
      /\ DOMAIN product[s] = 1 .. Len(product[s])
      /\ product[s][i] \in ProductRow
  <2>1. product \in [Order -> Seq(ProductRow)] /\ s \in Order
    BY DEF Inv, TypesOK, Order
  <2>. QED BY <2>1, LenProperties, ElementOfSeq
<1>2. CASE s # o \/ UNCHANGED product
  BY <1>1, <1>2 DEF retitle, hide, createProduct
<1>3. CASE s = o /\ \E k \in DOMAIN product[o] : retitle(o, k) \/ hide(o, k)
  <2>1. PICK k \in DOMAIN product[s] : retitle(s, k) \/ hide(s, k)
    BY <1>3
  <2>2. product'[s] = [product[s] EXCEPT ![k].title = "edited"]
        \/ product'[s] = [product[s] EXCEPT ![k].deleted = TRUE]
    BY <1>1, <2>1 DEF retitle, hide
  <2>3. DOMAIN product'[s] = DOMAIN product[s]
    BY <1>1, <2>2
  <2>4. product'[s][i] = product[s][i] \/ product'[s][i] = [product[s][i] EXCEPT !.title = "edited"]
        \/ product'[s][i] = [product[s][i] EXCEPT !.deleted = TRUE]
    BY <1>1, <2>2
  <2>. QED BY <1>1, <2>3, <2>4 DEF ProductRow
<1>4. CASE s = o /\ \E u : createProduct(o, u)
  <2>1. PICK r : product'[s] = Append(product[s], r)
    BY <1>1, <1>4 DEF createProduct
  <2>. QED BY <1>1, <2>1
<1>. QED BY <1>2, <1>3, <1>4

LEMMA ProductEditOwn ==
  ASSUME Inv, OwnInv, NEW u, NEW o \in Order,
         \/ rename_track(u, o) \/ delete_track(u, o)
         \/ rename_video(u, o) \/ delete_video(u, o)
  PROVE  OwnInv'
<1>1. UNCHANGED <<consent, profile, job, merged, request>>
  BY DEF rename_track, delete_track, rename_video, delete_video
<1>2. \E i \in DOMAIN product[o] : retitle(o, i) \/ hide(o, i)
  BY DEF rename_track, delete_track, rename_video, delete_video, shownTo, shown
<1>3. OwnersStay
  BY <1>1, <1>2, RowsKept DEF OwnersStay
<1>4. (\A w \in Voice : VoiceSame(w)) /\ \A i \in Order : OrderSame(i)
  BY <1>1 DEF VoiceSame, OrderSame
<1>. QED BY <1>3, <1>4, OwnKept

(* A delivery changes the status of the job and adds a product.             *)
LEMMA DeliveryOwn ==
  ASSUME Inv, OwnInv, NEW d \in Delivery,
         \/ DeliveryStep(d)
         \/ \E o \in Order : poll(d, o) \/ fal_webhook(d, o)
  PROVE  OwnInv'
<1>1. CASE UNCHANGED <<tableVars, request>>
  <2>1. OwnersStay /\ (\A v \in Voice : VoiceSame(v)) /\ \A o \in Order : OrderSame(o)
    BY <1>1 DEF tableVars, OwnersStay, VoiceSame, OrderSame
  <2>. QED BY <2>1, OwnKept
<1>2. CASE generationFails(d) \/ finalizeStarts(d) \/ finalize(d)
  <2>0. PICK o : o = delivery[d].order
    OBVIOUS
  <2>1. o \in Order /\ job \in [Job -> JobRow] /\ o \in Job
    <3>1. o \in Order
      BY <1>2, <2>0, UnderWay DEF generationFails, finalizeStarts, finalize
    <3>. QED BY <3>1, OrderFacts
  <2>2. /\ UNCHANGED product \/ \E u : createProduct(o, u)
        /\ \/ \E s : set_status(o, s)
           \/ mark_failed(o, "PROVIDER_FAILED")
        /\ UNCHANGED <<consent, profile, merged, request>>
    BY <1>2, <2>0 DEF generationFails, finalizeStarts, finalize, mark_succeeded
  <2>3. \A s \in Song : \A i \in DOMAIN product[s] :
          i \in DOMAIN product'[s] /\ product'[s][i].user = product[s][i].user
    BY <2>1, <2>2, RowsKept
  <2>4. OwnersStay
    BY <2>2, <2>3 DEF OwnersStay
  <2>5. \A i \in Order : OrderSame(i)
    BY <2>1, <2>2, KindsApart DEF set_status, mark_failed, OrderSame, JobRow
  <2>6. \A v \in Voice : VoiceSame(v)
    BY <2>2 DEF VoiceSame
  <2>. QED BY <2>4, <2>5, <2>6, OwnKept
<1>. QED BY <1>1, <1>2 DEF DeliveryStep, finalizeReads, poll, fal_webhook

(* An instance starts, a job is swept, a request dies.                      *)
LEMMA FailOwn ==
  ASSUME Inv, OwnInv,
         \/ startInstance \/ (\E v \in Voice : recoverOrphan(v))
         \/ (\E j \in Job : die(j))
  PROVE  OwnInv'
<1>0. UNCHANGED <<consent, profile, product, merged>>
  BY DEF startInstance, recoverOrphan, die, tableVars
<1>1. OwnersStay
  BY <1>0 DEF OwnersStay
<1>2. CASE \E j \in Job : die(j)
  <2>1. PICK j \in Job : die(j)
    BY <1>2
  <2>2. /\ request \in [Job -> Request] /\ job' = job
        /\ \A i \in Job : i # j => request'[i] = request[i]
        /\ request'[j].at = "dead"
    BY <2>1 DEF die, goto, tableVars, Inv, TypesOK, Request
  <2>3. ASSUME NEW v \in Voice PROVE VoiceSame(v) \/ VoiceOwn(v)'
    <3>1. VoiceOwn(v) /\ v \in Job
      BY KindsApart DEF OwnInv
    <3>. QED BY <1>0, <2>2, <3>1 DEF VoiceSame, VoiceOwn, person, reassigned
  <2>4. ASSUME NEW o \in Order PROVE OrderSame(o) \/ OrderOwn(o)'
    <3>1. OrderOwn(o) /\ o \in Job
      BY KindsApart DEF OwnInv
    <3>. QED BY <1>0, <2>2, <3>1 DEF OrderSame, OrderOwn, Sourced, at, person, reassigned
  <2>. QED BY <1>1, <2>3, <2>4, OwnKept
<1>3. CASE startInstance \/ (\E v \in Voice : recoverOrphan(v))
  <2>1. request' = request
    BY <1>3 DEF startInstance, recoverOrphan
  <2>2. job' = job \/ \E j \in Job, e \in Error : mark_failed(j, e)
    BY <1>3, KindsApart DEF startInstance, recoverOrphan, tableVars, Error
  <2>3. ASSUME NEW o \in Order PROVE OrderSame(o)
    <3>1. o \in Job /\ job \in [Job -> JobRow] /\ job[o] \in JobRow
      BY KindsApart DEF Inv, TypesOK
    <3>2. CASE job' = job
      BY <2>1, <3>2 DEF OrderSame
    <3>3. ASSUME NEW j \in Job, NEW e \in Error, mark_failed(j, e) PROVE OrderSame(o)
      <4>1. CASE j # o
        BY <2>1, <3>1, <3>3, <4>1 DEF OrderSame, mark_failed
      <4>2. CASE j = o
        <5>1. job'[o] = [job[o] EXCEPT !.status = "failed", !.error = e]
          BY <3>1, <3>3, <4>2 DEF mark_failed
        <5>. QED BY <2>1, <3>1, <5>1 DEF OrderSame, JobRow
      <4>. QED BY <4>1, <4>2
    <3>. QED BY <2>2, <3>2, <3>3
  <2>4. \A v \in Voice : VoiceSame(v)
    BY <1>0, <2>1 DEF VoiceSame
  <2>. QED BY <1>1, <2>3, <2>4, OwnKept
<1>. QED BY <1>2, <1>3

(* A request moves on with what it came with.                               *)
LEMMA GotoKeeps ==
  ASSUME Inv, NEW j \in Job, NEW s \in Statement, goto(j, s)
  PROVE  /\ request'[j].at = s /\ request'[j].user = request[j].user
         /\ request'[j].source = request[j].source
         /\ \A i \in Job : i # j => request'[i] = request[i]
<1>1. request \in [Job -> Request] /\ request[j] \in Request
  BY DEF Inv, TypesOK
<1>2. request'[j] = [request[j] EXCEPT !.at = s]
  BY <1>1 DEF goto
<1>3. \A i \in Job : i # j => request'[i] = request[i]
  BY <1>1 DEF goto
<1>. QED BY <1>1, <1>2, <1>3 DEF Request

(* A request starts with what it was asked for.                             *)
LEMMA AsksKeeps ==
  ASSUME Inv, NEW j \in Job, NEW u, NEW x, NEW s, asks(j, u, x, s)
  PROVE  /\ request'[j].at = s /\ request'[j].user = u /\ request'[j].source = x
         /\ \A i \in Job : i # j => request'[i] = request[i]
<1> DEFINE r == [at |-> s, user |-> u, source |-> x]
<1>1. request \in [Job -> Request]
  BY DEF Inv, TypesOK
<1>2. r.at = s /\ r.user = u /\ r.source = x
  OBVIOUS
<1>3. request' = [request EXCEPT ![j] = r]
  BY DEF asks
<1> HIDE DEF r
<1>. QED BY <1>1, <1>2, <1>3

(* A step of one clone request.                                             *)
VoiceSteps(v) ==
  /\ UNCHANGED <<consent, product, merged>>
  /\ \A j \in Job : j # v => request'[j] = request[j] /\ job'[j] = job[j]
  /\ \A w \in Voice : w # v => profile'[w] = profile[w]
  /\ profile[v].status # "ready"

LEMMA VoiceStepOwn ==
  ASSUME Inv, OwnInv, NEW v \in Voice, VoiceSteps(v), VoiceOwn(v)'
  PROVE  OwnInv'
<1>1. OwnersStay
  BY DEF VoiceSteps, OwnersStay
<1>2. ASSUME NEW w \in Voice PROVE VoiceSame(w) \/ VoiceOwn(w)'
  BY KindsApart DEF VoiceSteps, VoiceSame
<1>3. ASSUME NEW o \in Order PROVE OrderSame(o)
  BY KindsApart DEF VoiceSteps, OrderSame
<1>. QED BY <1>1, <1>2, <1>3, OwnKept

(* A new profile names the consent its request came with.                   *)
LEMMA CreateVoiceOwn ==
  ASSUME Inv, OwnInv, NEW v \in Voice, NEW u \in User, NEW c \in Consent, createVoice(v, u, c)
  PROVE  OwnInv'
<1>1. /\ request \in [Job -> Request] /\ profile \in [Voice -> ProfileRow] /\ v \in Job
      /\ profile[v].status = "absent"
  BY KindsApart DEF Inv, TypesOK, CloneInv, CloneOK, createVoice
<1>2. /\ request'[v].at = "create job" /\ request'[v].user = u /\ request'[v].source = c
      /\ \A j \in Job : j # v => request'[j] = request[j]
  BY <1>1, AsksKeeps DEF createVoice
<1>3. /\ profile'[v] = [user |-> u, consent |-> c, status |-> "pending", title |-> "given",
                        deleted |-> FALSE]
      /\ \A w \in Voice : w # v => profile'[w] = profile[w]
      /\ consent[c] # None
  BY <1>1 DEF createVoice, create_profile, NoProfile
<1>4. UNCHANGED <<consent, job, product, merged>>
  BY DEF createVoice
<1>5. VoiceSteps(v)
  BY <1>1, <1>2, <1>3, <1>4 DEF VoiceSteps
<1>6. VoiceOwn(v)'
  <2>1. profile'[v].user = u /\ profile'[v].consent = c /\ profile'[v].status = "pending"
    BY <1>3
  <2>. QED BY <1>2, <1>3, <1>4, <2>1 DEF VoiceOwn, person, reassigned
<1>. QED BY <1>5, <1>6, VoiceStepOwn

(* A clone request that moves on without its profile: past consent_check    *)
(* only with the consent of its user.                                       *)
LEMMA CloneMovesOwn ==
  ASSUME Inv, OwnInv, NEW v \in Voice, NEW s \in Statement, goto(v, s),
         UNCHANGED <<consent, profile, product, merged>>,
         \A j \in Job : j # v => job'[j] = job[j],
         profile[v].status # "ready",
         s \in {"start", "consent_check"} => request[v].at \in {"create job", "start"},
         s = "voice_clone" => request[v].at = "consent_check" /\ consentHolds(v),
         s \in {"post_processing", "finalize"} =>
           request[v].at \in {"voice_clone", "post_processing"},
         s # "create job"
  PROVE  OwnInv'
<1>1. /\ request'[v].at = s /\ request'[v].user = request[v].user
      /\ request'[v].source = request[v].source
      /\ \A j \in Job : j # v => request'[j] = request[j]
  BY KindsApart, GotoKeeps
<1>2. VoiceSteps(v)
  BY <1>1 DEF VoiceSteps
<1>3. VoiceOwn(v)
  BY DEF OwnInv
<1>4. VoiceOwn(v)'
  <2>1. person(consent[request[v].source]) = person(request[v].user)
        \/ s \notin {"voice_clone", "post_processing", "finalize"}
    BY <1>3 DEF VoiceOwn, consentHolds
  <2>. QED BY <1>1, <1>3, <2>1 DEF VoiceOwn, person, reassigned
<1>. QED BY <1>2, <1>4, VoiceStepOwn

(* The clone request's steps: the profile turns ready only past the check.  *)
LEMMA CloneOwn ==
  ASSUME Inv, OwnInv, NEW v \in Voice, CloneStep(v) PROVE OwnInv'
<1>0. /\ v \in Job /\ VoiceOwn(v) /\ CloneOK(v) /\ request[v] \in Request
      /\ job \in [Job -> JobRow] /\ profile \in [Voice -> ProfileRow]
      /\ profile[v] \in ProfileRow
  BY KindsApart DEF Inv, TypesOK, OwnInv, CloneInv
<1>1. CASE createVoiceJob(v)
  <2>1. PICK s \in {"start", "refused"} : goto(v, s)
    BY <1>1 DEF createVoiceJob
  <2>2. \A j \in Job : j # v => job'[j] = job[j]
    BY <1>0, <1>1 DEF createVoiceJob, createJobRow
  <2>3. /\ UNCHANGED <<consent, profile, product, merged>> /\ profile[v].status # "ready"
        /\ request[v].at = "create job"
    BY <1>0, <1>1 DEF createVoiceJob, CloneOK, at
  <2>. QED BY <2>1, <2>2, <2>3, CloneMovesOwn DEF Statement
<1>2. CASE startClone(v)
  <2>1. \A j \in Job : j # v => job'[j] = job[j]
    BY <1>0, <1>2 DEF startClone, set_status
  <2>2. /\ goto(v, "consent_check") /\ UNCHANGED <<consent, profile, product, merged>>
        /\ profile[v].status # "ready" /\ request[v].at = "start"
    BY <1>0, <1>2 DEF startClone, CloneOK, at
  <2>. QED BY <2>1, <2>2, CloneMovesOwn DEF Statement
<1>3. CASE consentCheck(v)
  <2>1. PICK s \in {"voice_clone", "fail profile"} :
          goto(v, s) /\ (s = "voice_clone" => consentHolds(v))
    BY <1>3 DEF consentCheck
  <2>2. /\ UNCHANGED <<consent, profile, product, merged, job>>
        /\ profile[v].status # "ready" /\ request[v].at = "consent_check"
    BY <1>0, <1>3 DEF consentCheck, CloneOK, at, tableVars
  <2>. QED BY <2>1, <2>2, CloneMovesOwn DEF Statement
<1>4. CASE cloneVoice(v)
  <2>1. PICK s \in {"post_processing", "fail profile"} : goto(v, s)
    BY <1>4 DEF cloneVoice
  <2>2. /\ UNCHANGED <<consent, profile, product, merged, job>>
        /\ profile[v].status # "ready" /\ request[v].at = "voice_clone"
    BY <1>0, <1>4 DEF cloneVoice, CloneOK, at, tableVars
  <2>. QED BY <2>1, <2>2, CloneMovesOwn DEF Statement
<1>5. CASE failJob(v)
  <2>1. \A j \in Job : j # v => job'[j] = job[j]
    BY <1>0, <1>5 DEF failJob, mark_failed
  <2>2. /\ goto(v, "answered") /\ UNCHANGED <<consent, profile, product, merged>>
        /\ profile[v].status # "ready"
    BY <1>0, <1>5 DEF failJob, CloneOK, at
  <2>. QED BY <2>1, <2>2, CloneMovesOwn DEF Statement
<1>6. CASE postProcess(v)
  <2>1. \A j \in Job : j # v => job'[j] = job[j]
    BY <1>0, <1>6 DEF postProcess, set_status
  <2>2. /\ goto(v, "finalize") /\ UNCHANGED <<consent, profile, product, merged>>
        /\ profile[v].status # "ready" /\ request[v].at = "post_processing"
    BY <1>0, <1>6 DEF postProcess, CloneOK, at
  <2>. QED BY <2>1, <2>2, CloneMovesOwn DEF Statement
<1>7. CASE failProfile(v) \/ finalizeVoice(v)
  <2>1. PICK s \in {"fail job", "answered"}, p \in {"failed", "ready"} :
          /\ goto(v, s) /\ update_profile(v, p)
          /\ p = "ready" => request[v].at = "finalize"
    BY <1>7 DEF failProfile, finalizeVoice, at
  <2>2. /\ UNCHANGED <<consent, product, merged>> /\ profile[v].status = "pending"
        /\ \A j \in Job : j # v => job'[j] = job[j]
    BY <1>0, <1>7 DEF failProfile, finalizeVoice, mark_succeeded, set_status, CloneOK, at
  <2>3. /\ request'[v].at = s /\ \A j \in Job : j # v => request'[j] = request[j]
    BY <1>0, <2>1, GotoKeeps DEF Statement
  <2>4. profile'[v] = [profile[v] EXCEPT !.status = p]
        /\ \A w \in Voice : w # v => profile'[w] = profile[w]
    BY <1>0, <2>1 DEF update_profile
  <2>5. profile'[v].user = profile[v].user /\ profile'[v].consent = profile[v].consent
        /\ profile'[v].status = p
    BY <1>0, <2>4 DEF ProfileRow
  <2>6. VoiceSteps(v)
    BY <2>2, <2>3, <2>4 DEF VoiceSteps
  <2>7. p = "ready" => person(consent[profile[v].consent]) = person(profile[v].user)
    BY <1>0, <2>1 DEF VoiceOwn
  <2>8. profile[v].consent \in Consent /\ consent[profile[v].consent] # None
    BY <1>0, <2>2 DEF VoiceOwn
  <2>9. VoiceOwn(v)'
    BY <2>1, <2>2, <2>3, <2>5, <2>7, <2>8 DEF VoiceOwn, person, reassigned
  <2>. QED BY <2>6, <2>9, VoiceStepOwn
<1>. QED BY <1>1, <1>2, <1>3, <1>4, <1>5, <1>6, <1>7 DEF CloneStep

(* An order resolves its source among the rows of its user.                 *)
LEMMA AskOwn ==
  ASSUME Inv, OwnInv, NEW u \in User, NEW o \in Order, NEW s \in sourcesOf(o, u),
         order(o, u, s)
  PROVE  OwnInv'
<1>0. o \in Job /\ request \in [Job -> Request]
  BY KindsApart DEF Inv, TypesOK
<1>1. /\ request'[o].source = s /\ request'[o].user = u
      /\ \A j \in Job : j # o => request'[j] = request[j]
      /\ UNCHANGED <<consent, profile, job, product, merged>>
  BY <1>0, AsksKeeps DEF order, tableVars
<1>2. Sourced(o, s, u)
  BY LibraryAssumption
     DEF Sourced, sourcesOf, voicesFor, tracksFor, ownsVoice, shownTo, shown, Order
<1>3. OrderOwn(o)
  BY DEF OwnInv
<1>4. Sourced(o, s, u)'
  BY <1>1, <1>2 DEF Sourced, person, reassigned
<1>5. Sourced(o, job[o].source, job[o].user)'
  BY <1>1, <1>3 DEF OrderOwn, Sourced, person, reassigned
<1>6. OrderOwn(o)'
  <2>1. Sourced(o, request[o].source, request[o].user)'
    BY <1>1, <1>4 DEF Sourced
  <2>. QED BY <1>5, <2>1 DEF OrderOwn
<1>7. OwnersStay
  BY <1>1 DEF OwnersStay
<1>8. ASSUME NEW v \in Voice PROVE VoiceSame(v)
  BY <1>1, KindsApart DEF VoiceSame
<1>9. ASSUME NEW p \in Order PROVE OrderSame(p) \/ OrderOwn(p)'
  BY <1>1, <1>6, KindsApart DEF OrderSame
<1>. QED BY <1>7, <1>8, <1>9, OwnKept

(* The job is inserted with what the request resolved.                      *)
LEMMA CreateOrderJobOwn ==
  ASSUME Inv, OwnInv, NEW o \in Order, createOrderJob(o) PROVE OwnInv'
<1>0. o \in Job /\ job \in [Job -> JobRow]
  BY KindsApart DEF Inv, TypesOK
<1>1. PICK s \in {"answered", "refused"} : goto(o, s)
  BY DEF createOrderJob
<1>2. /\ request'[o].at = s /\ \A j \in Job : j # o => request'[j] = request[j]
  BY <1>0, <1>1, GotoKeeps DEF Statement
<1>3. UNCHANGED <<consent, profile, product, merged>> /\ request[o].at = "create job"
  BY DEF createOrderJob, at
<1>4. \A j \in Job : j # o => job'[j] = job[j]
  BY <1>0 DEF createOrderJob, createJobRow
<1>5. PICK x, u : /\ job'[o].source = x /\ job'[o].user = u
                  /\ \/ x = request[o].source /\ u = request[o].user
                     \/ x = job[o].source /\ u = job[o].user
  <2>1. CASE createJobRow(o, request[o].user, request[o].source, "running")
    BY <1>0, <2>1 DEF createJobRow, NoJob
  <2>2. CASE job' = job
    BY <2>2
  <2>. QED BY <2>1, <2>2 DEF createOrderJob
<1>6. Sourced(o, x, u)
  BY <1>3, <1>5 DEF OwnInv, OrderOwn, at
<1>7. Sourced(o, x, u)'
  BY <1>3, <1>6 DEF Sourced, person, reassigned
<1>8. OrderOwn(o)'
  BY <1>2, <1>5, <1>7 DEF OrderOwn, at, Sourced
<1>9. OwnersStay
  BY <1>3 DEF OwnersStay
<1>10. ASSUME NEW v \in Voice PROVE VoiceSame(v)
  BY <1>2, <1>3, KindsApart DEF VoiceSame
<1>11. ASSUME NEW p \in Order PROVE OrderSame(p) \/ OrderOwn(p)'
  BY <1>2, <1>4, <1>8, KindsApart DEF OrderSame
<1>. QED BY <1>9, <1>10, <1>11, OwnKept

(* One person before a sign-in is one user row after it.                    *)
LEMMA SamePerson ==
  ASSUME NEW x, NEW y, person(x) = person(y)
  PROVE  reassigned(x) = reassigned(y)
BY LibraryAssumption DEF person, reassigned

LEMMA ReassignedTwice == ASSUME NEW x PROVE reassigned(reassigned(x)) = reassigned(x)
BY LibraryAssumption DEF reassigned

(* A sign-in moves the rows of all tables, and the requests that read them  *)
(* before keep their user: both are the same person.                        *)
LEMMA SignInOwn ==
  ASSUME Inv, OwnInv, reassign_all, UNCHANGED request PROVE OwnInv'
<1>0. /\ profile \in [Voice -> ProfileRow] /\ job \in [Job -> JobRow]
      /\ product \in [Order -> Seq(ProductRow)]
  BY DEF Inv, TypesOK
<1>1. /\ merged' /\ request' = request
      /\ \A c \in Consent : consent'[c] = reassigned(consent[c])
  BY DEF reassign_all
<1>2. ASSUME NEW v \in Voice
      PROVE  /\ profile'[v].user = reassigned(profile[v].user)
             /\ profile'[v].consent = profile[v].consent
             /\ profile'[v].status = profile[v].status
  <2>1. profile[v] \in ProfileRow
    BY <1>0
  <2>2. profile'[v] = [profile[v] EXCEPT !.user = reassigned(profile[v].user)]
    BY DEF reassign_all
  <2>. QED BY <2>1, <2>2 DEF ProfileRow
<1>3. ASSUME NEW o \in Order
      PROVE  job'[o].user = reassigned(job[o].user) /\ job'[o].source = job[o].source
  <2>1. o \in Job /\ job[o] \in JobRow
    BY <1>0, KindsApart
  <2>2. job'[o] = [job[o] EXCEPT !.user = reassigned(job[o].user)]
    BY <2>1 DEF reassign_all
  <2>. QED BY <2>1, <2>2 DEF JobRow
<1>4. ASSUME NEW s \in Song, NEW i \in DOMAIN product[s]
      PROVE  i \in DOMAIN product'[s] /\ product'[s][i].user = reassigned(product[s][i].user)
  <2>1. s \in Order /\ product[s][i] \in ProductRow
    BY <1>0, ElementOfSeq, LenProperties DEF Order
  <2>2. product'[s] = [k \in DOMAIN product[s] |->
                         [product[s][k] EXCEPT !.user = reassigned(product[s][k].user)]]
    BY <2>1 DEF reassign_all
  <2>. QED BY <2>1, <2>2 DEF ProductRow
<1>5. ASSUME NEW x PROVE merged' => reassigned(x)' = reassigned(x)
  BY DEF reassigned
<1>6. ASSUME NEW o \in Order, NEW s, NEW u, NEW w, Sourced(o, s, u), w \in {u, reassigned(u)}
      PROVE  Sourced(o, s, w)'
  <2>0. reassigned(w) = reassigned(u)
    BY <1>6, ReassignedTwice
  <2>1. ASSUME o \in Song, s # None
        PROVE  s \in Voice /\ profile'[s].status = "ready"
               /\ reassigned(profile'[s].user) = reassigned(w)
    <3>1. s \in Voice /\ profile[s].status = "ready" /\ person(profile[s].user) = person(u)
      BY <1>6, <2>1 DEF Sourced
    <3>2. reassigned(profile[s].user) = reassigned(u)
      BY <3>1, SamePerson
    <3>. QED BY <1>2, <2>0, <3>1, <3>2, ReassignedTwice
  <2>2. ASSUME o \in Video, s # None
        PROVE  /\ s \in Song
               /\ \E i \in DOMAIN product'[s] : reassigned(product'[s][i].user) = reassigned(w)
    <3>1. s \in Song
      BY <1>6, <2>2 DEF Sourced
    <3>2. PICK i \in DOMAIN product[s] : person(product[s][i].user) = person(u)
      BY <1>6, <2>2 DEF Sourced
    <3>3. reassigned(product[s][i].user) = reassigned(u)
      BY <3>2, SamePerson
    <3>. QED BY <1>4, <2>0, <3>1, <3>2, <3>3, ReassignedTwice
  <2>. QED BY <1>1, <2>1, <2>2 DEF Sourced, person, reassigned
<1>7. ASSUME NEW v \in Voice PROVE VoiceOwn(v)'
  <2>0. VoiceOwn(v)
    BY DEF OwnInv
  <2>1. profile'[v].status # "absent" =>
          profile'[v].consent \in Consent /\ consent'[profile'[v].consent] # None
    BY <1>1, <1>2, <2>0, LibraryAssumption DEF VoiceOwn, reassigned
  <2>2. request'[v].at \in {"create job", "start", "consent_check", "voice_clone",
                            "post_processing", "finalize"} =>
          /\ request'[v].source = profile'[v].consent
          /\ reassigned(request'[v].user) = reassigned(profile'[v].user)
    <3>1. request[v].at \in {"create job", "start", "consent_check", "voice_clone",
                             "post_processing", "finalize"} =>
            /\ request[v].source = profile[v].consent
            /\ reassigned(request[v].user) = reassigned(profile[v].user)
      BY <2>0, SamePerson DEF VoiceOwn
    <3>. QED BY <1>1, <1>2, <3>1, ReassignedTwice
  <2>3. request'[v].at \in {"voice_clone", "post_processing", "finalize"} =>
          reassigned(consent'[request'[v].source]) = reassigned(request'[v].user)
    <3>1. request[v].at \in {"voice_clone", "post_processing", "finalize"} =>
            /\ request[v].source \in Consent
            /\ person(consent[request[v].source]) = person(request[v].user)
      <4>1. request[v].at \in {"voice_clone", "post_processing", "finalize"} =>
              profile[v].status = "pending"
        BY DEF Inv, CloneInv, CloneOK
      <4>. QED BY <2>0, <4>1 DEF VoiceOwn
    <3>. QED BY <1>1, <3>1, SamePerson, ReassignedTwice
  <2>4. profile'[v].status = "ready" =>
          reassigned(consent'[profile'[v].consent]) = reassigned(profile'[v].user)
    <3>1. profile[v].status = "ready" =>
            /\ profile[v].consent \in Consent
            /\ reassigned(consent[profile[v].consent]) = reassigned(profile[v].user)
      BY <2>0, SamePerson DEF VoiceOwn
    <3>. QED BY <1>1, <1>2, <3>1, ReassignedTwice
  <2>. QED BY <1>1, <2>1, <2>2, <2>3, <2>4 DEF VoiceOwn, person, reassigned
<1>8. ASSUME NEW o \in Order PROVE OrderOwn(o)'
  <2>0. OrderOwn(o)
    BY DEF OwnInv
  <2>1. ASSUME NEW s, NEW u, NEW w, s = job[o].source, u = job[o].user, w = reassigned(u)
        PROVE  Sourced(o, s, w)'
    BY <1>6, <2>0, <2>1 DEF OrderOwn
  <2>2. ASSUME NEW s, NEW u, s = request[o].source, u = request[o].user,
               request[o].at = "create job"
        PROVE  Sourced(o, s, u)'
    BY <1>6, <2>0, <2>2 DEF OrderOwn, at
  <2>3. Sourced(o, job[o].source, job[o].user)'
    BY <1>3, <2>1 DEF Sourced
  <2>4. request'[o].at = "create job" => Sourced(o, request[o].source, request[o].user)'
    <3>1. ASSUME NEW s, NEW u, request[o].at = "create job",
                 s = request[o].source, u = request[o].user
          PROVE  /\ request'[o].source = s /\ request'[o].user = u
                 /\ Sourced(o, s, u)'
      BY <1>1, <2>2, <3>1
    <3>2. request'[o].at = request[o].at
      BY <1>1
    <3>. QED BY <3>1, <3>2 DEF Sourced
  <2>. QED BY <2>3, <2>4 DEF OrderOwn, at
<1>. QED BY <1>7, <1>8 DEF OwnInv

(* Nothing is made from anything at first.                                  *)
LEMMA InitOwn == Init => OwnInv
<1>. SUFFICES ASSUME Init PROVE OwnInv
  OBVIOUS
<1>1. ASSUME NEW v \in Voice
      PROVE  /\ profile[v].status = "absent" /\ request[v].at = "idle"
    BY <1>1, KindsApart DEF Init, TableInit, Idle, NoProfile
<1>2. ASSUME NEW o \in Order
      PROVE  job[o].source = None /\ request[o].at = "idle"
    BY <1>2, KindsApart DEF Init, TableInit, Idle, NoJob
<1>. QED BY <1>1, <1>2 DEF OwnInv, VoiceOwn, OrderOwn, Sourced, at

LEMMA NextOwn == Inv /\ OwnInv /\ [Next]_vars => OwnInv'
<1>. SUFFICES ASSUME Inv, OwnInv, [Next]_vars PROVE OwnInv'
  OBVIOUS
<1>1. CASE Ask
  <2>0. workload.users \subseteq User
    BY DEF Inv, TypesOK, Workload
  <2>1. PICK u \in User :
          \/ \E c \in Consent : create_consent(u, c)
          \/ \E v \in Voice, c \in Consent : createVoice(v, u, c)
          \/ \E o \in Order : \E source \in sourcesOf(o, u) : order(o, u, source)
          \/ \E v \in Voice : rename_voice(u, v) \/ delete_voice(u, v)
          \/ \E s \in Song : rename_track(u, s) \/ delete_track(u, s)
          \/ \E m \in Video : rename_video(u, m) \/ delete_video(u, m)
    BY <1>1, <2>0 DEF Ask
  <2>. QED BY <2>1, ConsentOwn, CreateVoiceOwn, AskOwn, VoiceEditOwn, ProductEditOwn DEF Order
<1>2. CASE Serve
  BY <1>2, CloneOwn, CreateOrderJobOwn DEF Serve
<1>3. CASE Deliver
  BY <1>3, DeliveryOwn DEF Deliver
<1>4. CASE Fail
  <2>1. \/ startInstance \/ (\E v \in Voice : recoverOrphan(v))
        \/ (\E j \in Job : die(j))
    BY <1>4 DEF Fail
  <2>. QED BY <2>1, FailOwn
<1>5. CASE SignIn
  BY <1>5, SignInOwn DEF SignIn
<1>6. CASE UNCHANGED vars
  <2>1. OwnersStay /\ (\A v \in Voice : VoiceSame(v)) /\ \A o \in Order : OrderSame(o)
    BY <1>6 DEF vars, tableVars, OwnersStay, VoiceSame, OrderSame
  <2>. QED BY <2>1, OwnKept
<1>. QED BY <1>1, <1>2, <1>3, <1>4, <1>5, <1>6 DEF Next

(* A cover is of a voice, and a video of a track, of the one who ordered    *)
(* it, and the voice was cloned with that person's consent.                 *)
THEOREM SourcesBelongToBuyer == Spec => []SourcesAreOwn
<1>1. ASSUME Inv, OwnInv PROVE SourcesAreOwn
  <2>1. ASSUME NEW o \in Order, NEW s, NEW u, s = job[o].source, u = job[o].user, s # None
        PROVE  /\ o \in Song => /\ profile[s].status = "ready"
                                /\ person(profile[s].user) = person(u)
                                /\ person(consent[profile[s].consent]) = person(u)
               /\ o \in Video => \E i \in DOMAIN product[s] :
                                   person(product[s][i].user) = person(u)
    <3>1. Sourced(o, s, u)
      BY <1>1, <2>1 DEF OwnInv, OrderOwn
    <3>2. \A v \in Voice : profile[v].status = "ready" =>
            person(consent[profile[v].consent]) = person(profile[v].user)
      BY <1>1 DEF OwnInv, VoiceOwn
    <3>. QED BY <2>1, <3>1, <3>2 DEF Sourced
  <2>. QED BY <2>1 DEF SourcesAreOwn
<1>2. Init /\ [][Next]_vars => []OwnInv
  <2>1. Init => Inv /\ OwnInv
    BY InitInv, InitOwn
  <2>2. (Inv /\ OwnInv) /\ [Next]_vars => (Inv /\ OwnInv)'
    BY NextInv, NextOwn
  <2>. QED BY <2>1, <2>2, PTL
<1>3. Spec => []OwnInv
  BY <1>2, PTL DEF Spec
<1>. QED BY <1>1, <1>3, Invariance, PTL
=============================================================================
