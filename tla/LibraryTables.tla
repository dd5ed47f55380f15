--------------------------- MODULE LibraryTables ---------------------------
(***************************************************************************)
(* What a user owns: voice consents and profiles, the jobs that make        *)
(* voices, songs and videos, and the tracks and video assets they made.     *)
(* Rows are never removed: DELETE sets deleted_at.                          *)
(*                                                                         *)
(* An operator is one transaction.  A job has the identity of the request  *)
(* that inserts it, and a voice profile that of its clone job.             *)
(***************************************************************************)
EXTENDS Naturals, Sequences, FiniteSets

CONSTANTS
  User,     \* users rows
  Guest,    \* the one that signs in
  Account,  \* the permanent account of its Apple ID
  Consent,  \* POST /voices/consent calls
  Voice,    \* POST /voices calls
  Song,     \* POST /songs and /covers calls
  Video,    \* POST /videos calls
  None

ASSUME LibraryAssumption ==
  /\ {Guest, Account} \subseteq User /\ Guest # Account
  /\ Voice \cap Song = {} /\ Voice \cap Video = {} /\ Song \cap Video = {}
  /\ None \notin User \cup Consent \cup Voice \cup Song \cup Video

Order == Song \cup Video
Job == Voice \cup Order

VARIABLES
  consent,   \* voice_consents: whose, or None
  profile,   \* voice_profiles
  job,       \* jobs; source is what input_payload was resolved from
  product,   \* tracks and video assets of a job, oldest first
  merged     \* sessions of the guest have moved to the account

tableVars == <<consent, profile, job, product, merged>>

NoProfile == [user |-> None, consent |-> None, status |-> "absent",
              title |-> "given", deleted |-> FALSE]
NoJob == [user |-> None, source |-> None, status |-> "absent", error |-> None]

TableInit ==
  /\ consent = [c \in Consent |-> None]
  /\ profile = [v \in Voice |-> NoProfile]
  /\ job = [j \in Job |-> NoJob]
  /\ product = [o \in Order |-> <<>>]
  /\ merged = FALSE

-----------------------------------------------------------------------------
(* VoiceRepository                                                          *)

(* consent_id is a foreign key.                                             *)
create_profile(v, u, c) ==
  /\ consent[c] # None
  /\ profile' = [profile EXCEPT ![v] = [NoProfile EXCEPT !.user = u, !.consent = c,
                                                         !.status = "pending"]]

get_active_profile(v) == profile[v].status # "absent" /\ ~profile[v].deleted

(* By primary key: a deleted profile changes too.                           *)
update_profile(v, status) == profile' = [profile EXCEPT ![v].status = status]

(* JobsRepository                                                           *)
createJobRow(j, u, source, status) ==
  job' = [job EXCEPT ![j] = [NoJob EXCEPT !.user = u, !.source = source, !.status = status]]

set_status(j, status) == job' = [job EXCEPT ![j].status = status]
mark_succeeded(j) == set_status(j, "completed")
mark_failed(j, code) == job' = [job EXCEPT ![j].status = "failed", ![j].error = code]

(* Voice jobs wait for no provider request; orders are modelled from the    *)
(* moment they have one.                                                    *)
list_orphans == {v \in Voice : job[v].status \in {"queued", "running"}}

active(j) == job[j].status \in {"created", "queued", "running", "post_processing"}

-----------------------------------------------------------------------------
(* Tracks and video assets                                                  *)

shown(o) == {i \in DOMAIN product[o] : ~product[o][i].deleted}
hidden(o) == DOMAIN product[o] \ shown(o)
shownTo(o, u) == {i \in shown(o) : product[o][i].user = u}

(* Mutant: the finaliser asks as the user would.                            *)
shownByJob(o) == shown(o) # {}

(* get_by_job_id, include_deleted=True                                      *)
existsByJob(o) == product[o] # <<>>

createProduct(o, u) ==
  product' = [product EXCEPT ![o] = Append(@, [user |-> u, title |-> "given", deleted |-> FALSE])]

retitle(o, i) == product' = [product EXCEPT ![o][i].title = "edited"]
hide(o, i) == product' = [product EXCEPT ![o][i].deleted = TRUE]

-----------------------------------------------------------------------------
(* reassign_all: an UPDATE per table, committed with the session's.  They   *)
(* are taken as one step; CoinWallet rows and the statements' interleaving  *)
(* are in Accounts.                                                         *)
reassigned(u) == IF u = Guest THEN Account ELSE u

reassign_all ==
  /\ consent' = [c \in Consent |-> reassigned(consent[c])]
  /\ profile' = [v \in Voice |-> [profile[v] EXCEPT !.user = reassigned(@)]]
  /\ job' = [j \in Job |-> [job[j] EXCEPT !.user = reassigned(@)]]
  /\ product' = [o \in Order |->
       [i \in DOMAIN product[o] |-> [product[o][i] EXCEPT !.user = reassigned(@)]]]
  /\ merged' = TRUE

(* The person behind a user row.                                            *)
person(u) == IF merged THEN reassigned(u) ELSE u
=============================================================================
