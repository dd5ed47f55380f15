----------------------------- MODULE Identities -----------------------------
(***************************************************************************)
(* AuthService: guest sessions of a device, Sign in with Apple, logout,    *)
(* over the tables users, auth_identities and sessions.                    *)
(*                                                                         *)
(* A request is one PostgreSQL transaction at READ COMMITTED, kept in      *)
(* call[h] until it commits.  Row ids and tokens are random in the code;   *)
(* here the next unused one is taken, and how many there are is a bound.   *)
(***************************************************************************)
EXTENDS Integers, FiniteSets, FiniteSetsExt

CONSTANTS
  User,      \* bound: user rows, 1..n
  Token,     \* bound: session rows, 1..n
  Device,    \* device ids clients name
  AppleId,   \* the sub of an Apple identity token
  Op,        \* idempotency keys of lyrics calls
  Job,       \* jobs
  Purchase,  \* things that grant coins
  Handler,   \* requests that may be served at one time
  None

ASSUME IdentityAssumption ==
  /\ User \subseteq Nat \ {0} /\ IsFiniteSet(User)
  /\ Token \subseteq Nat \ {0} /\ IsFiniteSet(Token)
  /\ None \notin Device \cup AppleId \cup Op \cup Job \cup Purchase

NoUser == 0

VARIABLES
  kind,      \* users: no row, is_guest, or permanent
  guestOf,   \* auth_identities (guest, device id)
  appleOf,   \* auth_identities (apple, sub)
  session,   \* sessions row of a token: user_id, revoked_at; its device is history
  call       \* requests being served

identityVars == <<kind, guestOf, appleOf, session>>

NoSession == [user |-> NoUser, device |-> None, revoked |-> FALSE]

(* target, moved, entries and copied are a merge's: where to, and the       *)
(* session rows, ledger rows and wallet it has written.                     *)
Idle == [at |-> "idle", user |-> NoUser, about |-> None, target |-> NoUser,
         moved |-> {}, entries |-> {}, copied |-> None]

at(h, statement) == call[h].at = statement
next(h, statement) == call' = [call EXCEPT ![h].at = statement]
ends(h) == call' = [call EXCEPT ![h] = Idle]
begin(h, statement, u, x) ==
  call' = [call EXCEPT ![h] = [Idle EXCEPT !.at = statement, !.user = u, !.about = x]]

IdentityInit ==
  /\ kind = [u \in User |-> "absent"]
  /\ guestOf = [d \in Device |-> NoUser]
  /\ appleOf = [s \in AppleId |-> NoUser]
  /\ session = [t \in Token |-> NoSession]
  /\ call = [h \in Handler |-> Idle]

isGuest(u) == u # NoUser /\ kind[u] = "guest"

(* users.create: a row no other open transaction is about to insert.        *)
freshUser ==
  LET free == {u \in User : kind[u] = "absent" /\ \A g \in Handler : call[g].user # u}
  IN IF free = {} THEN NoUser ELSE Min(free)
newUser(u) == u = freshUser /\ u # NoUser

(* sessions.create                                                          *)
openSession(rows, u, d) ==
  LET unused == {t \in Token : session[t] = NoSession} IN
  /\ unused # {}
  /\ session' = [rows EXCEPT ![Min(unused)] = [user |-> u, device |-> d, revoked |-> FALSE]]

-----------------------------------------------------------------------------
(* create_guest: the device's guest again; a new guest beside an account    *)
(* that was promoted, or for a client that names no device; else a new      *)
(* guest who has yet to claim the device.                                   *)
create_guest(h, d) ==
  /\ at(h, "idle")
  /\ \/ /\ d # None /\ isGuest(guestOf[d])
        /\ openSession(session, guestOf[d], d)
        /\ UNCHANGED <<kind, call>>
     \/ /\ d # None => guestOf[d] # NoUser /\ ~ isGuest(guestOf[d])
        /\ \E u \in User :
             /\ newUser(u)
             /\ kind' = [kind EXCEPT ![u] = "guest"]
             /\ openSession(session, u, d)
        /\ UNCHANGED call
     \/ /\ d # None /\ guestOf[d] = NoUser
        /\ \E u \in User : newUser(u) /\ begin(h, "claim", u, d)
        /\ UNCHANGED <<kind, session>>
  /\ UNCHANGED <<guestOf, appleOf>>

(* add_identity_if_absent waits for another open insert of the device, so   *)
(* the winner's insert and commit are one step.                             *)
claim(h) ==
  LET u == call[h].user  d == call[h].about IN
  /\ at(h, "claim")
  /\ \/ /\ guestOf[d] = NoUser
        /\ guestOf' = [guestOf EXCEPT ![d] = u]
        /\ kind' = [kind EXCEPT ![u] = "guest"]
        /\ openSession(session, u, d)
        /\ ends(h)
     \/ /\ guestOf[d] # NoUser
        /\ next(h, "reread")
        /\ UNCHANGED <<guestOf, kind, session>>
  /\ UNCHANGED appleOf

(* Mutant: who lost the race keeps the user made for it.                    *)
keepOwnUser(h) ==
  LET u == call[h].user  d == call[h].about IN
  /\ at(h, "reread")
  /\ kind' = [kind EXCEPT ![u] = "guest"]
  /\ openSession(session, u, d)
  /\ ends(h)
  /\ UNCHANGED <<guestOf, appleOf>>

(* Mutant: who lost the race inserts again, and does not read the winner.   *)
claimAgain(h) ==
  /\ at(h, "reread")
  /\ next(h, "claim")
  /\ UNCHANGED identityVars

(* The loser takes the winner, unless that one was promoted already; its    *)
(* own row stays, without an identity.                                      *)
reread(h) ==
  LET u == call[h].user  d == call[h].about IN
  /\ at(h, "reread")
  /\ kind' = [kind EXCEPT ![u] = "guest"]
  /\ openSession(session, IF isGuest(guestOf[d]) THEN guestOf[d] ELSE u, d)
  /\ ends(h)
  /\ UNCHANGED <<guestOf, appleOf>>

-----------------------------------------------------------------------------
(* resolve: the user of a token, read in a transaction of its own; no token *)
(* or a revoked one: no user.                                               *)
userOf(t) == IF t = None \/ session[t].revoked THEN NoUser ELSE session[t].user

sign_in_with_apple(h, t, s) ==
  /\ at(h, "idle")
  /\ begin(h, "findApple", userOf(t), s)
  /\ UNCHANGED identityVars

(* The account of the Apple ID, if it has one, takes whoever is signed in:  *)
(* is_guest of the current user is not looked at.                           *)
findApple(h) ==
  LET u == call[h].user  s == call[h].about  owner == appleOf[s] IN
  /\ at(h, "findApple")
  /\ \/ /\ owner # NoUser /\ u \notin {NoUser, owner}
        /\ call' = [call EXCEPT ![h].at = "moveSessions", ![h].target = owner]
        /\ UNCHANGED <<kind, session>>
     \/ /\ owner # NoUser /\ u \in {NoUser, owner}
        /\ openSession(session, owner, None)
        /\ ends(h)
        /\ UNCHANGED kind
     \/ /\ owner = NoUser /\ isGuest(u)
        /\ next(h, "promote")
        /\ UNCHANGED <<kind, session>>
     \/ /\ owner = NoUser /\ ~ isGuest(u)
        /\ \E v \in User :
             newUser(v) /\ call' = [call EXCEPT ![h].at = "promote", ![h].user = v]
        /\ UNCHANGED <<kind, session>>
  /\ UNCHANGED <<guestOf, appleOf>>

(* Mutant: the unique identity of the Apple ID is overwritten.              *)
promoteAgain(h) ==
  LET u == call[h].user  s == call[h].about IN
  /\ at(h, "promote")
  /\ kind' = [kind EXCEPT ![u] = "apple"]
  /\ appleOf' = [appleOf EXCEPT ![s] = u]
  /\ openSession(session, u, None)
  /\ ends(h)
  /\ UNCHANGED guestOf

(* set_apple_account and add_identity: a sub that somebody else took in the *)
(* meantime violates the unique constraint, the caller gets a 500.          *)
promote(h) ==
  LET u == call[h].user  s == call[h].about IN
  /\ at(h, "promote")
  /\ \/ /\ appleOf[s] = NoUser
        /\ kind' = [kind EXCEPT ![u] = "apple"]
        /\ appleOf' = [appleOf EXCEPT ![s] = u]
        /\ openSession(session, u, None)
     \/ /\ appleOf[s] # NoUser
        /\ UNCHANGED <<kind, appleOf, session>>
  /\ ends(h)
  /\ UNCHANGED guestOf

(* revoke: sets revoked_at where it is not set, and waits for the commit of *)
(* a merge that has written the same row.                                   *)
logout(h, t) ==
  /\ at(h, "idle")
  /\ session[t].user # NoUser /\ ~ session[t].revoked
  /\ \A g \in Handler : t \notin call[g].moved
  /\ session' = [session EXCEPT ![t].revoked = TRUE]
  /\ UNCHANGED <<kind, guestOf, appleOf, call>>
=============================================================================
