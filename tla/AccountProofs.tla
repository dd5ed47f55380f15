--------------------------- MODULE AccountProofs ----------------------------
(***************************************************************************)
(* Who is who, for any number of users, devices, Apple IDs, sessions and   *)
(* requests at one time: a device's guest sessions are of one guest, an    *)
(* Apple ID keeps its account, a logout lasts, and a lyrics call that      *)
(* failed is refunded.                                                     *)
(*                                                                         *)
(* None of it is inductive alone.  IdentityInv adds what a request was     *)
(* begun with and still holds when it goes on (Fits), that the user a      *)
(* request has not committed yet is nobody else's (UnbornAlone), and that  *)
(* a session row a merge has moved stays its user's until the merge        *)
(* commits (MovedHeld): the row locks of PostgreSQL.                       *)
(***************************************************************************)
EXTENDS Accounts, FiniteSetTheorems, WellFoundedInduction, TLAPS

identitySteps == {"findApple", "promote"}
guestSteps == {"claim", "reread"}
mergeSteps == {"moveSessions", "moveRows", "copyWallet", "dropWallet"}
lyricsSteps == {"charge", "llm", "refund"}
jobSteps == {"reserve", "insertJob", "settle"}

Request ==
  [at : {"idle"} \cup identitySteps \cup guestSteps \cup mergeSteps \cup moneySteps,
   user : User \cup {NoUser}, about : Device \cup AppleId \cup Op \cup Job \cup {None},
   target : User \cup {NoUser}, moved : SUBSET Token,
   entries : SUBSET (EntryKey \cup ({"job"} \X Job)), copied : Wallet \cup {None}]

exists(u) == u \in User /\ kind[u] # "absent"

(* What a request was begun with, and what it has found since.              *)
Fits(r) ==
  /\ r.at \in guestSteps => r.about \in Device /\ r.user \in User /\ ~ exists(r.user)
  /\ r.at = "reread" => guestOf[r.about] # NoUser
  /\ r.at \in identitySteps \cup mergeSteps => r.about \in AppleId
  /\ r.at = "findApple" => r.user = NoUser \/ exists(r.user)
  /\ r.at = "promote" => r.user \in User
  /\ r.at \in mergeSteps => /\ exists(r.user) /\ r.target \in User \ {r.user}
                            /\ kind[r.target] = "apple"
  /\ r.at \notin mergeSteps => /\ r.target = NoUser /\ r.copied = None
                               /\ r.moved = {} /\ r.entries = {}
  /\ r.at \in moneySteps => exists(r.user)
  /\ r.at \in lyricsSteps => r.about \in Op
  /\ r.at \in jobSteps => r.about \in Job
  /\ r.at = "idle" => r = Idle

SessionRow == [user : User \cup {NoUser}, device : Device \cup {None}, revoked : BOOLEAN]

IdentityTypes ==
  /\ jobUser \in [Job -> User \cup {NoUser}]
  /\ kind \in [User -> {"absent", "guest", "apple"}]
  /\ guestOf \in [Device -> User \cup {NoUser}]
  /\ appleOf \in [AppleId -> User \cup {NoUser}]
  /\ session \in [Token -> SessionRow]
  /\ call \in [Handler -> Request]

UsersExist ==
  /\ \A t \in Token : session[t].user # NoUser =>
       exists(session[t].user) /\ session[t].device \in Device \cup {None}
  /\ \A d \in Device : guestOf[d] # NoUser => exists(guestOf[d])
  /\ \A s \in AppleId : appleOf[s] # NoUser => kind[appleOf[s]] = "apple"
  /\ \A j \in Job : jobUser[j] # NoUser => exists(jobUser[j])

RequestsFit == \A h \in Handler : Fits(call[h])

UnbornAlone ==
  \A h, g \in Handler : g # h /\ call[h].user # NoUser /\ call[g].user = call[h].user
     => exists(call[h].user)

MovedHeld ==
  /\ \A h \in Handler : \A t \in call[h].moved : session[t].user = call[h].user
  /\ \A h, g \in Handler : g # h => call[h].moved \cap call[g].moved = {}

IdentityInv == IdentityTypes /\ UsersExist /\ RequestsFit /\ UnbornAlone /\ MovedHeld /\ SameGuest

-----------------------------------------------------------------------------
(* The least element of a set of row ids is one of them.                    *)
LEMMA LeastIsMember ==
  ASSUME NEW S \in SUBSET Nat, S # {}
  PROVE  Min(S) \in S
<1> DEFINE less == {pair \in Nat \X Nat : pair[1] < pair[2]}
<1>1. IsWellFoundedOn(less, Nat)
  BY NatLessThanWellFounded DEF OpToRel
<1>2. \E x \in S : \A y \in S : <<y, x>> \notin less
  <2> HIDE DEF less
  <2> QED
    BY <1>1, WFMin
<1>3. PICK x \in S : \A y \in S : <<y, x>> \notin less
  BY <1>2
<1>4. ASSUME NEW y \in S PROVE x <= y
  <2>1. <<y, x>> \in Nat \X Nat /\ <<y, x>>[1] = y /\ <<y, x>>[2] = x
    OBVIOUS
  <2>2. ~ (y < x)
    BY <1>3, <1>4, <2>1
  <2> QED
    BY <2>2
<1> QED
  BY <1>3, <1>4 DEF Min

(* A user made for a request has no row and no other request; the least      *)
(* session row not in use is one.                                           *)
LEMMA NewUserUnborn ==
  ASSUME NEW u, newUser(u)
  PROVE  u \in User /\ u # NoUser /\ kind[u] = "absent" /\ \A g \in Handler : call[g].user # u
<1> DEFINE free == {v \in User : kind[v] = "absent" /\ \A g \in Handler : call[g].user # v}
<1>1. free # {} /\ u = Min(free)
  BY DEF newUser, freshUser, NoUser
<1>2. free \in SUBSET Nat
  BY IdentityAssumption
<1>3. u \in free
  BY <1>1, <1>2, LeastIsMember
<1> QED
  BY <1>3, IdentityAssumption DEF NoUser

LEMMA SessionOpened ==
  ASSUME NEW base, NEW u, NEW d, openSession(base, u, d)
  PROVE  \E t \in Token : /\ session[t] = NoSession
                           /\ session' = [base EXCEPT ![t] = [user |-> u, device |-> d,
                                                              revoked |-> FALSE]]
<1> DEFINE unused == {t \in Token : session[t] = NoSession}
           row == [user |-> u, device |-> d, revoked |-> FALSE]
<1>1. unused # {} /\ session' = [base EXCEPT ![Min(unused)] = row]
  BY DEF openSession
<1>2. unused \in SUBSET Nat
  BY IdentityAssumption
<1>3. Min(unused) \in unused
  BY <1>1, <1>2, LeastIsMember
<1> QED
  BY <1>1, <1>3

-----------------------------------------------------------------------------
(* No request is a request, and fits anywhere.                              *)
LEMMA IdleFits == Idle \in Request /\ Fits(Idle) /\ Fits(Idle)' /\ Idle.user = NoUser /\ Idle.moved = {}
BY DEF Idle, Request, Fits, identitySteps, guestSteps, mergeSteps, moneySteps, lyricsSteps,
       jobSteps, NoUser

LEMMA NobodyIsNoRow == NoUser \notin User /\ ~ exists(NoUser)
BY IdentityAssumption DEF NoUser, exists

(* A step that writes no identity row, and takes a request on.              *)
LEMMA RequestGoesOn ==
  ASSUME IdentityInv, UNCHANGED identityVars, NEW h \in Handler, NEW r \in Request,
         call' = [call EXCEPT ![h] = r], Fits(r),
         jobUser' \in [Job -> User \cup {NoUser}],
         \A j \in Job : jobUser'[j] = jobUser[j] \/ exists(jobUser'[j]),
         \/ r.user \in {NoUser, call[h].user} \/ exists(r.user)
         \/ \A g \in Handler : call[g].user # r.user,
         \A t \in r.moved : session[t].user = r.user,
         \A g \in Handler \ {h} : r.moved \cap call[g].moved = {}
  PROVE  IdentityInv'
<1> USE DEF identityVars
<1>1. \A g \in Handler : call'[g] = IF g = h THEN r ELSE call[g]
  BY DEF IdentityInv, IdentityTypes
<1>2. IdentityTypes'
  BY DEF IdentityInv, IdentityTypes
<1>3. UsersExist'
  BY DEF IdentityInv, UsersExist, exists
<1>4. RequestsFit'
  <2> SUFFICES ASSUME NEW g \in Handler PROVE Fits(call[g])'
    BY DEF RequestsFit
  <2>1. Fits(call[g])
    BY DEF IdentityInv, RequestsFit
  <2>2. CASE g = h
    BY <1>1, <2>2 DEF Fits, exists
  <2>3. CASE g # h
    BY <1>1, <2>1, <2>3 DEF Fits, exists
  <2> QED
    BY <2>2, <2>3
<1>5. UnbornAlone'
  <2> SUFFICES ASSUME NEW f \in Handler, NEW g \in Handler, g # f, call'[f].user # NoUser,
                      call'[g].user = call'[f].user
               PROVE  exists(call'[f].user)
    BY DEF UnbornAlone, exists
  <2>1. \A a, b \in Handler : a # b /\ call[a].user # NoUser /\ call[b].user = call[a].user
           => exists(call[a].user)
    BY DEF IdentityInv, UnbornAlone
  <2>2. CASE f = h
    BY <1>1, <2>1, <2>2
  <2>3. CASE g = h
    BY <1>1, <2>1, <2>3
  <2>4. CASE f # h /\ g # h
    BY <1>1, <2>1, <2>4
  <2> QED
    BY <2>2, <2>3, <2>4
<1>6. MovedHeld'
  BY <1>1 DEF IdentityInv, MovedHeld
<1>7. SameGuest'
  BY DEF IdentityInv, SameGuest, isGuest
<1> QED
  BY <1>2, <1>3, <1>4, <1>5, <1>6, <1>7 DEF IdentityInv

(* A request dies, or is answered with no session.                          *)
LEMMA RequestEnds ==
  ASSUME IdentityInv, UNCHANGED <<identityVars, jobUser>>, NEW h \in Handler, ends(h)
  PROVE  IdentityInv'
BY IdleFits, RequestGoesOn DEF ends, IdentityInv, IdentityTypes

(* The one request that signs in gives a user a session: v the user, x the   *)
(* user whose row it makes or promotes, d the device the client named.      *)
LEMMA SignedIn ==
  ASSUME IdentityInv, UNCHANGED jobUser,
         NEW x \in User, NEW y \in {"guest", "apple"}, kind' = [kind EXCEPT ![x] = y],
         y = "guest" => kind[x] # "apple",
         \A g \in Handler : call'[g] \in {call[g], Idle}, call' \in [Handler -> Request],
         ~ exists(x) => \A g \in Handler : call'[g].user # x,
         NEW v \in User, v = x \/ exists(v), NEW d \in Device \cup {None},
         openSession(session, v, d),
         \/ guestOf' = guestOf
         \/ \E e \in Device : guestOf[e] = NoUser /\ guestOf' = [guestOf EXCEPT ![e] = x],
         \/ appleOf' = appleOf
         \/ /\ y = "apple"
            /\ \E s \in AppleId : appleOf' = [appleOf EXCEPT ![s] = x],
         d # None /\ kind'[v] = "guest" =>
           v = guestOf'[d] \/ (guestOf'[d] # NoUser /\ kind'[guestOf'[d]] # "guest")
  PROVE  IdentityInv'
<1> DEFINE lives(u) == u \in User /\ kind'[u] # "absent"
<1>1. /\ kind \in [User -> {"absent", "guest", "apple"}]
      /\ guestOf \in [Device -> User \cup {NoUser}]
      /\ appleOf \in [AppleId -> User \cup {NoUser}]
      /\ session \in [Token -> SessionRow]
      /\ call \in [Handler -> Request]
  BY DEF IdentityInv, IdentityTypes
<1>2. \A u \in User : /\ kind'[u] = IF u = x THEN y ELSE kind[u]
                      /\ exists(u) => lives(u)
                      /\ lives(u) => exists(u) \/ u = x
                      /\ kind[u] = "apple" => kind'[u] = "apple"
  BY <1>1 DEF exists
<1>3. lives(x) /\ lives(v)
  BY <1>1, <1>2 DEF exists
<1> DEFINE row == [user |-> v, device |-> d, revoked |-> FALSE]
<1>4. PICK n \in Token : session[n] = NoSession /\ session' = [session EXCEPT ![n] = row]
  BY SessionOpened
<1>5. \A t \in Token : session'[t] = IF t = n THEN row ELSE session[t]
  BY <1>1, <1>4
<1>6. session[n].user = NoUser
  BY <1>4 DEF NoSession
<1>7. /\ guestOf' \in [Device -> User \cup {NoUser}]
      /\ \A e \in Device : guestOf'[e] = guestOf[e] \/ (guestOf[e] = NoUser /\ guestOf'[e] = x)
  BY <1>1
<1>8. /\ appleOf' \in [AppleId -> User \cup {NoUser}]
      /\ \A s \in AppleId : appleOf'[s] = appleOf[s] \/ (appleOf'[s] = x /\ y = "apple")
  BY <1>1
<1>9. IdentityTypes'
  <2>1. kind' \in [User -> {"absent", "guest", "apple"}]
    BY <1>1
  <2>2. session' \in [Token -> SessionRow]
    BY <1>1, <1>3, <1>4 DEF SessionRow
  <2> QED
    BY <1>7, <1>8, <2>1, <2>2 DEF IdentityInv, IdentityTypes
<1>10. UsersExist'
  <2>1. \A t \in Token : session'[t].user # NoUser =>
          lives(session'[t].user) /\ session'[t].device \in Device \cup {None}
    <3> SUFFICES ASSUME NEW t \in Token, session'[t].user # NoUser
                 PROVE  lives(session'[t].user) /\ session'[t].device \in Device \cup {None}
      OBVIOUS
    <3>1. CASE t = n
      BY <1>3, <1>5, <3>1
    <3>2. CASE t # n
      <4>1. exists(session[t].user) /\ session[t].device \in Device \cup {None}
        BY <1>5, <3>2 DEF IdentityInv, UsersExist
      <4> QED
        BY <1>2, <1>5, <3>2, <4>1 DEF exists
    <3> QED
      BY <3>1, <3>2
  <2>2. \A e \in Device : guestOf'[e] # NoUser => lives(guestOf'[e])
    BY <1>2, <1>3, <1>7 DEF IdentityInv, UsersExist, exists
  <2>3. \A s \in AppleId : appleOf'[s] # NoUser => kind'[appleOf'[s]] = "apple"
    BY <1>1, <1>2, <1>8 DEF IdentityInv, UsersExist
  <2>4. \A j \in Job : jobUser'[j] # NoUser => lives(jobUser'[j])
    BY <1>2 DEF IdentityInv, UsersExist, exists
  <2> QED
    BY <2>1, <2>2, <2>3, <2>4 DEF UsersExist, exists
<1>11. RequestsFit'
  <2> SUFFICES ASSUME NEW g \in Handler PROVE Fits(call[g])'
    BY DEF RequestsFit
  <2>1. CASE call'[g] = Idle
    BY <2>1, IdleFits
  <2>2. CASE call'[g] = call[g]
    <3>1. Fits(call[g])
      BY DEF IdentityInv, RequestsFit
    <3>2. call[g].at \in guestSteps => ~ lives(call[g].user)
      BY <1>2, <2>2, <3>1 DEF Fits, exists
    <3>3. call[g].at = "reread" => guestOf'[call[g].about] # NoUser
      BY <1>7, <3>1, NobodyIsNoRow DEF Fits, guestSteps
    <3>4. exists(call[g].user) => lives(call[g].user)
      BY <1>2 DEF exists
    <3>5. call[g].at \in mergeSteps => kind'[call[g].target] = "apple"
      BY <1>2, <3>1 DEF Fits
    <3> QED
      BY <2>2, <3>1, <3>2, <3>3, <3>4, <3>5 DEF Fits, exists
  <2> QED
    BY <2>1, <2>2
<1>12. UnbornAlone'
  <2> SUFFICES ASSUME NEW f \in Handler, NEW g \in Handler, g # f, call'[f].user # NoUser,
                      call'[g].user = call'[f].user
               PROVE  lives(call'[f].user)
    BY DEF UnbornAlone, exists
  <2>1. call'[f] = call[f] /\ call'[g] = call[g]
    BY IdleFits
  <2>2. exists(call[f].user)
    BY <2>1 DEF IdentityInv, UnbornAlone
  <2> QED
    BY <1>2, <2>1, <2>2 DEF exists
<1>13. MovedHeld'
  <2>1. \A g \in Handler : call'[g].moved \subseteq call[g].moved
    BY IdleFits
  <2>2. \A g \in Handler : \A t \in call'[g].moved : session'[t].user = call'[g].user
    <3> SUFFICES ASSUME NEW g \in Handler, NEW t \in call'[g].moved
                 PROVE  session'[t].user = call'[g].user
      OBVIOUS
    <3>1. call'[g] = call[g]
      BY IdleFits
    <3>2. session[t].user = call[g].user /\ t \in Token
      BY <1>1, <3>1 DEF IdentityInv, MovedHeld, Request
    <3>3. call[g].user # NoUser
      BY <3>1, NobodyIsNoRow DEF IdentityInv, RequestsFit, Fits, exists
    <3> QED
      BY <1>5, <1>6, <3>1, <3>2, <3>3
  <2>3. \A f, g \in Handler : g # f => call'[f].moved \cap call'[g].moved = {}
    BY <2>1 DEF IdentityInv, MovedHeld
  <2> QED
    BY <2>2, <2>3 DEF MovedHeld
<1>14. SameGuest'
  <2> SUFFICES ASSUME NEW t \in Token, session'[t].device # None,
                      session'[t].user # NoUser, kind'[session'[t].user] = "guest"
               PROVE  LET e == session'[t].device IN
                      \/ session'[t].user = guestOf'[e]
                      \/ guestOf'[e] # NoUser /\ kind'[guestOf'[e]] # "guest"
    BY DEF SameGuest, isGuest
  <2>1. CASE t = n
    BY <1>5, <2>1
  <2>2. CASE t # n
    <3> DEFINE e == session[t].device
    <3>1. session'[t] = session[t] /\ exists(session[t].user) /\ e \in Device
      BY <1>5, <2>2 DEF IdentityInv, UsersExist
    <3>2. kind[session[t].user] = "guest"
      BY <1>1, <1>2, <3>1 DEF exists
    <3>3. \/ session[t].user = guestOf[e]
          \/ guestOf[e] # NoUser /\ kind[guestOf[e]] # "guest"
      BY <3>1, <3>2 DEF IdentityInv, SameGuest, isGuest
    <3>4. guestOf[e] # NoUser => guestOf'[e] = guestOf[e] /\ exists(guestOf[e])
      BY <1>7, <3>1 DEF IdentityInv, UsersExist
    <3>5. guestOf[e] # NoUser /\ kind[guestOf[e]] # "guest" => kind[guestOf[e]] = "apple"
      BY <1>1, <3>4 DEF exists
    <3> QED
      BY <1>2, <3>1, <3>2, <3>3, <3>4, <3>5 DEF exists
  <2> QED
    BY <2>1, <2>2
<1> QED
  BY <1>9, <1>10, <1>11, <1>12, <1>13, <1>14 DEF IdentityInv

-----------------------------------------------------------------------------
(* Records that are requests.                                               *)
LEMMA RequestBegun ==
  ASSUME NEW x \in {"claim", "findApple", "charge", "reserve", "settle"},
         NEW u \in User \cup {NoUser}, NEW a \in Device \cup AppleId \cup Op \cup Job,
         NEW h \in Handler, begin(h, x, u, a)
  PROVE  \E r \in Request :
           /\ call' = [call EXCEPT ![h] = r]
           /\ r.at = x /\ r.user = u /\ r.about = a
           /\ r.target = NoUser /\ r.moved = {} /\ r.entries = {} /\ r.copied = None
<1> DEFINE r == [Idle EXCEPT !.at = x, !.user = u, !.about = a]
<1>1. Idle \in Request
  BY IdleFits
<1>2. r \in Request
  BY <1>1 DEF Request, identitySteps, guestSteps, moneySteps
<1>3. /\ r.at = x /\ r.user = u /\ r.about = a
      /\ r.target = NoUser /\ r.moved = {} /\ r.entries = {} /\ r.copied = None
  BY DEF Idle
<1>4. call' = [call EXCEPT ![h] = r]
  BY Zenon DEF begin
<1> QED
  BY <1>2, <1>3, <1>4

LEMMA RequestNext ==
  ASSUME IdentityInv, NEW h \in Handler, NEW x \in {"reread", "promote", "llm", "refund", "insertJob"},
         next(h, x)
  PROVE  \E r \in Request :
           /\ call' = [call EXCEPT ![h] = r]
           /\ r.at = x /\ r.user = call[h].user /\ r.about = call[h].about
           /\ r.target = call[h].target /\ r.moved = call[h].moved
           /\ r.entries = call[h].entries /\ r.copied = call[h].copied
<1> DEFINE r == [call[h] EXCEPT !.at = x]
<1>1. call[h] \in Request
  BY DEF IdentityInv, IdentityTypes
<1>2. r \in Request
  BY <1>1 DEF Request, identitySteps, guestSteps, moneySteps
<1>3. /\ r.at = x /\ r.user = call[h].user /\ r.about = call[h].about
      /\ r.target = call[h].target /\ r.moved = call[h].moved
      /\ r.entries = call[h].entries /\ r.copied = call[h].copied
  BY <1>1 DEF Request
<1>4. call' = [call EXCEPT ![h] = r]
  BY DEF IdentityInv, IdentityTypes, next
<1> QED
  BY <1>2, <1>3, <1>4

-----------------------------------------------------------------------------
(* The requests of clients, one lemma for each.                             *)
LEMMA GuestCreated ==
  ASSUME IdentityInv, NEW h \in Handler, NEW d \in Device \cup {None}, create_guest(h, d),
         UNCHANGED jobUser
  PROVE  IdentityInv'
<1> USE DEF IdentityInv, IdentityTypes
<1>1. UNCHANGED <<guestOf, appleOf>>
  BY DEF create_guest
<1>2. CASE /\ d # None /\ isGuest(guestOf[d])
           /\ openSession(session, guestOf[d], d)
           /\ UNCHANGED <<kind, call>>
  <2>1. guestOf[d] \in User /\ kind[guestOf[d]] = "guest" /\ exists(guestOf[d])
    BY <1>2 DEF isGuest, exists
  <2>2. kind' = [kind EXCEPT ![guestOf[d]] = "guest"]
    BY <1>2, <2>1
  <2> HIDE DEF IdentityInv, IdentityTypes
  <2>3. call' \in [Handler -> Request] /\ \A g \in Handler : call'[g] \in {call[g], Idle}
    BY <1>2 DEF IdentityInv, IdentityTypes
  <2> QED
    BY <1>1, <1>2, <2>1, <2>2, <2>3, SignedIn
<1>3. CASE /\ d # None => guestOf[d] # NoUser /\ ~ isGuest(guestOf[d])
           /\ \E u \in User :
                /\ newUser(u)
                /\ kind' = [kind EXCEPT ![u] = "guest"]
                /\ openSession(session, u, d)
           /\ UNCHANGED call
  <2>1. PICK u \in User : /\ newUser(u)
                          /\ kind' = [kind EXCEPT ![u] = "guest"]
                          /\ openSession(session, u, d)
    BY <1>3
  <2>2. kind[u] = "absent" /\ \A g \in Handler : call[g].user # u
    BY <2>1, NewUserUnborn
  <2>3. call' \in [Handler -> Request] /\ \A g \in Handler : call'[g] \in {call[g], Idle}
    BY <1>3
  <2>4. d # None => guestOf'[d] # NoUser /\ kind'[guestOf'[d]] # "guest"
    <3>1. d # None => guestOf[d] # NoUser /\ kind[guestOf[d]] # "guest" /\ guestOf[d] # u
      BY <1>3, <2>2 DEF isGuest, UsersExist, exists
    <3> QED
      BY <1>1, <2>1, <3>1
  <2> HIDE DEF IdentityInv, IdentityTypes
  <2> QED
    BY <1>1, <1>3, <2>1, <2>2, <2>3, <2>4, SignedIn
<1>4. CASE /\ d # None /\ guestOf[d] = NoUser
           /\ \E u \in User : newUser(u) /\ begin(h, "claim", u, d)
           /\ UNCHANGED <<kind, session>>
  <2>1. PICK u \in User : newUser(u) /\ begin(h, "claim", u, d)
    BY <1>4
  <2>2. kind[u] = "absent" /\ \A g \in Handler : call[g].user # u
    BY <2>1, NewUserUnborn
  <2>3. PICK r \in Request :
          /\ call' = [call EXCEPT ![h] = r]
          /\ r.at = "claim" /\ r.user = u /\ r.about = d
          /\ r.target = NoUser /\ r.moved = {} /\ r.entries = {} /\ r.copied = None
    BY <1>4, <2>1, RequestBegun
  <2>4. Fits(r)
    BY <1>4, <2>2, <2>3 DEF Fits, exists, identitySteps, guestSteps, mergeSteps, moneySteps,
                            lyricsSteps, jobSteps
  <2>5. UNCHANGED identityVars
    BY <1>1, <1>4 DEF identityVars
  <2>6. jobUser' \in [Job -> User \cup {NoUser}]
    OBVIOUS
  <2> HIDE DEF IdentityInv, IdentityTypes
  <2> QED
    BY <2>2, <2>3, <2>4, <2>5, <2>6, RequestGoesOn
<1> HIDE DEF IdentityInv, IdentityTypes
<1> QED
  BY <1>2, <1>3, <1>4 DEF create_guest

LEMMA Claimed ==
  ASSUME IdentityInv, NEW h \in Handler, claim(h), UNCHANGED jobUser
  PROVE  IdentityInv'
<1> DEFINE u == call[h].user
           d == call[h].about
<1>1. /\ u \in User /\ kind[u] = "absent" /\ d \in Device /\ d # None /\ Fits(call[h])
      /\ call[h].at = "claim"
  BY IdentityAssumption DEF claim, IdentityInv, RequestsFit, Fits, guestSteps, exists,
     IdentityTypes, at
<1>2. CASE /\ guestOf[d] = NoUser
           /\ guestOf' = [guestOf EXCEPT ![d] = u]
           /\ kind' = [kind EXCEPT ![u] = "guest"]
           /\ openSession(session, u, d)
           /\ ends(h)
  <2>1. call' \in [Handler -> Request] /\ \A g \in Handler : call'[g] \in {call[g], Idle}
    BY <1>2, IdleFits DEF ends, IdentityInv, IdentityTypes
  <2>2. \A g \in Handler : call'[g].user # u
    <3>1. \A g \in Handler \ {h} : call[g].user # u
      BY <1>1, NobodyIsNoRow DEF IdentityInv, UnbornAlone, exists
    <3> QED
      BY <1>1, <1>2, <3>1, IdleFits, NobodyIsNoRow DEF ends, IdentityInv, IdentityTypes
  <2>3. guestOf'[d] = u
    BY <1>1, <1>2 DEF IdentityInv, IdentityTypes
  <2>4. UNCHANGED appleOf
    BY DEF claim
  <2> QED
    BY <1>1, <1>2, <2>1, <2>2, <2>3, <2>4, SignedIn
<1>3. CASE guestOf[d] # NoUser /\ next(h, "reread") /\ UNCHANGED <<guestOf, kind, session>>
  <2>1. PICK r \in Request :
          /\ call' = [call EXCEPT ![h] = r]
          /\ r.at = "reread" /\ r.user = u /\ r.about = d
          /\ r.target = call[h].target /\ r.moved = call[h].moved
          /\ r.entries = call[h].entries /\ r.copied = call[h].copied
    BY <1>3, RequestNext
  <2>2. r.target = NoUser /\ r.moved = {} /\ r.entries = {} /\ r.copied = None
    BY <1>1, <2>1 DEF Fits, mergeSteps
  <2>3. Fits(r)
    BY <1>1, <1>3, <2>1, <2>2 DEF Fits, exists, identitySteps, guestSteps, mergeSteps,
                                  moneySteps, lyricsSteps, jobSteps
  <2>4. UNCHANGED identityVars
    BY <1>3 DEF identityVars, claim
  <2>5. jobUser' \in [Job -> User \cup {NoUser}]
    BY DEF IdentityInv, IdentityTypes
  <2> QED
    BY <2>1, <2>2, <2>3, <2>4, <2>5, RequestGoesOn
<1> QED
  BY <1>2, <1>3 DEF claim

LEMMA Reread ==
  ASSUME IdentityInv, NEW h \in Handler, reread(h), UNCHANGED jobUser
  PROVE  IdentityInv'
<1> DEFINE u == call[h].user
           d == call[h].about
           v == IF isGuest(guestOf[d]) THEN guestOf[d] ELSE u
<1>1. /\ u \in User /\ kind[u] = "absent" /\ d \in Device /\ d # None
      /\ guestOf[d] \in User /\ exists(guestOf[d])
  BY IdentityAssumption DEF reread, IdentityInv, RequestsFit, Fits, guestSteps, exists,
     IdentityTypes, at, UsersExist
<1>2. /\ kind' = [kind EXCEPT ![u] = "guest"]
      /\ openSession(session, v, d)
      /\ ends(h)
      /\ guestOf' = guestOf /\ appleOf' = appleOf
  BY DEF reread
<1>3. call' \in [Handler -> Request] /\ \A g \in Handler : call'[g] \in {call[g], Idle}
  BY <1>2, IdleFits DEF ends, IdentityInv, IdentityTypes
<1>4. \A g \in Handler : call'[g].user # u
  <2>1. \A g \in Handler \ {h} : call[g].user # u
    BY <1>1, NobodyIsNoRow DEF IdentityInv, UnbornAlone, exists
  <2> QED
    BY <1>1, <1>2, <2>1, IdleFits, NobodyIsNoRow DEF ends, IdentityInv, IdentityTypes
<1>5. v \in User /\ (v = u \/ exists(v))
  BY <1>1
<1>6. kind'[v] = "guest" =>
        v = guestOf'[d] \/ (guestOf'[d] # NoUser /\ kind'[guestOf'[d]] # "guest")
  <2>1. guestOf[d] # u /\ guestOf[d] # NoUser
    BY <1>1, NobodyIsNoRow DEF exists
  <2> QED
    BY <1>1, <1>2, <2>1 DEF isGuest, IdentityInv, IdentityTypes
<1> QED
  BY <1>1, <1>2, <1>3, <1>4, <1>5, <1>6, SignedIn

(* Whoever asks for something in the name of a token.                       *)
LEMMA TokenUser ==
  ASSUME IdentityInv, NEW t \in Token \cup {None}
  PROVE  userOf(t) \in User \cup {NoUser} /\ (userOf(t) = NoUser \/ exists(userOf(t)))
BY DEF userOf, IdentityInv, IdentityTypes, UsersExist, SessionRow

LEMMA RequestOpens ==
  ASSUME IdentityInv, NEW h \in Handler, UNCHANGED <<identityVars, jobUser>>,
         NEW x \in {"claim", "findApple", "charge", "reserve", "settle"}, x # "claim",
         NEW u \in User \cup {NoUser}, NEW a \in Device \cup AppleId \cup Op \cup Job,
         begin(h, x, u, a), exists(u) \/ (u = NoUser /\ x = "findApple"),
         x = "findApple" => a \in AppleId,
         x = "charge" => a \in Op, x \in {"reserve", "settle"} => a \in Job
  PROVE  IdentityInv'
<1> DEFINE r == [Idle EXCEPT !.at = x, !.user = u, !.about = a]
<1>1. /\ call' = [call EXCEPT ![h] = r] /\ r \in Request
      /\ r.at = x /\ r.user = u /\ r.about = a
      /\ r.target = NoUser /\ r.moved = {} /\ r.entries = {} /\ r.copied = None
  <2>1. call' = [call EXCEPT ![h] = r]
    BY Zenon DEF begin
  <2>2. Idle \in Request
    BY IdleFits
  <2>3. r \in Request
    BY <2>2 DEF Request, identitySteps, guestSteps, moneySteps
  <2>4. /\ r.at = x /\ r.user = u /\ r.about = a
        /\ r.target = NoUser /\ r.moved = {} /\ r.entries = {} /\ r.copied = None
    BY DEF Idle
  <2> QED
    BY <2>1, <2>3, <2>4
<1> HIDE DEF r
<1>2. Fits(r)
  BY <1>1 DEF Fits, identitySteps, guestSteps, mergeSteps, moneySteps, lyricsSteps, jobSteps
<1>3. jobUser' \in [Job -> User \cup {NoUser}]
  BY DEF IdentityInv, IdentityTypes
<1> QED
  BY <1>1, <1>2, <1>3, RequestGoesOn

LEMMA SignInBegun ==
  ASSUME IdentityInv, NEW h \in Handler, NEW t \in Token \cup {None}, NEW s \in AppleId,
         sign_in_with_apple(h, t, s), UNCHANGED jobUser
  PROVE  IdentityInv'
BY TokenUser, RequestOpens DEF sign_in_with_apple

LEMMA AppleFound ==
  ASSUME IdentityInv, NEW h \in Handler, findApple(h), UNCHANGED jobUser
  PROVE  IdentityInv'
<1> DEFINE u == call[h].user
           s == call[h].about
           owner == appleOf[s]
<1>1. /\ call[h].at = "findApple" /\ s \in AppleId /\ u \in User \cup {NoUser}
      /\ u = NoUser \/ exists(u)
      /\ call[h].target = NoUser /\ call[h].moved = {} /\ call[h].entries = {}
      /\ call[h].copied = None
      /\ call[h] \in Request /\ call \in [Handler -> Request]
  BY DEF findApple, at, IdentityInv, IdentityTypes, RequestsFit, Fits, identitySteps, mergeSteps,
         Request
<1>2. owner # NoUser => owner \in User /\ kind[owner] = "apple" /\ exists(owner)
  BY <1>1 DEF IdentityInv, IdentityTypes, UsersExist, exists
<1>3. UNCHANGED <<guestOf, appleOf>> /\ jobUser' \in [Job -> User \cup {NoUser}]
  BY DEF findApple, IdentityInv, IdentityTypes
<1>4. CASE /\ owner # NoUser /\ u \notin {NoUser, owner}
           /\ call' = [call EXCEPT ![h].at = "moveSessions", ![h].target = owner]
           /\ UNCHANGED <<kind, session>>
  <2> DEFINE r == [call[h] EXCEPT !.at = "moveSessions", !.target = owner]
  <2>1. r \in Request
    BY <1>1, <1>2 DEF Request, mergeSteps
  <2>2. /\ r.at = "moveSessions" /\ r.target = owner /\ r.user = u /\ r.about = s
        /\ r.moved = {} /\ r.entries = {} /\ r.copied = None
    BY <1>1 DEF Request
  <2>3. call' = [call EXCEPT ![h] = r]
    BY <1>1, <1>4
  <2> HIDE DEF r
  <2>4. Fits(r)
    BY <1>1, <1>2, <1>4, <2>2 DEF Fits, identitySteps, guestSteps, mergeSteps, moneySteps,
                                  lyricsSteps, jobSteps
  <2>5. UNCHANGED identityVars
    BY <1>3, <1>4 DEF identityVars
  <2> QED
    BY <1>3, <2>1, <2>2, <2>3, <2>4, <2>5, RequestGoesOn
<1>5. CASE /\ owner # NoUser /\ openSession(session, owner, None) /\ ends(h) /\ UNCHANGED kind
  <2>1. kind' = [kind EXCEPT ![owner] = "apple"]
    BY <1>2, <1>5 DEF IdentityInv, IdentityTypes
  <2>2. call' \in [Handler -> Request] /\ \A g \in Handler : call'[g] \in {call[g], Idle}
    BY <1>1, <1>5, IdleFits DEF ends
  <2> QED
    BY <1>2, <1>3, <1>5, <2>1, <2>2, SignedIn
<1>6. CASE isGuest(u) /\ next(h, "promote") /\ UNCHANGED <<kind, session>>
  <2>1. PICK r \in Request :
          /\ call' = [call EXCEPT ![h] = r]
          /\ r.at = "promote" /\ r.user = u /\ r.about = s
          /\ r.target = call[h].target /\ r.moved = call[h].moved
          /\ r.entries = call[h].entries /\ r.copied = call[h].copied
    BY <1>6, RequestNext
  <2>2. Fits(r)
    BY <1>1, <1>6, <2>1 DEF Fits, identitySteps, guestSteps, mergeSteps, moneySteps,
                            lyricsSteps, jobSteps, isGuest
  <2>3. UNCHANGED identityVars
    BY <1>3, <1>6 DEF identityVars
  <2> QED
    BY <1>1, <1>3, <2>1, <2>2, <2>3, RequestGoesOn
<1>7. CASE /\ \E v \in User : /\ newUser(v)
                              /\ call' = [call EXCEPT ![h].at = "promote", ![h].user = v]
           /\ UNCHANGED <<kind, session>>
  <2>1. PICK v \in User : /\ newUser(v)
                          /\ call' = [call EXCEPT ![h].at = "promote", ![h].user = v]
    BY <1>7
  <2>2. \A g \in Handler : call[g].user # v
    BY <2>1, NewUserUnborn
  <2> DEFINE r == [call[h] EXCEPT !.at = "promote", !.user = v]
  <2>3. r \in Request
    BY <1>1 DEF Request, identitySteps
  <2>4. /\ r.at = "promote" /\ r.target = NoUser /\ r.user = v /\ r.about = s
        /\ r.moved = {} /\ r.entries = {} /\ r.copied = None
    BY <1>1 DEF Request
  <2>5. call' = [call EXCEPT ![h] = r]
    BY <1>1, <2>1
  <2> HIDE DEF r
  <2>6. Fits(r)
    BY <1>1, <2>4 DEF Fits, identitySteps, guestSteps, mergeSteps, moneySteps,
                      lyricsSteps, jobSteps
  <2>7. UNCHANGED identityVars
    BY <1>3, <1>7 DEF identityVars
  <2> QED
    BY <1>3, <2>2, <2>3, <2>4, <2>5, <2>6, <2>7, RequestGoesOn
<1> QED
  BY <1>4, <1>5, <1>6, <1>7 DEF findApple

LEMMA Promoted ==
  ASSUME IdentityInv, NEW h \in Handler, promote(h), UNCHANGED jobUser
  PROVE  IdentityInv'
<1> DEFINE u == call[h].user
           s == call[h].about
<1>1. u \in User /\ s \in AppleId /\ call \in [Handler -> Request]
  BY DEF promote, at, IdentityInv, IdentityTypes, RequestsFit, Fits, identitySteps
<1>2. ends(h) /\ UNCHANGED guestOf
  BY DEF promote
<1>3. CASE /\ appleOf[s] = NoUser
           /\ kind' = [kind EXCEPT ![u] = "apple"]
           /\ appleOf' = [appleOf EXCEPT ![s] = u]
           /\ openSession(session, u, None)
  <2>1. call' \in [Handler -> Request] /\ \A g \in Handler : call'[g] \in {call[g], Idle}
    BY <1>1, <1>2, IdleFits DEF ends
  <2>2. ~ exists(u) => \A g \in Handler : call'[g].user # u
    <3>1. ~ exists(u) => \A g \in Handler \ {h} : call[g].user # u
      BY <1>1, NobodyIsNoRow DEF IdentityInv, UnbornAlone
    <3> QED
      BY <1>1, <1>2, <3>1, IdleFits, NobodyIsNoRow DEF ends
  <2> QED
    BY <1>1, <1>2, <1>3, <2>1, <2>2, SignedIn
<1>4. CASE UNCHANGED <<kind, appleOf, session>>
  BY <1>2, <1>4, RequestEnds DEF identityVars
<1> QED
  BY <1>3, <1>4 DEF promote

LEMMA LoggedOut ==
  ASSUME IdentityInv, NEW h \in Handler, NEW t \in Token, logout(h, t), UNCHANGED jobUser
  PROVE  IdentityInv'
<1> DEFINE r == [session[t] EXCEPT !.revoked = TRUE]
<1>1. session \in [Token -> SessionRow] /\ session[t] \in SessionRow
  BY DEF IdentityInv, IdentityTypes
<1>2. r \in SessionRow /\ r.user = session[t].user /\ r.device = session[t].device
  BY <1>1 DEF SessionRow
<1>3. session' = [session EXCEPT ![t] = r] /\ UNCHANGED <<kind, guestOf, appleOf, call>>
  BY DEF logout
<1> HIDE DEF r
<1>4. /\ session' \in [Token -> SessionRow]
      /\ \A n \in Token : session'[n].user = session[n].user
                         /\ session'[n].device = session[n].device
  BY <1>1, <1>2, <1>3
<1>5. IdentityTypes'
  BY <1>3, <1>4 DEF IdentityInv, IdentityTypes
<1>6. UsersExist'
  BY <1>3, <1>4 DEF IdentityInv, UsersExist, exists
<1>7. RequestsFit'
  BY <1>3 DEF IdentityInv, RequestsFit, Fits, exists
<1>8. UnbornAlone' /\ SameGuest'
  BY <1>3, <1>4 DEF IdentityInv, UnbornAlone, SameGuest, exists, isGuest
<1>9. MovedHeld'
  BY <1>3, <1>4 DEF IdentityInv, IdentityTypes, MovedHeld, Request
<1> QED
  BY <1>5, <1>6, <1>7, <1>8, <1>9 DEF IdentityInv

-----------------------------------------------------------------------------
(* Requests for money write no identity row, and name a user who exists.    *)
LEMMA MoneyGoesOn ==
  ASSUME IdentityInv, UNCHANGED <<identityVars, jobUser>>, NEW h \in Handler,
         \/ at(h, "charge") /\ next(h, "llm")
         \/ at(h, "llm") /\ next(h, "refund")
         \/ at(h, "reserve") /\ next(h, "insertJob")
  PROVE  IdentityInv'
<1>1. PICK x \in {"llm", "refund", "insertJob"} :
        /\ next(h, x)
        /\ \/ x \in {"llm", "refund"} /\ call[h].at \in lyricsSteps
           \/ x = "insertJob" /\ call[h].at \in jobSteps
  BY DEF at, lyricsSteps, jobSteps
<1>2. PICK r \in Request :
        /\ call' = [call EXCEPT ![h] = r]
        /\ r.at = x /\ r.user = call[h].user /\ r.about = call[h].about
        /\ r.target = call[h].target /\ r.moved = call[h].moved
        /\ r.entries = call[h].entries /\ r.copied = call[h].copied
  BY <1>1, RequestNext
<1>3. Fits(call[h]) /\ call[h].at \in moneySteps
  BY <1>1 DEF IdentityInv, RequestsFit, lyricsSteps, jobSteps, moneySteps
<1>4. Fits(r) /\ r.moved = {}
  BY <1>1, <1>2, <1>3 DEF Fits, identitySteps, guestSteps, mergeSteps, moneySteps, lyricsSteps,
                          jobSteps
<1>5. jobUser' \in [Job -> User \cup {NoUser}]
  BY DEF IdentityInv, IdentityTypes
<1> QED
  BY <1>2, <1>4, <1>5, RequestGoesOn

LEMMA MoneyKeepsIdentity ==
  ASSUME IdentityInv, UNCHANGED identityVars, NEW h \in Handler,
         \/ coins(h)
         \/ \E j \in Job : readJob(h, j)
         \/ \E t \in Token : \/ \E p \in Purchase : grant(h, t, p)
                             \/ \E o \in Op : askLyrics(h, t, o)
                             \/ \E j \in Job : askJob(h, t, j)
  PROVE  IdentityInv'
<1>1. CASE charge(h) \/ llm(h) \/ refund(h) \/ reserve(h) \/ settle(h)
  <2>1. UNCHANGED jobUser
    BY <1>1 DEF charge, llm, refund, reserve, settle
  <2>2. \/ ends(h)
        \/ at(h, "charge") /\ next(h, "llm")
        \/ at(h, "llm") /\ next(h, "refund")
        \/ at(h, "reserve") /\ next(h, "insertJob")
    BY <1>1 DEF charge, llm, refund, reserve, settle
  <2> QED
    BY <2>1, <2>2, RequestEnds, MoneyGoesOn
<1>2. CASE insertJob(h)
  <2>1. exists(call[h].user) /\ call[h].about \in Job
    BY <1>2 DEF insertJob, at, IdentityInv, RequestsFit, Fits, moneySteps, jobSteps
  <2>2. jobUser' = [jobUser EXCEPT ![call[h].about] = call[h].user]
    BY <1>2 DEF insertJob
  <2>3. jobUser' \in [Job -> User \cup {NoUser}]
    BY <2>1, <2>2 DEF IdentityInv, IdentityTypes, exists
  <2>4. \A j \in Job : jobUser'[j] = jobUser[j] \/ exists(jobUser'[j])
    BY <2>1, <2>2 DEF IdentityInv, IdentityTypes
  <2>5. call' = [call EXCEPT ![h] = Idle]
    BY <1>2 DEF insertJob, ends
  <2> QED
    BY <2>3, <2>4, <2>5, IdleFits, RequestGoesOn
<1>3. ASSUME NEW j \in Job, readJob(h, j) PROVE IdentityInv'
  <2>1. exists(jobUser[j]) /\ jobUser[j] \in User \cup {NoUser}
    BY <1>3 DEF readJob, IdentityInv, IdentityTypes, UsersExist
  <2> QED
    BY <1>3, <2>1, RequestOpens DEF readJob, coinVars
<1>4. ASSUME NEW t \in Token, NEW p \in Purchase, grant(h, t, p) PROVE IdentityInv'
  <2>1. UNCHANGED <<kind, guestOf, appleOf, session, call, jobUser>>
    BY <1>4 DEF grant, identityVars
  <2> QED
    BY <2>1 DEF IdentityInv, IdentityTypes, UsersExist, RequestsFit, UnbornAlone, MovedHeld,
                SameGuest, Fits, exists, isGuest
<1>5. ASSUME NEW t \in Token, NEW o \in Op, askLyrics(h, t, o) PROVE IdentityInv'
  BY <1>5, TokenUser, RequestOpens DEF askLyrics, coinVars
<1>6. ASSUME NEW t \in Token, NEW j \in Job, askJob(h, t, j) PROVE IdentityInv'
  BY <1>6, TokenUser, RequestOpens DEF askJob, coinVars
<1> QED
  BY <1>1, <1>2, <1>3, <1>4, <1>5, <1>6 DEF coins

-----------------------------------------------------------------------------
(* The merge.                                                               *)
LEMMA MergeGoesOn ==
  ASSUME IdentityInv, UNCHANGED <<identityVars, jobUser>>, NEW h \in Handler,
         NEW r \in Request, call' = [call EXCEPT ![h] = r],
         call[h].at \in mergeSteps, r.at \in mergeSteps,
         r.user = call[h].user, r.about = call[h].about, r.target = call[h].target,
         \A t \in r.moved : session[t].user = r.user,
         \A g \in Handler \ {h} : r.moved \cap call[g].moved = {}
  PROVE  IdentityInv'
<1>1. Fits(call[h])
  BY DEF IdentityInv, RequestsFit
<1>2. Fits(r)
  BY <1>1 DEF Fits, identitySteps, guestSteps, mergeSteps, moneySteps, lyricsSteps, jobSteps
<1>3. jobUser' \in [Job -> User \cup {NoUser}]
  BY DEF IdentityInv, IdentityTypes
<1> QED
  BY <1>2, <1>3, RequestGoesOn

LEMMA MergeMoves ==
  ASSUME IdentityInv, wallet \in [User -> Wallet \cup {None}], NEW h \in Handler,
         moveSessions(h) \/ moveRows(h) \/ copyWallet(h)
  PROVE  IdentityInv'
<1> DEFINE q == call[h]
<1>1. q \in Request /\ call \in [Handler -> Request] /\ UNCHANGED <<identityVars, jobUser>>
  BY DEF IdentityInv, IdentityTypes, moveSessions, moveRows, copyWallet, coinVars
<1>2. q.at \in mergeSteps
  BY DEF moveSessions, moveRows, copyWallet, at, mergeSteps
<1>3. /\ \A t \in q.moved : session[t].user = q.user
      /\ \A g \in Handler \ {h} : q.moved \cap call[g].moved = {}
  BY DEF IdentityInv, MovedHeld
<1>4. CASE moveSessions(h)
  <2> DEFINE mine == {t \in Token : session[t].user = q.user}
             r == [q EXCEPT !.at = "moveRows", !.moved = mine]
  <2>1. /\ call' = [call EXCEPT ![h].at = "moveRows", ![h].moved = mine]
        /\ \A g \in Handler \ {h} : call[g].moved \cap mine = {}
    BY <1>4 DEF moveSessions
  <2>2. mine \in SUBSET Token
    OBVIOUS
  <2> HIDE DEF mine
  <2>3. call' = [call EXCEPT ![h] = r] /\ r \in Request
    BY <1>1, <2>1, <2>2 DEF Request, mergeSteps
  <2>4. /\ r.at = "moveRows" /\ r.moved = mine /\ r.user = q.user /\ r.about = q.about
        /\ r.target = q.target
    BY <1>1 DEF Request
  <2> HIDE DEF r
  <2>5. \A t \in r.moved : session[t].user = r.user
    BY <2>4 DEF mine
  <2>6. r.at \in mergeSteps
    BY <2>4 DEF mergeSteps
  <2>7. \A g \in Handler \ {h} : r.moved \cap call[g].moved = {}
    BY <2>1, <2>4
  <2> QED
    BY <1>1, <1>2, <2>3, <2>4, <2>5, <2>6, <2>7, MergeGoesOn
<1>5. CASE moveRows(h)
  <2> DEFINE rows == ownedBy(q.user)
             r == [q EXCEPT !.at = "copyWallet", !.entries = rows]
  <2>1. call' = [call EXCEPT ![h].at = "copyWallet", ![h].entries = rows]
    BY <1>5 DEF moveRows
  <2>2. rows \in SUBSET (EntryKey \cup ({"job"} \X Job))
    BY DEF ownedBy, rowsOf, jobRow
  <2> HIDE DEF rows
  <2>3. call' = [call EXCEPT ![h] = r] /\ r \in Request
    BY <1>1, <2>1, <2>2 DEF Request, mergeSteps
  <2>4. /\ r.at = "copyWallet" /\ r.moved = q.moved /\ r.user = q.user /\ r.about = q.about
        /\ r.target = q.target
    BY <1>1 DEF Request
  <2> HIDE DEF r
  <2>5. r.at \in mergeSteps
    BY <2>4 DEF mergeSteps
  <2>6. /\ \A t \in r.moved : session[t].user = r.user
        /\ \A g \in Handler \ {h} : r.moved \cap call[g].moved = {}
    BY <1>3, <2>4
  <2> QED
    BY <1>1, <1>2, <2>3, <2>4, <2>5, <2>6, MergeGoesOn
<1>6. CASE copyWallet(h)
  <2> DEFINE row == wallet[q.user]
             r == [q EXCEPT !.at = "dropWallet", !.copied = row]
  <2>1. call' = [call EXCEPT ![h].at = "dropWallet", ![h].copied = row]
    BY <1>6 DEF copyWallet
  <2>2. row \in Wallet \cup {None}
    BY <1>2 DEF IdentityInv, RequestsFit, Fits, exists
  <2> HIDE DEF row
  <2>3. call' = [call EXCEPT ![h] = r] /\ r \in Request
    BY <1>1, <2>1, <2>2 DEF Request, mergeSteps
  <2>4. /\ r.at = "dropWallet" /\ r.moved = q.moved /\ r.user = q.user /\ r.about = q.about
        /\ r.target = q.target
    BY <1>1 DEF Request
  <2> HIDE DEF r
  <2>5. r.at \in mergeSteps
    BY <2>4 DEF mergeSteps
  <2>6. /\ \A t \in r.moved : session[t].user = r.user
        /\ \A g \in Handler \ {h} : r.moved \cap call[g].moved = {}
    BY <1>3, <2>4
  <2> QED
    BY <1>1, <1>2, <2>3, <2>4, <2>5, <2>6, MergeGoesOn
<1> QED
  BY <1>4, <1>5, <1>6

LEMMA MergeCommits ==
  ASSUME IdentityInv, NEW h \in Handler, dropWallet(h)
  PROVE  IdentityInv'
<1> DEFINE u == call[h].user
           to == call[h].target
           mine == call[h].moved
           base == reassigned(h)
           row == [user |-> to, device |-> None, revoked |-> FALSE]
<1>1. /\ call[h].at \in mergeSteps /\ u \in User /\ exists(u) /\ to \in User /\ to # u
      /\ kind[to] = "apple" /\ exists(to) /\ to # NoUser
  BY NobodyIsNoRow DEF dropWallet, at, mergeSteps, IdentityInv, RequestsFit, Fits, exists
<1>2. /\ mine \subseteq Token /\ call \in [Handler -> Request]
      /\ session \in [Token -> SessionRow]
      /\ UNCHANGED <<kind, guestOf, appleOf>> /\ call' = [call EXCEPT ![h] = Idle]
  BY DEF dropWallet, IdentityInv, IdentityTypes, Request, ends
<1>3. PICK n \in Token : /\ session[n] = NoSession
                         /\ session' = [base EXCEPT ![n] = row]
  BY SessionOpened DEF dropWallet
<1>4. \A t \in mine : session[t].user = u
  BY DEF IdentityInv, MovedHeld
<1>5. n \notin mine /\ session[n].user = NoUser
  BY <1>1, <1>3, <1>4, NobodyIsNoRow DEF NoSession
<1>6. base \in [Token -> SessionRow]
  BY <1>1, <1>2 DEF reassigned, SessionRow
<1>7. \A t \in Token : base[t].device = session[t].device
                       /\ base[t].user = IF t \in mine THEN to ELSE session[t].user
  BY <1>2 DEF reassigned, SessionRow
<1>8. /\ session' \in [Token -> SessionRow]
      /\ \A t \in Token :
           /\ session'[t].device = IF t = n THEN None ELSE session[t].device
           /\ session'[t].user = IF t \in mine \cup {n} THEN to ELSE session[t].user
  <2> HIDE DEF base
  <2>1. session' \in [Token -> SessionRow]
    BY <1>1, <1>3, <1>6 DEF SessionRow
  <2>2. \A t \in Token : session'[t] = IF t = n THEN row ELSE base[t]
    BY <1>3, <1>6
  <2> QED
    BY <1>5, <1>7, <2>1, <2>2
<1>9. /\ \A j \in Job : jobUser'[j] = to \/ jobUser'[j] = jobUser[j]
      /\ jobUser' \in [Job -> User \cup {NoUser}]
  BY <1>1 DEF dropWallet, IdentityInv, IdentityTypes
<1>10. \A g \in Handler : call'[g] = IF g = h THEN Idle ELSE call[g]
  BY <1>2
<1>11. IdentityTypes'
  BY <1>2, <1>8, <1>9, IdleFits DEF IdentityInv, IdentityTypes
<1>12. UsersExist'
  <2>1. \A t \in Token : session'[t].user # NoUser =>
          exists(session'[t].user) /\ session'[t].device \in Device \cup {None}
    <3> SUFFICES ASSUME NEW t \in Token, session'[t].user # NoUser
                 PROVE  exists(session'[t].user) /\ session'[t].device \in Device \cup {None}
      OBVIOUS
    <3>1. CASE t = n
      BY <1>1, <1>8, <3>1
    <3>2. CASE t \in mine
      <4>1. session[t].user # NoUser
        BY <1>1, <1>4, <3>2, NobodyIsNoRow
      <4> QED
        BY <1>1, <1>5, <1>8, <3>2, <4>1 DEF IdentityInv, UsersExist
    <3>3. CASE t \notin mine /\ t # n
      BY <1>8, <3>3 DEF IdentityInv, UsersExist
    <3> QED
      BY <3>1, <3>2, <3>3
  <2>2. \A j \in Job : jobUser'[j] # NoUser => exists(jobUser'[j])
    BY <1>1, <1>9 DEF IdentityInv, UsersExist
  <2>3. /\ \A d \in Device : guestOf[d] # NoUser => exists(guestOf[d])
        /\ \A s \in AppleId : appleOf[s] # NoUser => kind[appleOf[s]] = "apple"
    BY DEF IdentityInv, UsersExist
  <2> QED
    BY <1>2, <2>1, <2>2, <2>3 DEF UsersExist, exists
<1>13. RequestsFit'
  <2> SUFFICES ASSUME NEW g \in Handler PROVE Fits(call[g])'
    BY DEF RequestsFit
  <2>1. CASE g = h
    BY <1>10, <2>1, IdleFits
  <2>2. CASE g # h
    BY <1>2, <1>10, <2>2 DEF IdentityInv, RequestsFit, Fits, exists
  <2> QED
    BY <2>1, <2>2
<1>14. UnbornAlone'
  BY <1>2, <1>10, IdleFits DEF IdentityInv, UnbornAlone, exists
<1>15. MovedHeld'
  <2>1. \A g \in Handler : \A t \in call'[g].moved : session'[t].user = call'[g].user
    <3> SUFFICES ASSUME NEW g \in Handler, NEW t \in call'[g].moved
                 PROVE  session'[t].user = call'[g].user
      OBVIOUS
    <3>1. g # h /\ call'[g] = call[g]
      BY <1>10, IdleFits
    <3>2. session[t].user = call[g].user /\ t \in Token /\ t \notin mine
      BY <1>2, <3>1 DEF IdentityInv, MovedHeld, Request
    <3>3. call[g].user # NoUser
      BY <3>1, NobodyIsNoRow DEF IdentityInv, RequestsFit, Fits, exists
    <3> QED
      BY <1>5, <1>8, <3>1, <3>2, <3>3
  <2>2. \A f, g \in Handler : g # f => call'[f].moved \cap call'[g].moved = {}
    BY <1>10, IdleFits DEF IdentityInv, MovedHeld
  <2> QED
    BY <2>1, <2>2 DEF MovedHeld
<1>16. SameGuest'
  <2> SUFFICES ASSUME NEW t \in Token, session'[t].device # None, isGuest(session'[t].user)
               PROVE  LET e == session'[t].device IN
                      \/ session'[t].user = guestOf[e]
                      \/ guestOf[e] # NoUser /\ ~ isGuest(guestOf[e])
    BY <1>2 DEF SameGuest, isGuest
  <2>1. t \notin mine \cup {n}
    BY <1>1, <1>8 DEF isGuest
  <2> QED
    BY <1>8, <2>1 DEF IdentityInv, SameGuest
<1> QED
  BY <1>11, <1>12, <1>13, <1>14, <1>15, <1>16 DEF IdentityInv

(* What is left of a workload is one.                                       *)
WorkloadTyped ==
  workload \in [guests : Nat, signIns : Nat, logouts : Nat, moneyCalls : Nat, deaths : Nat,
                money : SUBSET {"grant", "lyrics", "job"}, subs : SUBSET AppleId, noDevice : BOOLEAN]

LEMMA WorkloadStep ==
  ASSUME WorkloadTyped, [Next]_vars
  PROVE  WorkloadTyped'
<1>1. ASSUME NEW bound \in {"guests", "signIns", "logouts", "moneyCalls", "deaths"}, uses(bound)
      PROVE  WorkloadTyped'
  <2>1. workload[bound] > 0 /\ workload' = [workload EXCEPT ![bound] = workload[bound] - 1]
    BY <1>1 DEF uses
  <2>2. workload[bound] \in Nat
    BY DEF WorkloadTyped
  <2>3. workload[bound] - 1 \in Nat
    BY <2>1, <2>2
  <2> QED
    BY <2>1, <2>3 DEF WorkloadTyped
<1>2. \/ UNCHANGED workload
      \/ \E bound \in {"guests", "signIns", "logouts", "moneyCalls", "deaths"} : uses(bound)
  BY DEF Next, newCall, settleJob, serve, abort, vars
<1> QED
  BY <1>1, <1>2 DEF WorkloadTyped

(* Whatever happens, the rows and requests of identities stay in order.     *)
LEMMA IdentityStep ==
  ASSUME IdentityInv, wallet \in [User -> Wallet \cup {None}], WorkloadTyped, [Next]_vars
  PROVE  IdentityInv'
<1>1. CASE UNCHANGED vars
  BY <1>1 DEF vars, identityVars, coinVars, IdentityInv, IdentityTypes, UsersExist, RequestsFit,
     UnbornAlone, MovedHeld, SameGuest, Fits, exists, isGuest
<1>2. ASSUME NEW h \in Handler, newCall(h) PROVE IdentityInv'
  <2>1. ASSUME NEW d \in Device \cup {None}, create_guest(h, d), UNCHANGED coinVars
        PROVE  IdentityInv'
    BY <2>1, GuestCreated DEF coinVars
  <2>2. ASSUME NEW t \in Token \cup {None}, NEW s \in AppleId, sign_in_with_apple(h, t, s),
               UNCHANGED coinVars
        PROVE  IdentityInv'
    BY <2>2, SignInBegun DEF coinVars
  <2>3. ASSUME NEW t \in Token, logout(h, t), UNCHANGED coinVars PROVE IdentityInv'
    BY <2>3, LoggedOut DEF coinVars
  <2>4. workload.subs \subseteq AppleId
    BY DEF WorkloadTyped
  <2> QED
    BY <1>2, <2>1, <2>2, <2>3, <2>4, MoneyKeepsIdentity DEF newCall
<1>3. ASSUME NEW h \in Handler, settleJob(h) PROVE IdentityInv'
  BY <1>3, MoneyKeepsIdentity DEF settleJob, identityVars
<1>4. ASSUME NEW h \in Handler, serve(h) PROVE IdentityInv'
  BY <1>4, Claimed, Reread, AppleFound, Promoted, MoneyKeepsIdentity, MergeMoves, MergeCommits
     DEF serve, merge, coinVars
<1>5. ASSUME NEW h \in Handler, abort(h) PROVE IdentityInv'
  BY <1>5, RequestEnds DEF abort, identityVars
<1> QED
  BY <1>1, <1>2, <1>3, <1>4, <1>5 DEF Next

-----------------------------------------------------------------------------
(* Types of the rows; a merge holds rows that are there.                    *)
CoinTypes ==
  /\ wallet \in [User -> Wallet \cup {None}]
  /\ entry \in [EntryKey -> Entry \cup {None}]
  /\ \A h \in Handler : \A k \in call[h].entries \cap EntryKey : hasEntry(k)

(* How far the calls of a lyrics key have come.                             *)
LyricsInv ==
  /\ outcome \in [Op -> SUBSET {"drafted", "failed", "died"}]
  /\ \A h \in Handler : call[h].at \in {"llm", "refund"} => hasEntry(chargeKey(call[h].about))
  /\ \A h \in Handler : at(h, "refund") => "failed" \in outcome[call[h].about]
  /\ \A o \in Op : hasEntry(refundKey(o)) => hasEntry(chargeKey(o))
  /\ \A o \in Op : hasEntry(chargeKey(o)) /\ outcome[o] \subseteq {"failed"} =>
       \/ hasEntry(refundKey(o))
       \/ \E h \in Handler : call[h].at \in {"llm", "refund"} /\ call[h].about = o

(* The rows a step writes are rows.                                         *)
LEMMA LargerOfTwo ==
  ASSUME NEW n \in Int
  PROVE  Max({0, n}) = IF n >= 0 THEN n ELSE 0
<1>1. \A x \in {0, n} : (\A y \in {0, n} : x >= y) => x = IF n >= 0 THEN n ELSE 0
  OBVIOUS
<1>2. \E x \in {0, n} : \A y \in {0, n} : x >= y
  OBVIOUS
<1> QED
  BY <1>1, <1>2 DEF Max

LEMMA EnsuredIsWallet ==
  ASSUME CoinTypes, NEW u \in User
  PROVE  ensured(u) \in Wallet
BY DEF ensured, CoinTypes, EmptyWallet, Wallet

LEMMA ChangedIsWallets ==
  ASSUME CoinTypes, NEW u \in User, NEW a \in Nat, NEW r \in Int
  PROVE  changed(u, a, r) \in [User -> Wallet \cup {None}]
<1>1. CASE wallet[u] = None
  BY <1>1 DEF changed, CoinTypes
<1>2. CASE wallet[u] # None
  <2>1. wallet[u] \in Wallet
    BY <1>2 DEF CoinTypes
  <2>2. wallet[u].available + a \in Nat /\ wallet[u].reserved + r \in Int
    BY <2>1 DEF Wallet
  <2>3. Max({0, wallet[u].reserved + r}) \in Nat
    BY <2>2, LargerOfTwo
  <2>4. [available |-> wallet[u].available + a, reserved |-> Max({0, wallet[u].reserved + r})]
          \in Wallet
    BY <2>2, <2>3 DEF Wallet
  <2> QED
    BY <1>2, <2>4 DEF changed, CoinTypes
<1> QED
  BY <1>1, <1>2

LEMMA AppendedIsRow ==
  ASSUME CoinTypes, NEW k \in EntryKey, NEW u \in User, NEW n \in {Price, -Price}, append(k, u, n)
  PROVE  /\ entry' \in [EntryKey -> Entry \cup {None}]
         /\ \A i \in EntryKey : /\ hasEntry(i) => entry'[i] = entry[i]
                                /\ entry'[i] # None <=> hasEntry(i) \/ i = k
<1>1. [user |-> u, amount |-> n] \in Entry
  BY DEF Entry
<1>2. [user |-> u, amount |-> n] # None
  BY <1>1, RowAssumption
<1> QED
  BY <1>1, <1>2 DEF append, hasEntry, CoinTypes

LEMMA KeysAreKeys ==
  /\ \A o \in Op : chargeKey(o) \in EntryKey /\ refundKey(o) \in EntryKey
  /\ \A j \in Job : /\ reserveKey(j) \in EntryKey /\ releaseKey(j) \in EntryKey
                    /\ captureKey(j) \in EntryKey
  /\ \A p \in Purchase : grantKey(p) \in EntryKey
BY DEF EntryKey, chargeKey, refundKey, reserveKey, releaseKey, captureKey, grantKey

(* The steps by what they do to coins: nothing; one row for one user; a      *)
(* merge that commits.                                                      *)
CoinsKept == UNCHANGED <<wallet, entry>>
RowAdded(h) ==
  \/ \E t \in Token, p \in Purchase : grant(h, t, p)
  \/ charge(h) \/ refund(h) \/ reserve(h) \/ settle(h)

LEMMA CoinCases ==
  ASSUME [Next]_vars
  PROVE  \/ CoinsKept
         \/ \E h \in Handler : RowAdded(h)
         \/ \E h \in Handler : dropWallet(h)
<1>1. ASSUME NEW h \in Handler, newCall(h) PROVE CoinsKept \/ RowAdded(h)
  BY <1>1 DEF newCall, askLyrics, askJob, coinVars, CoinsKept, RowAdded
<1>2. ASSUME NEW h \in Handler, settleJob(h) \/ abort(h) PROVE CoinsKept
  BY <1>2 DEF settleJob, readJob, abort, coinVars, CoinsKept
<1>3. ASSUME NEW h \in Handler, serve(h) PROVE CoinsKept \/ RowAdded(h) \/ dropWallet(h)
  BY <1>3 DEF serve, coins, llm, insertJob, merge, moveSessions, moveRows, copyWallet, coinVars,
              CoinsKept, RowAdded
<1> QED
  BY <1>1, <1>2, <1>3 DEF Next, vars, coinVars, CoinsKept

(* The rows a merge holds are those it held or those of its user.           *)
LEMMA HeldRows ==
  ASSUME IdentityInv, [Next]_vars, NEW g \in Handler
  PROVE  call'[g].entries \subseteq call[g].entries \cup ownedBy(call[g].user)
<1> DEFINE kept == call'[g].entries \subseteq call[g].entries
<1>1. call \in [Handler -> Request]
  BY DEF IdentityInv, IdentityTypes
<1>2. ASSUME NEW h \in Handler, ends(h) PROVE kept
  BY <1>1, <1>2 DEF ends, Idle
<1>3. ASSUME NEW h \in Handler, NEW x, next(h, x) PROVE kept
  BY <1>1, <1>3 DEF next, Request
<1>4. ASSUME NEW h \in Handler, NEW x, NEW u, NEW a, begin(h, x, u, a) PROVE kept
  BY <1>1, <1>4 DEF begin, Idle
<1>5. CASE UNCHANGED call
  BY <1>5
<1>6. ASSUME NEW h \in Handler, newCall(h) PROVE kept
  <2>1. ASSUME NEW d, create_guest(h, d) PROVE kept
    BY <2>1, <1>4, <1>5 DEF create_guest
  <2>2. ASSUME NEW t, NEW p, grant(h, t, p) PROVE kept
    BY <2>2, <1>5 DEF grant
  <2>3. ASSUME NEW t, logout(h, t) PROVE kept
    BY <2>3, <1>5 DEF logout
  <2> QED
    BY <1>4, <1>6, <2>1, <2>2, <2>3 DEF newCall, sign_in_with_apple, askLyrics, askJob
<1>7. ASSUME NEW h \in Handler, settleJob(h) PROVE kept
  BY <1>4, <1>7 DEF settleJob, readJob
<1>8. ASSUME NEW h \in Handler, claim(h) \/ reread(h) \/ promote(h) PROVE kept
  BY <1>2, <1>3, <1>8 DEF claim, reread, promote
<1>9. ASSUME NEW h \in Handler, findApple(h) PROVE kept
  <2>1. CASE \E v : call' = [call EXCEPT ![h].at = "promote", ![h].user = v]
    BY <1>1, <2>1 DEF Request
  <2>2. CASE \E v : call' = [call EXCEPT ![h].at = "moveSessions", ![h].target = v]
    BY <1>1, <2>2 DEF Request
  <2> QED
    BY <1>2, <1>3, <1>9, <2>1, <2>2 DEF findApple
<1>10. ASSUME NEW h \in Handler, coins(h) PROVE kept
  BY <1>2, <1>3, <1>10 DEF coins, charge, llm, refund, reserve, insertJob, settle
<1>11. ASSUME NEW h \in Handler, moveSessions(h) \/ copyWallet(h) \/ dropWallet(h) PROVE kept
  <2>1. CASE \E m : call' = [call EXCEPT ![h].at = "moveRows", ![h].moved = m]
    BY <1>1, <2>1 DEF Request
  <2>2. CASE \E w : call' = [call EXCEPT ![h].at = "dropWallet", ![h].copied = w]
    BY <1>1, <2>2 DEF Request
  <2> QED
    BY <1>2, <1>11, <2>1, <2>2 DEF moveSessions, copyWallet, dropWallet
<1>12. ASSUME NEW h \in Handler, moveRows(h)
       PROVE  call'[g].entries \subseteq call[g].entries \cup ownedBy(call[g].user)
  <2>1. call' = [call EXCEPT ![h].at = "copyWallet", ![h].entries = ownedBy(call[h].user)]
    BY <1>12 DEF moveRows
  <2> QED
    BY <1>1, <2>1 DEF Request
<1>13. ASSUME NEW h \in Handler, abort(h) PROVE kept
  BY <1>2, <1>13 DEF abort
<1> QED
  BY <1>5, <1>6, <1>7, <1>8, <1>9, <1>10, <1>11, <1>12, <1>13 DEF Next, serve, merge, vars

(* A step that adds a row leaves wallets and rows behind.                   *)
LEMMA RowAddedTypes ==
  ASSUME IdentityInv, CoinTypes, NEW h \in Handler, RowAdded(h)
  PROVE  /\ wallet' \in [User -> Wallet \cup {None}]
         /\ entry' \in [EntryKey -> Entry \cup {None}]
         /\ \A k \in EntryKey : hasEntry(k) => entry'[k] = entry[k]
<1> USE PriceAssumption
<1>1. ASSUME NEW t \in Token, NEW p \in Purchase, grant(h, t, p)
      PROVE  /\ wallet' \in [User -> Wallet \cup {None}]
             /\ \E k \in EntryKey, u \in User : append(k, u, Price)
  <2>1. userOf(t) \in User
    BY <1>1, TokenUser DEF grant
  <2>2. ensured(userOf(t)) \in Wallet
    BY <2>1, EnsuredIsWallet
  <2>3. [ensured(userOf(t)) EXCEPT !.available = @ + Price] \in Wallet
    BY <2>2 DEF Wallet
  <2> QED
    BY <1>1, <2>1, <2>3, KeysAreKeys DEF grant, CoinTypes
<1>2. ASSUME charge(h) \/ refund(h) \/ reserve(h) \/ settle(h)
      PROVE  /\ wallet' \in [User -> Wallet \cup {None}]
             /\ \/ UNCHANGED entry
                \/ \E k \in EntryKey, u \in User, n \in {Price, -Price} : append(k, u, n)
  <2> DEFINE u == call[h].user
             x == call[h].about
             w == ensured(u)
  <2>1. /\ u \in User
        /\ call[h].at \in lyricsSteps => x \in Op
        /\ call[h].at \in jobSteps => x \in Job
    BY <1>2 DEF IdentityInv, RequestsFit, Fits, exists, charge, refund, reserve, settle, at,
                moneySteps
  <2>2. w \in Wallet
    BY <2>1, EnsuredIsWallet
  <2>3. CASE charge(h)
    <3>1. w.available >= Price => [w EXCEPT !.available = @ - Price] \in Wallet
      BY <2>2 DEF Wallet
    <3>2. chargeKey(x) \in EntryKey
      BY <2>1, <2>3, KeysAreKeys DEF charge, at, lyricsSteps
    <3> QED
      BY <2>1, <2>2, <2>3, <3>1, <3>2 DEF charge, CoinTypes
  <2>4. CASE refund(h)
    <3>1. refundKey(x) \in EntryKey
      BY <2>1, <2>4, KeysAreKeys DEF refund, at, lyricsSteps
    <3>2. changed(u, Price, 0) \in [User -> Wallet \cup {None}]
      BY <2>1, ChangedIsWallets
    <3> QED
      BY <2>1, <2>4, <3>1, <3>2 DEF refund, CoinTypes
  <2>5. CASE reserve(h)
    <3>1. w.available >= Price =>
            [available |-> w.available - Price, reserved |-> w.reserved + Price] \in Wallet
      BY <2>2 DEF Wallet
    <3>2. reserveKey(x) \in EntryKey
      BY <2>1, <2>5, KeysAreKeys DEF reserve, at, jobSteps
    <3> QED
      BY <2>1, <2>5, <3>1, <3>2 DEF reserve, CoinTypes
  <2>6. CASE settle(h)
    <3>1. captureKey(x) \in EntryKey /\ releaseKey(x) \in EntryKey
      BY <2>1, <2>6, KeysAreKeys DEF settle, at, jobSteps
    <3>2. /\ changed(u, 0, -Price) \in [User -> Wallet \cup {None}]
          /\ changed(u, Price, -Price) \in [User -> Wallet \cup {None}]
      BY <2>1, ChangedIsWallets
    <3> QED
      BY <2>1, <2>6, <3>1, <3>2 DEF settle
  <2> QED
    BY <1>2, <2>3, <2>4, <2>5, <2>6
<1>3. ASSUME \E k \in EntryKey, u \in User, n \in {Price, -Price} : append(k, u, n)
      PROVE  /\ entry' \in [EntryKey -> Entry \cup {None}]
             /\ \A k \in EntryKey : hasEntry(k) => entry'[k] = entry[k]
  BY <1>3, AppendedIsRow
<1> QED
  BY <1>1, <1>2, <1>3 DEF RowAdded, CoinTypes

(* A merge that commits.                                                    *)
LEMMA DropWalletTypes ==
  ASSUME IdentityInv, CoinTypes, NEW h \in Handler, dropWallet(h)
  PROVE  /\ wallet' \in [User -> Wallet \cup {None}]
         /\ entry' \in [EntryKey -> Entry \cup {None}]
         /\ \A k \in EntryKey : /\ hasEntry(k) <=> entry'[k] # None
                                /\ hasEntry(k) => entry'[k].amount = entry[k].amount
                                /\ k \notin call[h].entries => entry'[k] = entry[k]
                                /\ k \in call[h].entries => entry'[k].user = call[h].target
<1> DEFINE to == call[h].target
           copied == call[h].copied
<1>1. to \in User /\ copied \in Wallet \cup {None}
  BY DEF dropWallet, at, mergeSteps, IdentityInv, IdentityTypes, RequestsFit, Fits, Request
<1>2. \A k \in EntryKey \cap call[h].entries : entry[k] \in Entry
  BY DEF CoinTypes, hasEntry
<1>3. \A k \in EntryKey \cap call[h].entries :
        /\ [entry[k] EXCEPT !.user = to] \in Entry
        /\ [entry[k] EXCEPT !.user = to].user = to
        /\ [entry[k] EXCEPT !.user = to].amount = entry[k].amount
  BY <1>1, <1>2 DEF Entry
<1>4. entry' = [k \in EntryKey |-> IF k \in call[h].entries THEN [entry[k] EXCEPT !.user = to]
                                   ELSE entry[k]]
  BY DEF dropWallet
<1>5. copied # None => [available |-> ensured(to).available + copied.available,
                        reserved |-> ensured(to).reserved + copied.reserved] \in Wallet
  BY <1>1, EnsuredIsWallet DEF Wallet
<1>6. wallet' \in [User -> Wallet \cup {None}]
  BY <1>5 DEF dropWallet, CoinTypes
<1>7. \A k \in EntryKey : /\ entry'[k] \in Entry \cup {None}
                          /\ hasEntry(k) <=> entry'[k] # None
  <2> SUFFICES ASSUME NEW k \in EntryKey
               PROVE  /\ entry'[k] \in Entry \cup {None}
                      /\ hasEntry(k) <=> entry'[k] # None
    OBVIOUS
  <2>1. CASE k \in call[h].entries
    BY <1>3, <1>4, <2>1, RowAssumption DEF CoinTypes, hasEntry
  <2>2. CASE k \notin call[h].entries
    BY <1>4, <2>2 DEF CoinTypes, hasEntry
  <2> QED
    BY <2>1, <2>2
<1> QED
  BY <1>3, <1>4, <1>6, <1>7 DEF CoinTypes

LEMMA CoinStep ==
  ASSUME IdentityInv, CoinTypes, [Next]_vars
  PROVE  CoinTypes' /\ \A k \in EntryKey : hasEntry(k) => entry'[k] # None
<1>1. /\ wallet' \in [User -> Wallet \cup {None}]
      /\ entry' \in [EntryKey -> Entry \cup {None}]
      /\ \A k \in EntryKey : hasEntry(k) => entry'[k] # None
  BY CoinCases, RowAddedTypes, DropWalletTypes DEF CoinsKept, CoinTypes, hasEntry
<1>2. ASSUME NEW g \in Handler, NEW k \in call'[g].entries \cap EntryKey PROVE entry'[k] # None
  <2>1. k \in call[g].entries \/ k \in ownedBy(call[g].user)
    BY <1>2, HeldRows
  <2>2. hasEntry(k)
    BY <1>2, <2>1 DEF CoinTypes, ownedBy, rowsOf, jobRow, EntryKey
  <2> QED
    BY <1>1, <1>2, <2>2
<1> QED
  BY <1>1, <1>2 DEF CoinTypes, hasEntry

-----------------------------------------------------------------------------
(* The keys of the operations are all different.                            *)
LEMMA KeysApart ==
  /\ \A x, y : /\ chargeKey(x) = chargeKey(y) <=> x = y
               /\ refundKey(x) = refundKey(y) <=> x = y
               /\ reserveKey(x) = reserveKey(y) <=> x = y
               /\ releaseKey(x) = releaseKey(y) <=> x = y
               /\ captureKey(x) = captureKey(y) <=> x = y
  /\ \A x, y : /\ chargeKey(x) # refundKey(y) /\ chargeKey(x) # reserveKey(y)
               /\ chargeKey(x) # releaseKey(y) /\ chargeKey(x) # captureKey(y)
               /\ chargeKey(x) # grantKey(y) /\ refundKey(x) # reserveKey(y)
               /\ refundKey(x) # releaseKey(y) /\ refundKey(x) # captureKey(y)
               /\ refundKey(x) # grantKey(y) /\ reserveKey(x) # releaseKey(y)
               /\ reserveKey(x) # captureKey(y) /\ reserveKey(x) # grantKey(y)
               /\ releaseKey(x) # captureKey(y) /\ releaseKey(x) # grantKey(y)
               /\ captureKey(x) # grantKey(y)
BY DEF chargeKey, refundKey, reserveKey, releaseKey, captureKey, grantKey

unsettledSteps == {"llm", "refund"}

(* A step that is of no lyrics call after its charge.                       *)
LyricsKept ==
  /\ UNCHANGED outcome
  /\ \A o \in Op : /\ hasEntry(chargeKey(o))' <=> hasEntry(chargeKey(o))
                   /\ hasEntry(refundKey(o))' <=> hasEntry(refundKey(o))
  /\ \A g \in Handler :
       \/ call'[g] = call[g]
       \/ call[g].at \notin unsettledSteps /\ call'[g].at \notin unsettledSteps

LEMMA LyricsKeptInv ==
  ASSUME IdentityInv, LyricsInv, LyricsKept
  PROVE  LyricsInv'
<1>1. \A g \in Handler : call[g].at \in unsettledSteps => call[g].about \in Op
  BY DEF IdentityInv, RequestsFit, Fits, lyricsSteps, unsettledSteps
<1>2. \A g \in Handler : /\ call'[g].at \in unsettledSteps => call'[g] = call[g]
                         /\ call[g].at \in unsettledSteps => call'[g] = call[g]
  BY DEF LyricsKept
<1>3. \A g \in Handler : call'[g].at \in {"llm", "refund"} => hasEntry(chargeKey(call[g].about))'
                                                              /\ call'[g] = call[g]
  BY <1>1, <1>2 DEF LyricsInv, LyricsKept, unsettledSteps
<1>4. \A g \in Handler : call'[g].at = "refund" => "failed" \in outcome'[call'[g].about]
  BY <1>3 DEF LyricsInv, LyricsKept, at
<1>5. \A o \in Op : hasEntry(refundKey(o))' => hasEntry(chargeKey(o))'
  BY DEF LyricsInv, LyricsKept
<1>6. \A o \in Op : hasEntry(chargeKey(o))' /\ outcome'[o] \subseteq {"failed"} =>
        \/ hasEntry(refundKey(o))'
        \/ \E g \in Handler : call'[g].at \in {"llm", "refund"} /\ call'[g].about = o
  <2> SUFFICES ASSUME NEW o \in Op, hasEntry(chargeKey(o))', outcome'[o] \subseteq {"failed"},
                      ~ hasEntry(refundKey(o))'
               PROVE  \E g \in Handler : call'[g].at \in {"llm", "refund"} /\ call'[g].about = o
    OBVIOUS
  <2>1. PICK g \in Handler : call[g].at \in {"llm", "refund"} /\ call[g].about = o
    BY DEF LyricsInv, LyricsKept
  <2> QED
    BY <1>2, <2>1 DEF unsettledSteps
<1>7. outcome' \in [Op -> SUBSET {"drafted", "failed", "died"}]
  BY DEF LyricsInv, LyricsKept
<1> QED
  BY <1>3, <1>4, <1>5, <1>6, <1>7 DEF LyricsInv, at, hasEntry

LEMMA ChargeLyrics ==
  ASSUME IdentityInv, CoinTypes, LyricsInv, NEW h \in Handler, charge(h)
  PROVE  LyricsInv'
<1> DEFINE x == call[h].about
<1>1. /\ x \in Op /\ call[h].at = "charge" /\ call \in [Handler -> Request] /\ UNCHANGED outcome
      /\ call[h].user \in User
  BY DEF charge, at, IdentityInv, IdentityTypes, RequestsFit, Fits, lyricsSteps, moneySteps, exists
<1>2. CASE ends(h) /\ UNCHANGED entry
  <2>1. \A g \in Handler : call'[g] = call[g] \/ (g = h /\ call'[g].at = "idle")
    BY <1>1, <1>2 DEF ends, Idle
  <2> QED
    BY <1>1, <1>2, <2>1, LyricsKeptInv DEF LyricsKept, hasEntry, unsettledSteps
<1>3. CASE next(h, "llm") /\ (append(chargeKey(x), call[h].user, -Price)
                              \/ (hasEntry(chargeKey(x)) /\ UNCHANGED entry))
  <2>1. \A o \in Op : /\ hasEntry(chargeKey(o))' <=> hasEntry(chargeKey(o)) \/ o = x
                      /\ hasEntry(refundKey(o))' <=> hasEntry(refundKey(o))
    <3>1. CASE hasEntry(chargeKey(x)) /\ UNCHANGED entry
      BY <3>1, KeysApart DEF hasEntry
    <3>2. CASE append(chargeKey(x), call[h].user, -Price)
      BY <1>1, <3>2, AppendedIsRow, KeysAreKeys, KeysApart DEF hasEntry
    <3> QED
      BY <1>3, <3>1, <3>2
  <2>2. \A g \in Handler : /\ call'[g].about = call[g].about
                           /\ call'[g].at = IF g = h THEN "llm" ELSE call[g].at
    BY <1>1, <1>3 DEF next, Request
  <2>3. \A g \in Handler : call[g].at \in {"llm", "refund"} => call[g].about \in Op
    BY DEF IdentityInv, RequestsFit, Fits, lyricsSteps
  <2>4. \A g \in Handler : call'[g].at \in {"llm", "refund"} => entry'[chargeKey(call'[g].about)] # None
    BY <1>1, <2>1, <2>2, <2>3 DEF LyricsInv, hasEntry
  <2>5. \A g \in Handler : call'[g].at = "refund" => "failed" \in outcome'[call'[g].about]
    BY <1>1, <2>2 DEF LyricsInv, at
  <2>6. \A o \in Op : hasEntry(refundKey(o))' => hasEntry(chargeKey(o))'
    BY <2>1 DEF LyricsInv
  <2>7. \A o \in Op : hasEntry(chargeKey(o))' /\ outcome'[o] \subseteq {"failed"} =>
          \/ hasEntry(refundKey(o))'
          \/ \E g \in Handler : call'[g].at \in {"llm", "refund"} /\ call'[g].about = o
    <3> SUFFICES ASSUME NEW o \in Op, hasEntry(chargeKey(o))', outcome'[o] \subseteq {"failed"},
                        ~ hasEntry(refundKey(o))'
                 PROVE  \E g \in Handler : call'[g].at \in {"llm", "refund"} /\ call'[g].about = o
      OBVIOUS
    <3>1. CASE o = x
      BY <2>2, <3>1
    <3>2. CASE o # x
      <4>1. PICK g \in Handler : call[g].at \in {"llm", "refund"} /\ call[g].about = o
        BY <1>1, <2>1, <3>2 DEF LyricsInv
      <4> QED
        BY <2>2, <3>2, <4>1
    <3> QED
      BY <3>1, <3>2
  <2> QED
    BY <1>1, <2>4, <2>5, <2>6, <2>7 DEF LyricsInv, at, hasEntry
<1> QED
  BY <1>2, <1>3 DEF charge

(* The answer of the LLM, or the end of a call that waits for it.           *)
LEMMA OutcomeLyrics ==
  ASSUME IdentityInv, LyricsInv, NEW h \in Handler, UNCHANGED entry, call[h].at \in {"llm", "refund"},
         NEW end \in {"drafted", "failed", "died"},
         outcome' = [outcome EXCEPT ![call[h].about] = @ \cup {end}],
         \/ end # "failed" /\ ends(h)
         \/ end = "failed" /\ next(h, "refund")
  PROVE  LyricsInv'
<1> DEFINE x == call[h].about
<1>1. /\ x \in Op /\ call \in [Handler -> Request]
      /\ outcome \in [Op -> SUBSET {"drafted", "failed", "died"}]
  BY DEF IdentityInv, IdentityTypes, RequestsFit, Fits, lyricsSteps, LyricsInv
<1>2. /\ outcome' \in [Op -> SUBSET {"drafted", "failed", "died"}]
      /\ \A o \in Op : outcome'[o] = IF o = x THEN outcome[o] \cup {end} ELSE outcome[o]
  BY <1>1
<1>3. \A g \in Handler : /\ g # h => call'[g] = call[g]
                         /\ end = "failed" => call'[h].at = "refund" /\ call'[h].about = x
                         /\ end # "failed" => call'[h].at = "idle"
  BY <1>1 DEF ends, next, Idle, Request
<1>4. \A g \in Handler : call[g].at \in {"llm", "refund"} => call[g].about \in Op
  BY DEF IdentityInv, RequestsFit, Fits, lyricsSteps
<1>5. \A k : hasEntry(k)' <=> hasEntry(k)
  BY DEF hasEntry
<1>6. \A g \in Handler : call'[g].at \in {"llm", "refund"} => hasEntry(chargeKey(call'[g].about))
  BY <1>3 DEF LyricsInv
<1>7. \A g \in Handler : call'[g].at = "refund" => "failed" \in outcome'[call'[g].about]
  BY <1>1, <1>2, <1>3, <1>4 DEF LyricsInv, at
<1>8. \A o \in Op : hasEntry(chargeKey(o)) /\ outcome'[o] \subseteq {"failed"} =>
        \/ hasEntry(refundKey(o))
        \/ \E g \in Handler : call'[g].at \in {"llm", "refund"} /\ call'[g].about = o
  <2> SUFFICES ASSUME NEW o \in Op, hasEntry(chargeKey(o)), outcome'[o] \subseteq {"failed"},
                      ~ hasEntry(refundKey(o))
               PROVE  \E g \in Handler : call'[g].at \in {"llm", "refund"} /\ call'[g].about = o
    OBVIOUS
  <2>1. PICK g \in Handler : call[g].at \in {"llm", "refund"} /\ call[g].about = o
    BY <1>2 DEF LyricsInv
  <2>2. CASE g # h
    BY <1>3, <2>1, <2>2
  <2>3. CASE g = h
    BY <1>2, <1>3, <2>1, <2>3
  <2> QED
    BY <2>2, <2>3
<1> QED
  BY <1>2, <1>5, <1>6, <1>7, <1>8 DEF LyricsInv, at, hasEntry

LEMMA RefundLyrics ==
  ASSUME IdentityInv, CoinTypes, LyricsInv, NEW h \in Handler, refund(h)
  PROVE  LyricsInv'
<1> DEFINE x == call[h].about
<1>1. /\ x \in Op /\ call[h].at = "refund" /\ call \in [Handler -> Request] /\ UNCHANGED outcome
      /\ call[h].user \in User
  BY DEF refund, at, IdentityInv, IdentityTypes, RequestsFit, Fits, lyricsSteps, moneySteps, exists
<1>2. \A o \in Op : /\ hasEntry(chargeKey(o))' <=> hasEntry(chargeKey(o))
                    /\ hasEntry(refundKey(o))' <=> hasEntry(refundKey(o)) \/ o = x
  <2>1. CASE hasEntry(refundKey(x)) /\ UNCHANGED entry
    BY <2>1, KeysApart DEF hasEntry
  <2>2. CASE append(refundKey(x), call[h].user, Price)
    BY <1>1, <2>2, AppendedIsRow, KeysAreKeys, KeysApart DEF hasEntry
  <2> QED
    BY <2>1, <2>2 DEF refund
<1>3. \A g \in Handler : /\ g # h => call'[g] = call[g]
                         /\ call'[h].at = "idle"
  BY <1>1 DEF refund, ends, Idle
<1>4. \A g \in Handler : call[g].at \in {"llm", "refund"} => call[g].about \in Op
  BY DEF IdentityInv, RequestsFit, Fits, lyricsSteps
<1>5. \A g \in Handler : call'[g].at \in {"llm", "refund"} => entry'[chargeKey(call'[g].about)] # None
  BY <1>2, <1>3, <1>4 DEF LyricsInv, hasEntry
<1>6. \A g \in Handler : call'[g].at = "refund" => "failed" \in outcome'[call'[g].about]
  BY <1>1, <1>3 DEF LyricsInv, at
<1>7. \A o \in Op : hasEntry(refundKey(o))' => hasEntry(chargeKey(o))'
  BY <1>1, <1>2 DEF LyricsInv
<1>8. \A o \in Op : hasEntry(chargeKey(o))' /\ outcome'[o] \subseteq {"failed"} =>
        \/ hasEntry(refundKey(o))'
        \/ \E g \in Handler : call'[g].at \in {"llm", "refund"} /\ call'[g].about = o
  <2> SUFFICES ASSUME NEW o \in Op, hasEntry(chargeKey(o))', outcome'[o] \subseteq {"failed"},
                      ~ hasEntry(refundKey(o))'
               PROVE  \E g \in Handler : call'[g].at \in {"llm", "refund"} /\ call'[g].about = o
    OBVIOUS
  <2>1. PICK g \in Handler : call[g].at \in {"llm", "refund"} /\ call[g].about = o
    BY <1>1, <1>2 DEF LyricsInv
  <2> QED
    BY <1>2, <1>3, <2>1
<1> QED
  BY <1>1, <1>5, <1>6, <1>7, <1>8 DEF LyricsInv, at, hasEntry

(* Everything else is of no lyrics call after its charge.                   *)
LEMMA RequestsKept ==
  ASSUME IdentityInv, [Next]_vars, \A h \in Handler : ~ (charge(h) \/ llm(h) \/ refund(h) \/ abort(h)),
         NEW g \in Handler
  PROVE  \/ call'[g] = call[g]
         \/ call[g].at \notin unsettledSteps /\ call'[g].at \notin unsettledSteps
<1> DEFINE kept == \/ call'[g] = call[g]
                   \/ call[g].at \notin unsettledSteps /\ call'[g].at \notin unsettledSteps
<1> USE DEF unsettledSteps
<1>1. call \in [Handler -> Request]
  BY DEF IdentityInv, IdentityTypes
<1>2. ASSUME NEW h \in Handler, ends(h), call[h].at \notin unsettledSteps PROVE kept
  BY <1>1, <1>2 DEF ends, Idle
<1>3. ASSUME NEW h \in Handler, NEW x \in {"reread", "promote", "insertJob"}, next(h, x),
             call[h].at \notin unsettledSteps
      PROVE kept
  BY <1>1, <1>3 DEF next, Request
<1>4. ASSUME NEW h \in Handler, NEW x \in {"claim", "findApple", "charge", "reserve", "settle"},
             NEW u, NEW a, begin(h, x, u, a), at(h, "idle")
      PROVE  kept
  BY <1>1, <1>4 DEF begin, Idle, at
<1>5. CASE UNCHANGED call
  BY <1>5
<1>6. ASSUME NEW h \in Handler, newCall(h) PROVE kept
  <2>1. ASSUME NEW d, create_guest(h, d) PROVE kept
    BY <2>1, <1>4, <1>5 DEF create_guest
  <2>2. ASSUME NEW t, NEW p, grant(h, t, p) PROVE kept
    BY <2>2, <1>5 DEF grant
  <2>3. ASSUME NEW t, logout(h, t) PROVE kept
    BY <2>3, <1>5 DEF logout
  <2> QED
    BY <1>4, <1>6, <2>1, <2>2, <2>3 DEF newCall, sign_in_with_apple, askLyrics, askJob
<1>7. ASSUME NEW h \in Handler, settleJob(h) PROVE kept
  BY <1>4, <1>7 DEF settleJob, readJob
<1>8. ASSUME NEW h \in Handler, claim(h) \/ reread(h) \/ promote(h) PROVE kept
  BY <1>2, <1>3, <1>8 DEF claim, reread, promote, at
<1>9. ASSUME NEW h \in Handler, findApple(h) PROVE kept
  <2>1. CASE \E v : call' = [call EXCEPT ![h].at = "promote", ![h].user = v]
    BY <1>1, <1>9, <2>1 DEF Request, findApple, at
  <2>2. CASE \E v : call' = [call EXCEPT ![h].at = "moveSessions", ![h].target = v]
    BY <1>1, <1>9, <2>2 DEF Request, findApple, at
  <2> QED
    BY <1>2, <1>3, <1>9, <2>1, <2>2 DEF findApple, at
<1>10. ASSUME NEW h \in Handler, reserve(h) \/ insertJob(h) \/ settle(h) PROVE kept
  BY <1>2, <1>3, <1>10 DEF reserve, insertJob, settle, at
<1>11. ASSUME NEW h \in Handler, merge(h) PROVE kept
  <2>1. CASE \E m : call' = [call EXCEPT ![h].at = "moveRows", ![h].moved = m]
    BY <1>1, <1>11, <2>1 DEF Request, merge, moveSessions, moveRows, copyWallet, dropWallet, at
  <2>2. CASE \E w : call' = [call EXCEPT ![h].at = "dropWallet", ![h].copied = w]
    BY <1>1, <1>11, <2>2 DEF Request, merge, moveSessions, moveRows, copyWallet, dropWallet, at
  <2>3. CASE \E r : call' = [call EXCEPT ![h].at = "copyWallet", ![h].entries = r]
    BY <1>1, <1>11, <2>3 DEF Request, merge, moveSessions, moveRows, copyWallet, dropWallet, at
  <2> QED
    BY <1>2, <1>11, <2>1, <2>2, <2>3 DEF merge, moveSessions, moveRows, copyWallet, dropWallet, at
<1> QED
  BY <1>5, <1>6, <1>7, <1>8, <1>9, <1>10, <1>11 DEF Next, serve, coins, vars

LEMMA LyricsStep ==
  ASSUME IdentityInv, CoinTypes, LyricsInv, [Next]_vars
  PROVE  LyricsInv'
<1>1. ASSUME NEW h \in Handler, charge(h) PROVE LyricsInv'
  BY <1>1, ChargeLyrics
<1>2. ASSUME NEW h \in Handler, llm(h) PROVE LyricsInv'
  <2>1. UNCHANGED entry /\ call[h].at \in {"llm", "refund"}
    BY <1>2 DEF llm, at
  <2>2. \E end \in {"drafted", "failed", "died"} :
          /\ outcome' = [outcome EXCEPT ![call[h].about] = @ \cup {end}]
          /\ \/ end # "failed" /\ ends(h)
             \/ end = "failed" /\ next(h, "refund")
    BY <1>2 DEF llm
  <2> QED
    BY <2>1, <2>2, OutcomeLyrics
<1>3. ASSUME NEW h \in Handler, refund(h) PROVE LyricsInv'
  BY <1>3, RefundLyrics
<1>4. ASSUME NEW h \in Handler, abort(h) PROVE LyricsInv'
  <2>1. CASE call[h].at \in {"llm", "refund"}
    BY <1>4, <2>1, OutcomeLyrics DEF abort
  <2>2. CASE call[h].at \notin {"llm", "refund"}
    <3>1. \A g \in Handler : call'[g] = call[g] \/ (g = h /\ call'[g].at = "idle")
      BY <1>4 DEF abort, ends, Idle, IdentityInv, IdentityTypes
    <3>2. UNCHANGED <<entry, outcome>>
      BY <1>4, <2>2 DEF abort
    <3> QED
      BY <2>2, <3>1, <3>2, LyricsKeptInv DEF LyricsKept, hasEntry, unsettledSteps
  <2> QED
    BY <2>1, <2>2
<1>5. CASE \A h \in Handler : ~ (charge(h) \/ llm(h) \/ refund(h) \/ abort(h))
  <2>1. \A g \in Handler : \/ call'[g] = call[g]
                           \/ call[g].at \notin unsettledSteps /\ call'[g].at \notin unsettledSteps
    BY <1>5, RequestsKept
  <2>2. UNCHANGED outcome
    BY <1>5 DEF Next, newCall, settleJob, serve, coins, merge, grant, askLyrics, askJob, readJob,
       reserve, insertJob, settle, moveSessions, moveRows, copyWallet, dropWallet, coinVars, vars
  <2>3. \A o \in Op : /\ hasEntry(chargeKey(o))' <=> hasEntry(chargeKey(o))
                      /\ hasEntry(refundKey(o))' <=> hasEntry(refundKey(o))
    <3>1. CASE CoinsKept
      BY <3>1 DEF CoinsKept, hasEntry
    <3>2. ASSUME NEW h \in Handler, dropWallet(h)
          PROVE  \A k \in EntryKey : hasEntry(k)' <=> hasEntry(k)
      BY <3>2, DropWalletTypes DEF hasEntry
    <3>3. ASSUME NEW k \in EntryKey, NEW u \in User, NEW n \in {Price, -Price}, append(k, u, n),
                 \A o \in Op : k # chargeKey(o) /\ k # refundKey(o)
          PROVE  \A o \in Op : /\ hasEntry(chargeKey(o))' <=> hasEntry(chargeKey(o))
                               /\ hasEntry(refundKey(o))' <=> hasEntry(refundKey(o))
      BY <3>3, AppendedIsRow, KeysAreKeys DEF hasEntry
    <3>4. ASSUME NEW h \in Handler, RowAdded(h)
          PROVE  \/ UNCHANGED entry
                 \/ \E k \in EntryKey, u \in User, n \in {Price, -Price} :
                      append(k, u, n) /\ \A o \in Op : k # chargeKey(o) /\ k # refundKey(o)
      <4>1. ASSUME NEW t \in Token, NEW p \in Purchase, grant(h, t, p)
            PROVE  userOf(t) \in User /\ append(grantKey(p), userOf(t), Price)
        BY <4>1, TokenUser DEF grant
      <4>2. reserve(h) \/ settle(h) => call[h].user \in User /\ call[h].about \in Job
        BY DEF reserve, settle, at, IdentityInv, RequestsFit, Fits, jobSteps, moneySteps, exists
      <4>3. CASE \E t \in Token, p \in Purchase : grant(h, t, p)
        BY <4>1, <4>3, KeysApart, KeysAreKeys
      <4>4. CASE reserve(h)
        <5>1. UNCHANGED entry \/ append(reserveKey(call[h].about), call[h].user, -Price)
          BY <4>4 DEF reserve
        <5>2. call[h].user \in User /\ call[h].about \in Job
          BY <4>2, <4>4
        <5> QED
          BY <5>1, <5>2, KeysApart, KeysAreKeys
      <4>5. CASE settle(h)
        BY <4>2, <4>5, KeysApart, KeysAreKeys DEF settle
      <4> QED
        BY <1>5, <3>4, <4>3, <4>4, <4>5 DEF RowAdded
    <3> QED
      BY <3>1, <3>2, <3>3, <3>4, CoinCases, KeysAreKeys DEF hasEntry
  <2> QED
    BY <2>1, <2>2, <2>3, LyricsKeptInv DEF LyricsKept
<1> QED
  BY <1>1, <1>2, <1>3, <1>4, <1>5

-----------------------------------------------------------------------------
AccountsInv == IdentityInv /\ WorkloadTyped /\ CoinTypes /\ LyricsInv

LEMMA AccountsInit == Init => AccountsInv
<1> SUFFICES ASSUME Init PROVE AccountsInv
  OBVIOUS
<1> USE DEF Init, IdentityInit, CoinInit
<1>1. IdentityTypes
  BY IdleFits DEF IdentityTypes, SessionRow, NoSession
<1>2. UsersExist /\ SameGuest
  BY DEF UsersExist, SameGuest, NoSession
<1>3. \A h \in Handler : call[h] = Idle
  OBVIOUS
<1>4. RequestsFit /\ UnbornAlone /\ MovedHeld
  BY <1>3, IdleFits DEF RequestsFit, UnbornAlone, MovedHeld
<1>5. WorkloadTyped
  BY BoundAssumption DEF WorkloadTyped
<1>6. CoinTypes
  BY <1>3 DEF CoinTypes, Idle
<1>7. LyricsInv
  BY <1>3, KeysAreKeys DEF LyricsInv, Idle, at, hasEntry
<1> QED
  BY <1>1, <1>2, <1>4, <1>5, <1>6, <1>7 DEF IdentityInv, AccountsInv

LEMMA AccountsStep == AccountsInv /\ [Next]_vars => AccountsInv'
BY IdentityStep, WorkloadStep, CoinStep, LyricsStep DEF AccountsInv, CoinTypes

LEMMA AccountsAlways == Spec => []AccountsInv
BY AccountsInit, AccountsStep, PTL DEF Spec

(* The rows of users, identities, sessions, wallets and the ledger stay well *)
(* typed; the account of an Apple ID is permanent and a session's user is    *)
(* never one that was rolled back.                                           *)
THEOREM AccountsTypeCorrect == Spec => []AccountsTypeOK
<1>1. AccountsInv => AccountsTypeOK
  BY DEF AccountsInv, IdentityInv, IdentityTypes, UsersExist, CoinTypes, AccountsTypeOK, exists
<1> QED
  BY <1>1, AccountsAlways, PTL

(* A device finds one guest however many of its cold starts overlap.        *)
THEOREM DeviceFindsItsGuest == Spec => []SameGuest
<1>1. AccountsInv => SameGuest
  BY DEF AccountsInv, IdentityInv
<1> QED
  BY <1>1, AccountsAlways, PTL

(* A lyrics key is refunded once, and when nothing came of its calls, with  *)
(* the users they were made for merged away or not.                         *)
THEOREM LyricsRefunded == Spec => []LyricsSettled
<1>1. AccountsInv => LyricsSettled
  BY DEF AccountsInv, LyricsInv, LyricsSettled
<1> QED
  BY <1>1, AccountsAlways, PTL

-----------------------------------------------------------------------------
(* What a step does to the rows of users and Apple IDs.                     *)
LEMMA KindsOnlyGrow ==
  ASSUME IdentityInv, [Next]_vars
  PROVE  /\ \A s \in AppleId : appleOf[s] # NoUser => appleOf'[s] = appleOf[s]
         /\ \A u \in User : kind[u] = "apple" => kind'[u] = "apple"
<1> DEFINE stay == /\ \A s \in AppleId : appleOf[s] # NoUser => appleOf'[s] = appleOf[s]
                   /\ \A u \in User : kind[u] = "apple" => kind'[u] = "apple"
<1>1. kind \in [User -> {"absent", "guest", "apple"}] /\ appleOf \in [AppleId -> User \cup {NoUser}]
  BY DEF IdentityInv, IdentityTypes
<1>2. CASE UNCHANGED <<kind, appleOf>>
  BY <1>2
<1>3. ASSUME NEW h \in Handler, NEW d \in Device \cup {None}, create_guest(h, d) PROVE stay
  <2>1. ASSUME NEW u \in User, newUser(u), kind' = [kind EXCEPT ![u] = "guest"]
        PROVE  \A v \in User : kind[v] = "apple" => kind'[v] = "apple"
    BY <1>1, <2>1, NewUserUnborn
  <2> QED
    BY <1>3, <2>1 DEF create_guest
<1>4. ASSUME NEW h \in Handler, claim(h) \/ reread(h) PROVE stay
  <2>1. kind[call[h].user] = "absent" \/ UNCHANGED kind
    BY <1>4 DEF claim, reread, at, IdentityInv, RequestsFit, Fits, guestSteps, exists
  <2> QED
    BY <1>1, <1>4, <2>1 DEF claim, reread
<1>5. ASSUME NEW h \in Handler, promote(h) PROVE stay
  BY <1>1, <1>5 DEF promote
<1>6. ASSUME NEW h \in Handler, newCall(h) PROVE stay
  BY <1>2, <1>3, <1>6 DEF newCall, sign_in_with_apple, logout, identityVars
<1>7. ASSUME NEW h \in Handler, serve(h) PROVE stay
  <2>1. CASE findApple(h) \/ merge(h) \/ (coins(h) /\ UNCHANGED identityVars)
    BY <1>2, <2>1 DEF findApple, merge, moveSessions, moveRows, copyWallet, dropWallet, identityVars
  <2>2. CASE claim(h) \/ reread(h)
    BY <1>4, <2>2
  <2>3. CASE promote(h)
    BY <1>5, <2>3
  <2> QED
    BY <1>7, <2>1, <2>2, <2>3 DEF serve
<1>8. ASSUME NEW h \in Handler, settleJob(h) \/ abort(h) PROVE stay
  BY <1>2, <1>8 DEF settleJob, abort, identityVars
<1> QED
  BY <1>2, <1>6, <1>7, <1>8 DEF Next, vars, identityVars

(* An Apple ID keeps its account for ever.                                  *)
THEOREM AccountsAreKept == Spec => AccountsStay
<1>1. AccountsInv /\ [Next]_vars =>
        [/\ \A s \in AppleId : appleOf[s] # NoUser => appleOf'[s] = appleOf[s]
         /\ \A u \in User : kind[u] = "apple" => kind'[u] = "apple"]_vars
  BY KindsOnlyGrow DEF AccountsInv
<1> QED
  BY <1>1, AccountsAlways, PTL DEF Spec, AccountsStay

(* A token that was logged out is never valid again: a new session takes a   *)
(* row not used before, and the rows a merge writes keep their revoked_at.   *)
LEMMA RevokedIsLast ==
  ASSUME IdentityInv, [Next]_vars, NEW t \in Token, session[t].revoked
  PROVE  session'[t].revoked
<1> DEFINE last == session'[t].revoked
<1>1. session[t] # NoSession
  BY DEF NoSession
<1>2. session \in [Token -> SessionRow]
  BY DEF IdentityInv, IdentityTypes
<1>3. CASE UNCHANGED session
  BY <1>3
<1>4. ASSUME NEW base, NEW u, NEW d, base \in [Token -> SessionRow], base[t].revoked,
             openSession(base, u, d)
      PROVE  last
  <2>1. PICK n \in Token :
               /\ session[n] = NoSession
               /\ session' = [base EXCEPT ![n] = [user |-> u, device |-> d, revoked |-> FALSE]]
    BY <1>4, SessionOpened
  <2>2. t # n
    BY <1>1, <2>1
  <2> QED
    BY <1>4, <2>1, <2>2
<1>5. ASSUME NEW h \in Handler, dropWallet(h) PROVE last
  <2>1. call[h].target \in User
    BY <1>5 DEF dropWallet, at, mergeSteps, IdentityInv, RequestsFit, Fits
  <2>2. reassigned(h) \in [Token -> SessionRow]
    BY <1>2, <2>1 DEF reassigned, SessionRow
  <2>3. reassigned(h)[t].revoked
    BY <1>2 DEF reassigned, SessionRow
  <2>4. openSession(reassigned(h), call[h].target, None)
    BY <1>5 DEF dropWallet
  <2> QED
    BY <1>4, <2>2, <2>3, <2>4
<1>6. ASSUME NEW h \in Handler, NEW n \in Token, logout(h, n) PROVE last
  BY <1>2, <1>6 DEF logout, SessionRow
<1>7. ASSUME NEW h \in Handler, newCall(h) PROVE last
  <2>1. ASSUME NEW d, create_guest(h, d) PROVE last
    BY <1>2, <1>3, <1>4, <2>1 DEF create_guest
  <2> QED
    BY <1>3, <1>6, <1>7, <2>1 DEF newCall, sign_in_with_apple, identityVars
<1>8. ASSUME NEW h \in Handler, serve(h) PROVE last
  <2>1. CASE claim(h) \/ reread(h) \/ findApple(h) \/ promote(h)
    BY <1>2, <1>3, <1>4, <2>1 DEF claim, reread, findApple, promote
  <2>2. CASE coins(h) /\ UNCHANGED identityVars
    BY <1>3, <2>2 DEF identityVars
  <2>3. CASE merge(h)
    BY <1>3, <1>5, <2>3 DEF merge, moveSessions, moveRows, copyWallet, identityVars
  <2> QED
    BY <1>8, <2>1, <2>2, <2>3 DEF serve
<1>9. ASSUME NEW h \in Handler, settleJob(h) \/ abort(h) PROVE last
  BY <1>3, <1>9 DEF settleJob, abort, identityVars
<1> QED
  BY <1>3, <1>7, <1>8, <1>9 DEF Next, vars, identityVars

(* A logout lasts, whatever merges of its user come after it.               *)
THEOREM LogoutHolds == Spec => LogoutLasts
<1>1. AccountsInv /\ [Next]_vars =>
        [\A t \in Token : session[t].revoked => session'[t].revoked]_vars
  BY RevokedIsLast DEF AccountsInv
<1> QED
  BY <1>1, AccountsAlways, PTL DEF Spec, LogoutLasts
=============================================================================
