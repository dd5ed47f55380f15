------------------------------ MODULE Accounts ------------------------------
(***************************************************************************)
(* Devices and Apple IDs sign in while their users spend and earn: the     *)
(* merge of the signed-in user into the account of the Apple ID, with the  *)
(* requests and jobs that run at the same time.                            *)
(***************************************************************************)
EXTENDS AccountCoins

CONSTANT Workloads   \* bounds: what one behaviour may ask for

(* deaths are requests that die for other reasons than a deadlock.          *)
ASSUME BoundAssumption ==
  Workloads \subseteq
    [guests : Nat, signIns : Nat, logouts : Nat, moneyCalls : Nat, deaths : Nat,
     money : SUBSET {"grant", "lyrics", "job"}, subs : SUBSET AppleId, noDevice : BOOLEAN]

VARIABLE workload   \* what is left of the bounds

vars == <<identityVars, coinVars, call, workload>>

Init ==
  /\ IdentityInit /\ CoinInit
  /\ workload \in Workloads

-----------------------------------------------------------------------------
(* reassign_user: waits for session rows another open merge has moved, then *)
(* moves those that still are the user's, revoked ones too.                 *)
moveSessions(h) ==
  LET mine == {t \in Token : session[t].user = call[h].user} IN
  /\ at(h, "moveSessions")
  /\ \A g \in Handler \ {h} : call[g].moved \cap mine = {}
  /\ call' = [call EXCEPT ![h].at = "moveRows", ![h].moved = mine]
  /\ UNCHANGED <<identityVars, coinVars>>

(* _reassign_simple: jobs, ledger rows and purchases of the user, likewise. *)
rowsOf(u) == {k \in EntryKey : hasEntry(k) /\ entry[k].user = u}
jobRow(j) == <<"job", j>>
ownedBy(u) == rowsOf(u) \cup {jobRow(j) : j \in {i \in Job : jobUser[i] = u}}

moveRows(h) ==
  /\ at(h, "moveRows")
  /\ \A g \in Handler \ {h} : call[g].entries \cap ownedBy(call[h].user) = {}
  /\ call' = [call EXCEPT ![h].at = "copyWallet", ![h].entries = ownedBy(call[h].user)]
  /\ UNCHANGED <<identityVars, coinVars>>

(* INSERT ... SELECT: the user's row is read without a lock, the target's   *)
(* is made or added to, and held.                                           *)
copyWallet(h) ==
  LET u == call[h].user IN
  /\ at(h, "copyWallet") /\ walletFree(h, call[h].target)
  /\ call' = [call EXCEPT ![h].at = "dropWallet", ![h].copied = wallet[u]]
  /\ UNCHANGED <<identityVars, coinVars>>

(* Mutant: the target gets sessions that are good again.                    *)
revived(h) ==
  [t \in Token |-> IF t \in call[h].moved
                   THEN [session[t] EXCEPT !.user = call[h].target, !.revoked = FALSE]
                   ELSE session[t]]

(* What reassign_user has made of the rows: user_id, and no other column.   *)
reassigned(h) ==
  [t \in Token |-> IF t \in call[h].moved THEN [session[t] EXCEPT !.user = call[h].target]
                   ELSE session[t]]

(* Mutant: the user's wallet stays.                                         *)
keepWallet(h) ==
  LET u == call[h].user  to == call[h].target  copied == call[h].copied IN
  /\ at(h, "dropWallet") /\ walletFree(h, u)
  /\ openSession(reassigned(h), to, None)
  /\ entry' = [k \in EntryKey |-> IF k \in call[h].entries THEN [entry[k] EXCEPT !.user = to]
                                  ELSE entry[k]]
  /\ jobUser' = [j \in Job |-> IF jobRow(j) \in call[h].entries THEN to ELSE jobUser[j]]
  /\ wallet' = [v \in User |->
                  IF v = to /\ copied # None
                    THEN [available |-> ensured(to).available + copied.available,
                          reserved |-> ensured(to).reserved + copied.reserved]
                    ELSE wallet[v]]
  /\ ends(h)
  /\ UNCHANGED <<kind, guestOf, appleOf, outcome, overtaken>>

(* A request for money that began as the user, or another merge into it,    *)
(* is overtaken by this merge.                                              *)
moneySteps == {"charge", "llm", "refund", "reserve", "insertJob", "settle"}
overtakes(h) ==
  LET u == call[h].user  to == call[h].target IN
  {v \in {u} : \E g \in Handler \ {h} : call[g].user = u /\ call[g].at \in moneySteps}
  \cup {v \in {to} : \E g \in Handler \ {h} : call[g].user = to /\ merging(g)}
  \cup {v \in {u} : \E g \in Handler \ {h} : call[g].target = u}

(* DELETE of the user's wallet, whatever it holds by now, the new session,  *)
(* and the commit.                                                          *)
dropWallet(h) ==
  LET u == call[h].user  to == call[h].target  copied == call[h].copied IN
  /\ at(h, "dropWallet") /\ walletFree(h, u)
  /\ openSession(reassigned(h), to, None)
  /\ entry' = [k \in EntryKey |-> IF k \in call[h].entries THEN [entry[k] EXCEPT !.user = to]
                                  ELSE entry[k]]
  /\ jobUser' = [j \in Job |-> IF jobRow(j) \in call[h].entries THEN to ELSE jobUser[j]]
  /\ wallet' = [v \in User |->
                  IF v = u THEN None
                  ELSE IF v = to /\ copied # None
                    THEN [available |-> ensured(to).available + copied.available,
                          reserved |-> ensured(to).reserved + copied.reserved]
                    ELSE wallet[v]]
  /\ overtaken' = overtaken \cup overtakes(h)
  /\ ends(h)
  /\ UNCHANGED <<kind, guestOf, appleOf, outcome>>

merge(h) == moveSessions(h) \/ moveRows(h) \/ copyWallet(h) \/ dropWallet(h)

-----------------------------------------------------------------------------
uses(bound) ==
  /\ workload[bound] > 0
  /\ workload' = [workload EXCEPT ![bound] = @ - 1]

newCall(h) ==
  \/ /\ uses("guests")
     /\ \E d \in Device \cup {None} : (d = None => workload.noDevice) /\ create_guest(h, d)
     /\ UNCHANGED coinVars
  \/ /\ uses("signIns")
     /\ \E t \in Token \cup {None}, s \in workload.subs : sign_in_with_apple(h, t, s)
     /\ UNCHANGED coinVars
  \/ /\ uses("logouts")
     /\ \E t \in Token : logout(h, t)
     /\ UNCHANGED coinVars
  \/ /\ uses("moneyCalls")
     /\ \E t \in Token :
          \/ "grant" \in workload.money /\ \E p \in Purchase : grant(h, t, p)
          \/ "lyrics" \in workload.money /\ \E o \in Op : askLyrics(h, t, o)
          \/ "job" \in workload.money /\ \E j \in Job : askJob(h, t, j)
     /\ UNCHANGED identityVars

settleJob(h) ==
  /\ \E j \in Job : readJob(h, j)
  /\ UNCHANGED <<identityVars, workload>>

serve(h) ==
  /\ \/ (claim(h) \/ reread(h) \/ findApple(h) \/ promote(h)) /\ UNCHANGED coinVars
     \/ coins(h) /\ UNCHANGED identityVars
     \/ merge(h)
  /\ UNCHANGED workload

-----------------------------------------------------------------------------
(* The requests h waits for, and cycles of them.                            *)
waitsFor(h) ==
  {g \in Handler \ {h} :
     \/ at(h, "moveSessions")
        /\ call[g].moved \cap {t \in Token : session[t].user = call[h].user} # {}
     \/ at(h, "moveRows") /\ call[g].entries \cap ownedBy(call[h].user) # {}
     \/ /\ call[g].copied # None
        /\ \/ at(h, "copyWallet") /\ call[g].target = call[h].target
           \/ at(h, "dropWallet") /\ call[g].target = call[h].user}

deadlocked(h) ==
  \E H \in SUBSET Handler : h \in H /\ \A g \in H : waitsFor(g) \cap H # {}

(* A request dies: its open transaction is rolled back.  A lyrics call that *)
(* dies after its charge is not refunded, a job that was not inserted is    *)
(* never settled (ADR-010 and ADR-003 accept both).                         *)
abort(h) ==
  /\ ~ at(h, "idle")
  /\ (deadlocked(h) /\ UNCHANGED workload) \/ uses("deaths")
  /\ outcome' = IF call[h].at \in {"llm", "refund"}
                  THEN [outcome EXCEPT ![call[h].about] = @ \cup {"died"}] ELSE outcome
  /\ ends(h)
  /\ UNCHANGED <<identityVars, wallet, entry, jobUser, overtaken>>

Next == \E h \in Handler : newCall(h) \/ settleJob(h) \/ serve(h) \/ abort(h)

Spec == Init /\ [][Next]_vars

(* The event loop goes on with every request, and PostgreSQL breaks every   *)
(* deadlock.                                                                *)
FairSpec ==
  Spec /\ \A h \in Handler : WF_vars(serve(h)) /\ WF_vars(deadlocked(h) /\ abort(h))

-----------------------------------------------------------------------------
(* Types, and: only a permanent user has an Apple ID, and a session's user  *)
(* exists.                                                                  *)
AccountsTypeOK ==
  /\ kind \in [User -> {"absent", "guest", "apple"}]
  /\ guestOf \in [Device -> User \cup {NoUser}]
  /\ appleOf \in [AppleId -> User \cup {NoUser}]
  /\ \A s \in AppleId : appleOf[s] # NoUser => kind[appleOf[s]] = "apple"
  /\ \A t \in Token : session[t].user # NoUser => kind[session[t].user] # "absent"
  /\ wallet \in [User -> Wallet \cup {None}]
  /\ entry \in [EntryKey -> Entry \cup {None}]
  /\ jobUser \in [Job -> User \cup {NoUser}]

(* Every guest session a device id was named for is of the one guest that   *)
(* the device id finds, while that guest has not been promoted.             *)
SameGuest ==
  \A t \in Token :
    LET d == session[t].device IN
    d # None /\ isGuest(session[t].user) =>
      session[t].user = guestOf[d] \/ (guestOf[d] # NoUser /\ ~ isGuest(guestOf[d]))

(* An Apple ID never changes its account, and a permanent user stays one.   *)
AccountsStay ==
  [][/\ \A s \in AppleId : appleOf[s] # NoUser => appleOf'[s] = appleOf[s]
     /\ \A u \in User : kind[u] = "apple" => kind'[u] = "apple"]_vars

(* A token that was logged out is never valid again, although every merge   *)
(* of its user writes its row once more, before or after the logout.        *)
LogoutLasts ==
  [][\A t \in Token : session[t].revoked => session'[t].revoked]_vars

-----------------------------------------------------------------------------
settled(j) == hasEntry(releaseKey(j)) \/ hasEntry(captureKey(j))

(* What the ledger says a user has: every row is of Price coins, a capture  *)
(* takes from what was reserved.                                            *)
worth(rows) == Price * Cardinality(rows)
credits(u) == {k \in rowsOf(u) : entry[k].amount = Price}
debits(u) == {k \in rowsOf(u) : entry[k].amount = -Price /\ k[1] # "capture"}
holds(u) == {k \in rowsOf(u) : k[1] = "reserve" /\ ~ settled(k[2])}
ledgerAvailable(u) == worth(credits(u)) - worth(debits(u))
ledgerReserved(u) == worth(holds(u))

(* Every wallet holds what the ledger says of its user, merged or not, as   *)
(* long as nobody's money moved while that user was being merged away.      *)
WalletsMatchLedger ==
  overtaken = {} =>
    \A u \in User : ensured(u) = [available |-> ledgerAvailable(u),
                                  reserved |-> ledgerReserved(u)]

(* "Without loss of progress": the wallets together hold every coin that    *)
(* was granted or refunded and not spent, whatever was merged meanwhile.    *)
MergeKeepsCoins ==
  MapThenSumSet(LAMBDA u : ensured(u).available + ensured(u).reserved, User)
    = MapThenSumSet(LAMBDA k : entry[k].amount,
                    {k \in EntryKey : hasEntry(k) /\ k[1] \notin {"reserve", "release"}})

(* A lyrics key pays for at most one refund of what it was charged, and all *)
(* of it when none of its calls succeeded or died.                          *)
LyricsSettled ==
  \A o \in Op :
    /\ hasEntry(refundKey(o)) => hasEntry(chargeKey(o))
    /\ hasEntry(chargeKey(o)) /\ outcome[o] \subseteq {"failed"}
         /\ (\A h \in Handler : call[h].about # o)
       => hasEntry(refundKey(o))

(* Every request is answered.                                               *)
CallsEnd == \A h \in Handler : ~ at(h, "idle") ~> at(h, "idle")
=============================================================================
