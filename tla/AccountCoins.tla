---------------------------- MODULE AccountCoins ----------------------------
(***************************************************************************)
(* The coins of accounts that sign in and are merged: wallet rows and      *)
(* ledger rows with their user, purchases, lyrics calls and jobs.  Unlike  *)
(* CoinWallet, a wallet row may be missing, and the user an operation      *)
(* names may be one that a merge has emptied since it was read.            *)
(***************************************************************************)
EXTENDS Identities

CONSTANT Price   \* of a lyrics call and of a job; of a purchase, its coins

Entry == [user : User, amount : {Price, -Price}]
Wallet == [available : Nat, reserved : Nat]

ASSUME PriceAssumption == Price \in Nat \ {0}

(* No row is taken for the absence of one.                                  *)
ASSUME RowAssumption == None \notin Wallet \cup Entry

VARIABLES
  wallet,      \* coin_wallets row of a user, None: no row
  entry,       \* credit_ledger row with a key, None: no row
  jobUser,     \* jobs.user_id, NoUser: no row
  outcome,     \* history: how the calls of a lyrics key ended
  overtaken    \* history: users whose money moved while they were merged away

coinVars == <<wallet, entry, jobUser, outcome, overtaken>>

chargeKey(o)  == <<"charge", o>>
refundKey(o)  == <<"refund", o>>
reserveKey(j) == <<"reserve", j>>
releaseKey(j) == <<"release", j>>
captureKey(j) == <<"capture", j>>
grantKey(p)   == <<"grant", p>>

EntryKey == ({"charge", "refund"} \X Op) \cup ({"reserve", "release", "capture"} \X Job)
            \cup ({"grant"} \X Purchase)

EmptyWallet == [available |-> 0, reserved |-> 0]

CoinInit ==
  /\ wallet = [u \in User |-> None]
  /\ entry = [k \in EntryKey |-> None]
  /\ jobUser = [j \in Job |-> NoUser]
  /\ outcome = [o \in Op |-> {}]
  /\ overtaken = {}

-----------------------------------------------------------------------------
merging(h) == call[h].at \in {"moveRows", "copyWallet", "dropWallet"}

(* A wallet row that an open merge has added to waits for its commit.       *)
walletFree(h, u) ==
  \A g \in Handler \ {h} : call[g].copied # None => call[g].target # u

(* The money of u moves while an open merge is about to take u away.        *)
noteOvertaken(u) ==
  overtaken' = IF \E g \in Handler : merging(g) /\ call[g].user = u
                 THEN overtaken \cup {u} ELSE overtaken

hasEntry(k) == entry[k] # None
append(k, u, amount) ==
  /\ ~ hasEntry(k)
  /\ entry' = [entry EXCEPT ![k] = [user |-> u, amount |-> amount]]

(* ensure_wallet: the row of a user, made if it is missing.                 *)
ensured(u) == IF wallet[u] = None THEN EmptyWallet ELSE wallet[u]

(* Mutant: coins_reserved is not kept from going below zero.                *)
changedUnclamped(u, available, reserved) ==
  IF wallet[u] = None THEN wallet
  ELSE [wallet EXCEPT ![u] = [available |-> @.available + available,
                              reserved |-> @.reserved + reserved]]

(* get_wallet_for_update: what is there is changed, nothing is made.        *)
changed(u, available, reserved) ==
  IF wallet[u] = None THEN wallet
  ELSE [wallet EXCEPT ![u] = [available |-> @.available + available,
                              reserved |-> Max({0, @.reserved + reserved})]]

-----------------------------------------------------------------------------
(* A purchase grants its coins to the user of the call.                     *)
grant(h, t, p) ==
  LET u == userOf(t) IN
  /\ at(h, "idle") /\ u # NoUser /\ walletFree(h, u)
  /\ append(grantKey(p), u, Price)
  /\ wallet' = [wallet EXCEPT ![u] = [ensured(u) EXCEPT !.available = @ + Price]]
  /\ noteOvertaken(u)
  /\ UNCHANGED <<jobUser, outcome, call>>

(* A request for lyrics, or for a job: the user of the token is resolved.   *)
askLyrics(h, t, o) ==
  /\ at(h, "idle") /\ userOf(t) # NoUser
  /\ begin(h, "charge", userOf(t), o)
  /\ UNCHANGED coinVars

askJob(h, t, j) ==
  /\ at(h, "idle") /\ userOf(t) # NoUser /\ ~ hasEntry(reserveKey(j))
  /\ \A g \in Handler : call[g].about # j
  /\ begin(h, "reserve", userOf(t), j)
  /\ UNCHANGED coinVars

(* charge: a key that is there returns the price and takes nothing, whoever *)
(* made its entry; a 402 rolls everything back.                             *)
charge(h) ==
  LET u == call[h].user  o == call[h].about  w == ensured(u) IN
  /\ at(h, "charge") /\ walletFree(h, u)
  /\ \/ /\ w.available >= Price
        /\ append(chargeKey(o), u, -Price)
        /\ wallet' = [wallet EXCEPT ![u] = [w EXCEPT !.available = @ - Price]]
        /\ next(h, "llm")
     \/ /\ hasEntry(chargeKey(o))
        /\ wallet' = [wallet EXCEPT ![u] = w]
        /\ next(h, "llm")
        /\ UNCHANGED entry
     \/ /\ ~ hasEntry(chargeKey(o)) /\ w.available < Price
        /\ ends(h)
        /\ UNCHANGED <<wallet, entry>>
  /\ noteOvertaken(u)
  /\ UNCHANGED <<jobUser, outcome>>

(* Mutant: a failure of the LLM is passed on before the refund.             *)
llmUnrefunded(h) ==
  LET o == call[h].about IN
  /\ at(h, "llm")
  /\ \E result \in {"drafted", "failed"} :
       outcome' = [outcome EXCEPT ![o] = @ \cup {result}]
  /\ ends(h)
  /\ UNCHANGED <<wallet, entry, jobUser, overtaken>>

(* The LLM answers and the draft is stored, or one of the two fails.        *)
llm(h) ==
  LET o == call[h].about IN
  /\ at(h, "llm")
  /\ \/ /\ outcome' = [outcome EXCEPT ![o] = @ \cup {"drafted"}]
        /\ ends(h)
     \/ /\ outcome' = [outcome EXCEPT ![o] = @ \cup {"failed"}]
        /\ next(h, "refund")
  /\ UNCHANGED <<wallet, entry, jobUser, overtaken>>

(* refund: to the user who was charged, under the id known at the start.    *)
refund(h) ==
  LET u == call[h].user  o == call[h].about IN
  /\ at(h, "refund")
  /\ \/ /\ append(refundKey(o), u, Price)
        /\ walletFree(h, u)
        /\ wallet' = changed(u, Price, 0)
     \/ /\ hasEntry(refundKey(o))
        /\ UNCHANGED <<wallet, entry>>
  /\ ends(h)
  /\ noteOvertaken(u)
  /\ UNCHANGED <<jobUser, outcome>>

-----------------------------------------------------------------------------
(* create_job: reserve, then insert the job, with the user resolved before. *)
reserve(h) ==
  LET u == call[h].user  j == call[h].about  w == ensured(u) IN
  /\ at(h, "reserve") /\ walletFree(h, u)
  /\ \/ /\ w.available >= Price
        /\ append(reserveKey(j), u, -Price)
        /\ wallet' = [wallet EXCEPT ![u] = [available |-> w.available - Price,
                                            reserved |-> w.reserved + Price]]
        /\ next(h, "insertJob")
     \/ /\ w.available < Price
        /\ ends(h)
        /\ UNCHANGED <<wallet, entry>>
  /\ noteOvertaken(u)
  /\ UNCHANGED <<jobUser, outcome>>

insertJob(h) ==
  /\ at(h, "insertJob")
  /\ jobUser' = [jobUser EXCEPT ![call[h].about] = call[h].user]
  /\ ends(h)
  /\ noteOvertaken(call[h].user)
  /\ UNCHANGED <<wallet, entry, outcome>>

(* A job ends once: its row is read, then its coins are settled with the    *)
(* user_id that was read.                                                   *)
readJob(h, j) ==
  /\ at(h, "idle") /\ jobUser[j] # NoUser
  /\ ~ hasEntry(releaseKey(j)) /\ ~ hasEntry(captureKey(j))
  /\ \A g \in Handler : call[g].about # j
  /\ begin(h, "settle", jobUser[j], j)
  /\ UNCHANGED coinVars

settle(h) ==
  LET u == call[h].user  j == call[h].about IN
  /\ at(h, "settle") /\ walletFree(h, u)
  /\ \/ /\ append(captureKey(j), u, -Price)
        /\ wallet' = changed(u, 0, -Price)
     \/ /\ append(releaseKey(j), u, Price)
        /\ wallet' = changed(u, Price, -Price)
  /\ ends(h)
  /\ noteOvertaken(u)
  /\ UNCHANGED <<jobUser, outcome>>

coins(h) == charge(h) \/ llm(h) \/ refund(h) \/ reserve(h) \/ insertJob(h) \/ settle(h)
=============================================================================
