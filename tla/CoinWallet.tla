----------------------------- MODULE CoinWallet -----------------------------
(***************************************************************************)
(* The coin wallet: CoinWalletService over the tables coin_wallets and     *)
(* credit_ledger, and the admin writers of the same two tables.            *)
(*                                                                         *)
(* Every operation is one database transaction that locks the wallet row   *)
(* (SELECT ... FOR UPDATE) or wins the unique idempotency key of its       *)
(* ledger entry, so every operation is one step.  The module is open: any  *)
(* caller may call any operation at any time, in any order, for any job.   *)
(* What callers really do is in the modules that extend this one.          *)
(*                                                                         *)
(* A wallet row that does not exist is a row of zeros: ensure_wallet makes *)
(* it on first use and nothing here deletes one.  The ledger is kept as    *)
(* what its readers use: the set of idempotency keys, and per user the sum *)
(* of the amount column by class of entry.                                 *)
(***************************************************************************)
EXTENDS Integers, FiniteSets

CONSTANTS
  User,        \* users
  Job,         \* calls of create_job; a job row keeps its call's identity
  OpKey,       \* keys of the other money operations: a lyrics operation, a purchase
  OwnerOf,     \* the user a job is charged to
  Prices,      \* prices the active price list may show, 0 = free
  Amounts,     \* amounts of purchases, promo grants and manual adjustments
  MaxManual    \* bound: coins moved by each kind of manual operation per user

ASSUME JobAssumption == IsFiniteSet(Job) /\ OwnerOf \in [Job -> User]
ASSUME AmountAssumption ==
  Prices \subseteq Nat /\ Amounts \subseteq Nat \ {0} /\ MaxManual \in Nat

VARIABLES
  available,   \* coin_wallets.coins_available
  reserved,    \* coin_wallets.coins_reserved
  hold,        \* coins reserved for a call: jobs.reserved_credits once the row exists
  keys,        \* credit_ledger.idempotency_key values present
  booked       \* sum of credit_ledger.amount per user and class of entry

walletVars == <<available, reserved, hold, keys, booked>>

EntryClass == {"reserve", "job_capture", "release", "charge", "refund",
               "grant", "promo", "adjust_up", "adjust_down"}

Key == ({"capture", "release"} \X Job) \cup ({"charge", "refund", "grant"} \X OpKey)

captureKey(j) == <<"capture", j>>
releaseKey(j) == <<"release", j>>
chargeKey(k)  == <<"charge", k>>
refundKey(k)  == <<"refund", k>>
grantKey(k)   == <<"grant", k>>

WalletInit ==
  /\ available = [u \in User |-> 0]
  /\ reserved = [u \in User |-> 0]
  /\ hold = [j \in Job |-> 0]
  /\ keys = {}
  /\ booked = [u \in User |-> [c \in EntryClass |-> 0]]

-----------------------------------------------------------------------------
(* append_ledger: an entry without a key is always new, an entry with a key *)
(* only when no entry has that key.                                         *)
appendEntry(u, class, amount) ==
  /\ booked' = [booked EXCEPT ![u][class] = @ + amount]
  /\ UNCHANGED keys

appendKeyed(u, class, amount, key) ==
  /\ key \notin keys
  /\ keys' = keys \cup {key}
  /\ booked' = [booked EXCEPT ![u][class] = @ + amount]

(* max(0, coins_reserved - units) *)
lessReserved(u, units) ==
  [reserved EXCEPT ![u] = IF @ >= units THEN @ - units ELSE 0]

-----------------------------------------------------------------------------
(* Mutant: the funds check was dropped.                                     *)
reserveOnCredit(j, price) ==
  LET u == OwnerOf[j] IN
  /\ price > 0 /\ hold[j] = 0
  /\ available' = [available EXCEPT ![u] = @ - price]
  /\ reserved' = [reserved EXCEPT ![u] = @ + price]
  /\ hold' = [hold EXCEPT ![j] = price]
  /\ appendEntry(u, "reserve", -price)

(* reserve(): moves the price from available to reserved.  A free type      *)
(* (price 0) reserves nothing; with too few coins the call raises 402 and   *)
(* the transaction rolls back.                                              *)
reserve(j, price) ==
  LET u == OwnerOf[j] IN
  /\ price > 0 /\ hold[j] = 0
  /\ available[u] >= price
  /\ available' = [available EXCEPT ![u] = @ - price]
  /\ reserved' = [reserved EXCEPT ![u] = @ + price]
  /\ hold' = [hold EXCEPT ![j] = price]
  /\ appendEntry(u, "reserve", -price)

(* Mutant: the check that the key is new was dropped.                       *)
captureNoDedup(j) ==
  LET u == OwnerOf[j] IN
  /\ hold[j] > 0
  /\ appendEntry(u, "job_capture", -hold[j])
  /\ reserved' = lessReserved(u, hold[j])
  /\ UNCHANGED <<available, hold>>

(* capture(): the reserved coins are spent.  Nothing to do for a free job;  *)
(* a second capture of the job finds its key and changes nothing.           *)
capture(j) ==
  LET u == OwnerOf[j] IN
  \/ /\ hold[j] > 0
     /\ appendKeyed(u, "job_capture", -hold[j], captureKey(j))
     /\ reserved' = lessReserved(u, hold[j])
     /\ UNCHANGED <<available, hold>>
  \/ /\ hold[j] = 0 \/ captureKey(j) \in keys
     /\ UNCHANGED walletVars

(* Mutant: the wallet is credited before the key is looked at.              *)
releaseNoDedup(j) ==
  LET u == OwnerOf[j] IN
  /\ hold[j] > 0
  /\ keys' = keys \cup {releaseKey(j)}
  /\ booked' = [booked EXCEPT ![u]["release"] = @ + hold[j]]
  /\ reserved' = lessReserved(u, hold[j])
  /\ available' = [available EXCEPT ![u] = @ + hold[j]]
  /\ UNCHANGED hold

(* release(): the reserved coins go back to available.  Its key is not the  *)
(* key of capture: the ledger does not keep one from following the other.   *)
release(j) ==
  LET u == OwnerOf[j] IN
  \/ /\ hold[j] > 0
     /\ appendKeyed(u, "release", hold[j], releaseKey(j))
     /\ reserved' = lessReserved(u, hold[j])
     /\ available' = [available EXCEPT ![u] = @ + hold[j]]
     /\ UNCHANGED hold
  \/ /\ hold[j] = 0 \/ releaseKey(j) \in keys
     /\ UNCHANGED walletVars

(* charge(): one-step debit.  The key is claimed before the funds check, so *)
(* a retry of a charge already made succeeds on an empty wallet; when the   *)
(* check fails the claim rolls back with the transaction.                   *)
charge(u, k, price) ==
  \/ /\ price > 0
     /\ appendKeyed(u, "charge", -price, chargeKey(k))
     /\ available[u] >= price
     /\ available' = [available EXCEPT ![u] = @ - price]
     /\ UNCHANGED <<reserved, hold>>
  \/ /\ price = 0 \/ chargeKey(k) \in keys
     /\ UNCHANGED walletVars

(* refund(): gives back what a charge returned to its caller.               *)
refund(u, k, units) ==
  \/ /\ units > 0
     /\ appendKeyed(u, "refund", units, refundKey(k))
     /\ available' = [available EXCEPT ![u] = @ + units]
     /\ UNCHANGED <<reserved, hold>>
  \/ /\ units = 0 \/ refundKey(k) \in keys
     /\ UNCHANGED walletVars

(* Mutant: the result of append_ledger is ignored.                          *)
grantCoinsIgnoringDuplicate(u, k, coins) ==
  /\ available' = [available EXCEPT ![u] = @ + coins]
  /\ \/ appendKeyed(u, "grant", coins, grantKey(k))
     \/ grantKey(k) \in keys /\ UNCHANGED <<keys, booked>>
  /\ UNCHANGED <<reserved, hold>>

(* A purchase or a subscription period grants its coins once per key.       *)
grantCoins(u, k, coins) ==
  \/ /\ appendKeyed(u, "grant", coins, grantKey(k))
     /\ available' = [available EXCEPT ![u] = @ + coins]
     /\ UNCHANGED <<reserved, hold>>
  \/ /\ grantKey(k) \in keys
     /\ UNCHANGED walletVars

(* AdminService.grant_credits: no key, every call grants.                   *)
grant_credits(u, coins) ==
  /\ available' = [available EXCEPT ![u] = @ + coins]
  /\ appendEntry(u, "promo", coins)
  /\ UNCHANGED <<reserved, hold>>

(* CrmAdminService.adjust_tokens: a balance that would be negative is       *)
(* refused; a debit is booked with a positive amount, unlike other debits.  *)
adjust_tokens(u, amount) ==
  /\ available[u] + amount >= 0
  /\ available' = [available EXCEPT ![u] = @ + amount]
  /\ IF amount > 0
       THEN appendEntry(u, "adjust_up", amount)
       ELSE appendEntry(u, "adjust_down", -amount)
  /\ UNCHANGED <<reserved, hold>>

-----------------------------------------------------------------------------
(* Manual operations repeat freely in the code; MaxManual bounds them here. *)
ManualRoom(u, class, n) == booked[u][class] + n <= MaxManual

WalletNext ==
  \/ \E j \in Job, p \in Prices : reserve(j, p)
  \/ \E j \in Job : capture(j)
  \/ \E j \in Job : release(j)
  \/ \E u \in User, k \in OpKey, p \in Prices : charge(u, k, p)
  \/ \E u \in User, k \in OpKey, p \in Prices :
       chargeKey(k) \in keys /\ refund(u, k, p)
  \/ \E u \in User, k \in OpKey, n \in Amounts : grantCoins(u, k, n)
  \/ \E u \in User, n \in Amounts :
       ManualRoom(u, "promo", n) /\ grant_credits(u, n)
  \/ \E u \in User, n \in Amounts :
       ManualRoom(u, "adjust_up", n) /\ adjust_tokens(u, n)
  \/ \E u \in User, n \in Amounts :
       ManualRoom(u, "adjust_down", n) /\ adjust_tokens(u, -n)

(* What the wallet promises its callers: whatever they do, the two tables   *)
(* change by whole operations only, each with the entry that explains it.   *)
WalletSpec == WalletInit /\ [][WalletNext]_walletVars

-----------------------------------------------------------------------------
(* The wallet columns are never negative (the CHECK constraints of          *)
(* coin_wallets would abort the operation otherwise), whoever calls what.   *)
WalletTypeOK ==
  /\ available \in [User -> Nat]
  /\ reserved \in [User -> Nat]
  /\ hold \in [Job -> Nat]
  /\ keys \subseteq Key
  /\ booked \in [User -> [EntryClass -> Int]]

(* The jobs whose coins are in the reserved bucket, and those coins, one    *)
(* element each, so that counting them sums holds of different prices.      *)
OpenHolds(u) ==
  {j \in Job : /\ OwnerOf[j] = u /\ hold[j] > 0
               /\ captureKey(j) \notin keys /\ releaseKey(j) \notin keys}
HeldCoins(u) == UNION {{j} \X (1 .. hold[j]) : j \in OpenHolds(u)}

(* No job's coins were both spent and given back.  The wallet cannot ensure *)
(* it: capture and release use different keys.  It is the callers' duty.    *)
SettledOneWay(j) == ~(captureKey(j) \in keys /\ releaseKey(j) \in keys)
CallersSettleOneWay == \A j \in Job : SettledOneWay(j)

(* What the ledger says a user has free: every class but the capture, which *)
(* spends coins that left the column at the reserve.                        *)
LedgerAvailable(u) ==
  LET b == booked[u] IN
  b["reserve"] + b["release"] + b["charge"] + b["refund"]
  + b["grant"] + b["promo"] + b["adjust_up"] - b["adjust_down"]

(* An audit of the ledger gives the available column exactly, whatever the  *)
(* callers do: every change of it is booked in its own transaction, once.   *)
LedgerExplainsAvailable == \A u \in User : available[u] = LedgerAvailable(u)

(* As long as no job was settled both ways, the reserved column is exactly  *)
(* the coins of the jobs still open: capture and release of one job never   *)
(* reach the coins of another, and max(0, ...) never hides a shortfall.     *)
ReservedIsExact ==
  CallersSettleOneWay => \A u \in User : reserved[u] = Cardinality(HeldCoins(u))

(* What the ledger says a user owns, free or reserved: what was credited    *)
(* less what was spent.                                                     *)
LedgerOwned(u) ==
  LET b == booked[u] IN
  b["grant"] + b["promo"] + b["adjust_up"] - b["adjust_down"]
  + b["charge"] + b["refund"] + b["job_capture"]

(* Under the same condition no coin is made or lost: the two columns of a   *)
(* user together are what the ledger says the user owns.                    *)
CoinsConserved ==
  CallersSettleOneWay =>
    \A u \in User : available[u] + reserved[u] = LedgerOwned(u)
=============================================================================
