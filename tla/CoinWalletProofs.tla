-------------------------- MODULE CoinWalletProofs ---------------------------
(***************************************************************************)
(* What the coin wallet guarantees to any number of users, jobs and        *)
(* operation keys, at any prices, whoever calls its operations.            *)
(***************************************************************************)
EXTENDS CoinWallet, FiniteSetTheorems, TLAPS

-----------------------------------------------------------------------------
(* The keys the operations write are keys of the ledger.                    *)
LEMMA KeyTypes ==
  /\ \A j \in Job : captureKey(j) \in Key /\ releaseKey(j) \in Key
  /\ \A k \in OpKey : chargeKey(k) \in Key /\ refundKey(k) \in Key /\ grantKey(k) \in Key
BY DEF Key, captureKey, releaseKey, chargeKey, refundKey, grantKey

(* The classes the operations book under.                                   *)
LEMMA ClassTypes ==
  {"reserve", "job_capture", "release", "charge", "refund",
   "grant", "promo", "adjust_up", "adjust_down"} \subseteq EntryClass
BY DEF EntryClass

(* A ledger entry changes one class of one user by its amount.              *)
LEMMA BookedStep ==
  ASSUME booked \in [User -> [EntryClass -> Int]],
         NEW u \in User, NEW c \in EntryClass, NEW n \in Int,
         \/ appendEntry(u, c, n)
         \/ \E k \in Key : appendKeyed(u, c, n, k)
  PROVE  /\ booked' \in [User -> [EntryClass -> Int]]
         /\ \A v \in User, d \in EntryClass :
              booked'[v][d] = IF v = u /\ d = c THEN booked[v][d] + n ELSE booked[v][d]
         /\ keys \subseteq Key => keys' \subseteq Key
BY DEF appendEntry, appendKeyed

(* An amount moved into or out of one user's column.                        *)
LEMMA ColumnStep ==
  ASSUME NEW col \in [User -> Nat], NEW u \in User, NEW n \in Int, col[u] + n >= 0
  PROVE  /\ [col EXCEPT ![u] = @ + n] \in [User -> Nat]
         /\ \A v \in User : [col EXCEPT ![u] = @ + n][v] = IF v = u THEN col[v] + n ELSE col[v]
OBVIOUS

(* max(0, coins_reserved - units) on one user's column.                     *)
LEMMA LessReservedStep ==
  ASSUME reserved \in [User -> Nat], NEW u \in User, NEW n \in Nat
  PROVE  /\ lessReserved(u, n) \in [User -> Nat]
         /\ \A v \in User :
              lessReserved(u, n)[v] =
                IF v = u THEN (IF reserved[v] >= n THEN reserved[v] - n ELSE 0)
                ELSE reserved[v]
BY DEF lessReserved

-----------------------------------------------------------------------------
(* What a step writes: nothing, or one ledger entry of one user together    *)
(* with that user's columns, the available one by what the entry says.      *)
EntryStep(u, c, n) ==
  \/ appendEntry(u, c, n)
  \/ \E k \in Key : appendKeyed(u, c, n, k)

signed(c, n) == IF c = "job_capture" THEN 0 ELSE IF c = "adjust_down" THEN -n ELSE n

Effect(u, c, n) ==
  /\ u \in User /\ c \in EntryClass /\ n \in Int
  /\ EntryStep(u, c, n)
  /\ available' \in [User -> Nat]
  /\ \A v \in User :
       available'[v] = IF v = u THEN available[v] + signed(c, n) ELSE available[v]
  /\ reserved' \in [User -> Nat]
  /\ hold' \in [Job -> Nat]

StepEffect == \E u \in User, c \in EntryClass, n \in Int : Effect(u, c, n)

(* reserve: the owner's free coins go down by the price, booked negative.   *)
LEMMA ReserveEffect ==
  ASSUME WalletTypeOK, NEW j \in Job, NEW p \in Prices, reserve(j, p)
  PROVE  StepEffect
<1>1. /\ OwnerOf[j] \in User /\ p \in Nat /\ -p \in Int /\ "reserve" \in EntryClass
  BY JobAssumption, AmountAssumption, ClassTypes
<1>2. EntryStep(OwnerOf[j], "reserve", -p)
  BY DEF reserve, EntryStep
<1>3. /\ available' \in [User -> Nat] /\ reserved' \in [User -> Nat]
      /\ hold' \in [Job -> Nat]
      /\ \A v \in User :
           available'[v] = IF v = OwnerOf[j] THEN available[v] - p ELSE available[v]
  BY <1>1 DEF reserve, WalletTypeOK
<1>4. Effect(OwnerOf[j], "reserve", -p)
  BY <1>1, <1>2, <1>3 DEF Effect, signed, WalletTypeOK
<1> QED
  BY <1>1, <1>4 DEF StepEffect

(* capture: booked, but the free coins do not move.                         *)
LEMMA CaptureEffect ==
  ASSUME WalletTypeOK, NEW j \in Job, capture(j), ~ UNCHANGED walletVars
  PROVE  StepEffect
<1>1. /\ OwnerOf[j] \in User /\ hold[j] \in Nat /\ -hold[j] \in Int
      /\ "job_capture" \in EntryClass
  BY JobAssumption, ClassTypes DEF WalletTypeOK
<1>2. /\ appendKeyed(OwnerOf[j], "job_capture", -hold[j], captureKey(j))
      /\ reserved' = lessReserved(OwnerOf[j], hold[j])
      /\ UNCHANGED <<available, hold>>
  BY DEF capture
<1>3. EntryStep(OwnerOf[j], "job_capture", -hold[j])
  BY <1>2, KeyTypes DEF EntryStep
<1>4. reserved' \in [User -> Nat]
  BY <1>1, <1>2, LessReservedStep DEF WalletTypeOK
<1>5. Effect(OwnerOf[j], "job_capture", -hold[j])
  BY <1>1, <1>2, <1>3, <1>4 DEF Effect, signed, WalletTypeOK
<1> QED
  BY <1>1, <1>5 DEF StepEffect

(* release: the owner's free coins come back, booked positive.              *)
LEMMA ReleaseEffect ==
  ASSUME WalletTypeOK, NEW j \in Job, release(j), ~ UNCHANGED walletVars
  PROVE  StepEffect
<1>1. OwnerOf[j] \in User /\ hold[j] \in Nat /\ "release" \in EntryClass
  BY JobAssumption, ClassTypes DEF WalletTypeOK
<1>2. /\ appendKeyed(OwnerOf[j], "release", hold[j], releaseKey(j))
      /\ reserved' = lessReserved(OwnerOf[j], hold[j])
      /\ available' = [available EXCEPT ![OwnerOf[j]] = @ + hold[j]]
      /\ UNCHANGED hold
  BY DEF release
<1>3. EntryStep(OwnerOf[j], "release", hold[j])
  BY <1>2, KeyTypes DEF EntryStep
<1>4. reserved' \in [User -> Nat]
  BY <1>1, <1>2, LessReservedStep DEF WalletTypeOK
<1>5. /\ available' \in [User -> Nat]
      /\ \A v \in User :
           available'[v] = IF v = OwnerOf[j] THEN available[v] + hold[j] ELSE available[v]
  BY <1>1, <1>2 DEF WalletTypeOK
<1>6. Effect(OwnerOf[j], "release", hold[j])
  BY <1>1, <1>2, <1>3, <1>4, <1>5 DEF Effect, signed, WalletTypeOK
<1> QED
  BY <1>1, <1>6 DEF StepEffect

(* charge: the caller's free coins go down by the price, booked negative.   *)
LEMMA ChargeEffect ==
  ASSUME WalletTypeOK, NEW u \in User, NEW k \in OpKey, NEW p \in Prices,
         charge(u, k, p), ~ UNCHANGED walletVars
  PROVE  StepEffect
<1>1. p \in Nat /\ -p \in Int /\ "charge" \in EntryClass
  BY AmountAssumption, ClassTypes
<1>2. /\ appendKeyed(u, "charge", -p, chargeKey(k))
      /\ available[u] >= p
      /\ available' = [available EXCEPT ![u] = @ - p]
      /\ UNCHANGED <<reserved, hold>>
  BY DEF charge
<1>3. EntryStep(u, "charge", -p)
  BY <1>2, KeyTypes DEF EntryStep
<1>4. /\ available' \in [User -> Nat]
      /\ \A v \in User : available'[v] = IF v = u THEN available[v] - p ELSE available[v]
  BY <1>1, <1>2 DEF WalletTypeOK
<1>5. Effect(u, "charge", -p)
  BY <1>1, <1>2, <1>3, <1>4 DEF Effect, signed, WalletTypeOK
<1> QED
  BY <1>1, <1>5 DEF StepEffect

(* refund, grantCoins, grant_credits and adjust_tokens upwards: one user is *)
(* credited.                                                                *)
LEMMA CreditEffect ==
  ASSUME WalletTypeOK, NEW u \in User, NEW n \in Nat,
         NEW c \in EntryClass \ {"job_capture", "adjust_down"},
         EntryStep(u, c, n),
         available' = [available EXCEPT ![u] = @ + n],
         UNCHANGED <<reserved, hold>>
  PROVE  StepEffect
<1>1. /\ available' \in [User -> Nat]
      /\ \A v \in User : available'[v] = IF v = u THEN available[v] + n ELSE available[v]
  BY DEF WalletTypeOK
<1>2. Effect(u, c, n)
  BY <1>1 DEF Effect, signed, WalletTypeOK
<1> QED
  BY <1>2 DEF StepEffect

(* adjust_tokens: an upward entry says what moved, a downward one its       *)
(* opposite.                                                                *)
LEMMA AdjustEffect ==
  ASSUME WalletTypeOK, NEW u \in User, NEW n \in Int, adjust_tokens(u, n)
  PROVE  StepEffect
<1>1. /\ "adjust_down" \in EntryClass
      /\ "adjust_up" \in EntryClass \ {"job_capture", "adjust_down"}
  BY ClassTypes
<1>2. CASE n > 0
  <2>1. EntryStep(u, "adjust_up", n)
    BY <1>2 DEF adjust_tokens, EntryStep
  <2>2. /\ available' = [available EXCEPT ![u] = @ + n]
        /\ UNCHANGED <<reserved, hold>>
    BY DEF adjust_tokens
  <2> QED
    <3>1. n \in Nat
      BY <1>2
    <3> QED
      BY <1>1, <2>1, <2>2, <3>1, CreditEffect
<1>3. CASE n <= 0
  <2>1. EntryStep(u, "adjust_down", -n)
    BY <1>3 DEF adjust_tokens, EntryStep
  <2>2. /\ available' \in [User -> Nat]
        /\ \A v \in User : available'[v] = IF v = u THEN available[v] + n ELSE available[v]
        /\ UNCHANGED <<reserved, hold>>
    <3>1. /\ available \in [User -> Nat] /\ available[u] + n >= 0
          /\ available' = [available EXCEPT ![u] = @ + n]
          /\ UNCHANGED <<reserved, hold>>
      BY DEF adjust_tokens, WalletTypeOK
    <3> QED
      BY <3>1, ColumnStep
  <2>3. signed("adjust_down", -n) = n /\ -n \in Int
    BY DEF signed
  <2>4. Effect(u, "adjust_down", -n)
    BY <1>1, <2>1, <2>2, <2>3 DEF Effect, WalletTypeOK
  <2> QED
    BY <1>1, <2>3, <2>4 DEF StepEffect
<1> QED
  BY <1>2, <1>3

(* Every step is a stutter or books one entry with its effect.              *)
LEMMA NextEffect ==
  ASSUME WalletTypeOK, [WalletNext]_walletVars
  PROVE  UNCHANGED walletVars \/ StepEffect
<1> SUFFICES ASSUME WalletNext, ~ UNCHANGED walletVars PROVE StepEffect
  OBVIOUS
<1>0. {"refund", "grant", "promo"} \subseteq EntryClass \ {"job_capture", "adjust_down"}
  BY DEF EntryClass
<1>1. ASSUME NEW u \in User, NEW k \in OpKey, NEW p \in Prices, refund(u, k, p)
      PROVE  StepEffect
  <2>1. /\ p \in Nat
        /\ appendKeyed(u, "refund", p, refundKey(k))
        /\ available' = [available EXCEPT ![u] = @ + p]
        /\ UNCHANGED <<reserved, hold>>
    BY <1>1, AmountAssumption DEF refund
  <2>2. EntryStep(u, "refund", p)
    BY <2>1, KeyTypes DEF EntryStep
  <2> QED
    BY <1>0, <2>1, <2>2, CreditEffect
<1>2. ASSUME NEW u \in User, NEW k \in OpKey, NEW n \in Amounts, grantCoins(u, k, n)
      PROVE  StepEffect
  <2>1. /\ n \in Nat
        /\ appendKeyed(u, "grant", n, grantKey(k))
        /\ available' = [available EXCEPT ![u] = @ + n]
        /\ UNCHANGED <<reserved, hold>>
    BY <1>2, AmountAssumption DEF grantCoins
  <2>2. EntryStep(u, "grant", n)
    BY <2>1, KeyTypes DEF EntryStep
  <2> QED
    BY <1>0, <2>1, <2>2, CreditEffect
<1>3. ASSUME NEW u \in User, NEW n \in Amounts, grant_credits(u, n)
      PROVE  StepEffect
  <2>1. n \in Nat /\ EntryStep(u, "promo", n)
    BY <1>3, AmountAssumption DEF grant_credits, EntryStep
  <2> QED
    BY <1>0, <1>3, <2>1, CreditEffect DEF grant_credits
<1>4. \A n \in Amounts : n \in Int /\ -n \in Int
  BY AmountAssumption
<1>5. ASSUME NEW u \in User, NEW n \in Amounts, adjust_tokens(u, n) \/ adjust_tokens(u, -n)
      PROVE  StepEffect
  BY <1>4, <1>5, AdjustEffect
<1> QED
  BY <1>1, <1>2, <1>3, <1>5, ReserveEffect, CaptureEffect, ReleaseEffect, ChargeEffect
     DEF WalletNext

-----------------------------------------------------------------------------
(* The wallet columns never go negative and the ledger holds only the keys  *)
(* of its operations, for any callers, jobs and prices: the CHECK           *)
(* constraints of coin_wallets never abort an operation.                    *)
THEOREM WalletTypeCorrect == WalletSpec => []WalletTypeOK
<1>1. WalletInit => WalletTypeOK
  BY DEF WalletInit, WalletTypeOK
<1>2. WalletTypeOK /\ [WalletNext]_walletVars => WalletTypeOK'
  <2> SUFFICES ASSUME WalletTypeOK, [WalletNext]_walletVars
               PROVE  WalletTypeOK'
    OBVIOUS
  <2>1. CASE UNCHANGED walletVars
    BY <2>1 DEF walletVars, WalletTypeOK
  <2>2. ASSUME NEW u \in User, NEW c \in EntryClass, NEW n \in Int, Effect(u, c, n)
        PROVE  WalletTypeOK'
    <3>1. /\ booked \in [User -> [EntryClass -> Int]] /\ keys \subseteq Key
          /\ EntryStep(u, c, n)
      BY <2>2 DEF WalletTypeOK, Effect
    <3>2. /\ booked' \in [User -> [EntryClass -> Int]]
          /\ keys' \subseteq Key
      BY <3>1, BookedStep DEF EntryStep
    <3> QED
      BY <2>2, <3>2 DEF WalletTypeOK, Effect
  <2> QED
    BY <2>1, <2>2, NextEffect DEF StepEffect
<1> QED
  BY <1>1, <1>2, PTL DEF WalletSpec

-----------------------------------------------------------------------------
(* One entry changes the audited sum of its user by its signed amount.      *)
LEMMA AuditStep ==
  ASSUME booked \in [User -> [EntryClass -> Int]],
         NEW u \in User, NEW c \in EntryClass, NEW n \in Int, EntryStep(u, c, n)
  PROVE  \A v \in User :
           LedgerAvailable(v)' =
             LedgerAvailable(v) + (IF v = u THEN signed(c, n) ELSE 0)
<1> TAKE v \in User
<1>1. /\ booked' \in [User -> [EntryClass -> Int]]
      /\ \A d \in EntryClass :
           booked'[v][d] = IF v = u /\ d = c THEN booked[v][d] + n ELSE booked[v][d]
  BY BookedStep DEF EntryStep
<1>2. \A d \in EntryClass : booked[v][d] \in Int /\ booked'[v][d] \in Int
  BY <1>1
<1>3. CASE v # u
  <2>1. \A d \in EntryClass : booked'[v][d] = booked[v][d]
    BY <1>1, <1>3
  <2> QED
    BY <2>1, <1>2, <1>3, ClassTypes DEF LedgerAvailable
<1>4. CASE v = u
  BY <1>1, <1>2, <1>4, ClassTypes DEF LedgerAvailable, EntryClass, signed
<1> QED
  BY <1>3, <1>4

(* An operation that books what it moves keeps the audit true.              *)
LEMMA AuditKept ==
  ASSUME WalletTypeOK, LedgerExplainsAvailable, StepEffect
  PROVE  LedgerExplainsAvailable'
<1>1. PICK u \in User, c \in EntryClass, n \in Int : Effect(u, c, n)
  BY DEF StepEffect
<1>2. \A v \in User :
        LedgerAvailable(v)' = LedgerAvailable(v) + (IF v = u THEN signed(c, n) ELSE 0)
  BY <1>1, AuditStep DEF WalletTypeOK, Effect
<1>3. \A v \in User :
        available'[v] = IF v = u THEN available[v] + signed(c, n) ELSE available[v]
  BY <1>1 DEF Effect
<1>4. \A v \in User : available[v] = LedgerAvailable(v) /\ available[v] \in Nat
  BY DEF LedgerExplainsAvailable, WalletTypeOK
<1>5. signed(c, n) \in Int
  BY DEF signed
<1> QED
  BY <1>2, <1>3, <1>4, <1>5 DEF LedgerExplainsAvailable

(* The available column is the sum of the ledger, however the operations    *)
(* are ordered and repeated: no path of the service changes a balance       *)
(* without booking it, or books it without changing the balance.            *)
THEOREM LedgerAudit == WalletSpec => []LedgerExplainsAvailable
<1>1. WalletInit => LedgerExplainsAvailable
  BY DEF WalletInit, LedgerExplainsAvailable, LedgerAvailable, EntryClass
<1>2. WalletTypeOK /\ LedgerExplainsAvailable /\ [WalletNext]_walletVars
        => LedgerExplainsAvailable'
  <2>1. UNCHANGED walletVars /\ LedgerExplainsAvailable => LedgerExplainsAvailable'
    BY DEF walletVars, LedgerExplainsAvailable, LedgerAvailable
  <2> QED
    BY <2>1, NextEffect, AuditKept
<1> QED
  BY <1>1, <1>2, WalletTypeCorrect, PTL DEF WalletSpec

-----------------------------------------------------------------------------
(***************************************************************************)
(* What the reserved column holds, for any number of users and jobs: as    *)
(* long as no job is settled both ways it is exactly the coins of the jobs *)
(* still open, and the two columns are what the ledger says the user owns. *)
(*                                                                         *)
(* Neither is inductive alone.  HoldInv adds that only a job with a hold   *)
(* has a settlement key (so that a reserve opens a job that was not        *)
(* settled), that the open coins of a user can be counted, and what the    *)
(* ledger has booked for the column.                                       *)
(***************************************************************************)

(* The coins of one job, and what the ledger has booked in and out of the   *)
(* reserved column of a user.                                               *)
JobCoins(j, n) == {j} \X (1 .. n)
LedgerReserved(u) ==
  booked[u]["job_capture"] - booked[u]["reserve"] - booked[u]["release"]

SettledHaveHold ==
  \A j \in Job : captureKey(j) \in keys \/ releaseKey(j) \in keys => hold[j] > 0

HoldInv ==
  /\ SettledHaveHold
  /\ \A u \in User : IsFiniteSet(HeldCoins(u))
  /\ ReservedIsExact
  /\ CallersSettleOneWay => \A u \in User : reserved[u] = LedgerReserved(u)

-----------------------------------------------------------------------------
(* What a step does to the holds: nothing, it opens one or it closes one.   *)
HoldsKept ==
  /\ UNCHANGED <<reserved, hold>>
  /\ \A j \in Job : /\ captureKey(j) \in keys' <=> captureKey(j) \in keys
                    /\ releaseKey(j) \in keys' <=> releaseKey(j) \in keys
  /\ \A u \in User : LedgerReserved(u)' = LedgerReserved(u)

Opened(j, p) ==
  /\ p > 0 /\ hold[j] = 0
  /\ hold' = [hold EXCEPT ![j] = p]
  /\ reserved' = [reserved EXCEPT ![OwnerOf[j]] = @ + p]
  /\ keys' = keys
  /\ \A u \in User :
       LedgerReserved(u)' = LedgerReserved(u) + (IF u = OwnerOf[j] THEN p ELSE 0)

Closed(j) ==
  /\ hold[j] > 0 /\ hold' = hold
  /\ reserved' = lessReserved(OwnerOf[j], hold[j])
  /\ \/ captureKey(j) \notin keys /\ keys' = keys \cup {captureKey(j)}
     \/ releaseKey(j) \notin keys /\ keys' = keys \cup {releaseKey(j)}
  /\ \A u \in User :
       LedgerReserved(u)' = LedgerReserved(u) - (IF u = OwnerOf[j] THEN hold[j] ELSE 0)

(* The keys of the operations are all different.                            *)
LEMMA KeysApart ==
  /\ \A i, j : /\ captureKey(i) = captureKey(j) <=> i = j
               /\ releaseKey(i) = releaseKey(j) <=> i = j
               /\ captureKey(i) # releaseKey(j)
  /\ \A j, k : /\ chargeKey(k) # captureKey(j) /\ chargeKey(k) # releaseKey(j)
               /\ refundKey(k) # captureKey(j) /\ refundKey(k) # releaseKey(j)
               /\ grantKey(k) # captureKey(j) /\ grantKey(k) # releaseKey(j)
BY DEF captureKey, releaseKey, chargeKey, refundKey, grantKey

(* What one ledger entry books in or out of the reserved column.            *)
LEMMA ReservedEntry ==
  ASSUME booked \in [User -> [EntryClass -> Int]],
         NEW u \in User, NEW c \in EntryClass, NEW n \in Int, EntryStep(u, c, n)
  PROVE  \A v \in User :
           LedgerReserved(v)' =
             LedgerReserved(v)
             + (IF v # u THEN 0 ELSE IF c = "job_capture" THEN n
                ELSE IF c \in {"reserve", "release"} THEN -n ELSE 0)
<1> TAKE v \in User
<1>1. /\ booked' \in [User -> [EntryClass -> Int]]
      /\ \A d \in EntryClass :
           booked'[v][d] = IF v = u /\ d = c THEN booked[v][d] + n ELSE booked[v][d]
  BY BookedStep DEF EntryStep
<1>2. \A d \in EntryClass : booked[v][d] \in Int /\ booked'[v][d] \in Int
  BY <1>1
<1> QED
  BY <1>1, <1>2, ClassTypes DEF LedgerReserved

(* An entry of any other class, with no key or with the key of another      *)
(* operation, keeps the holds.                                              *)
LEMMA OtherEntry ==
  ASSUME WalletTypeOK, UNCHANGED <<reserved, hold>>, NEW u \in User, NEW n \in Int,
         NEW c \in EntryClass \ {"job_capture", "reserve", "release"},
         \/ appendEntry(u, c, n)
         \/ \E k \in OpKey : \/ appendKeyed(u, c, n, chargeKey(k))
                             \/ appendKeyed(u, c, n, refundKey(k))
                             \/ appendKeyed(u, c, n, grantKey(k))
  PROVE  HoldsKept
<1>1. EntryStep(u, c, n)
  BY KeyTypes DEF EntryStep
<1>2. \A v \in User : LedgerReserved(v)' = LedgerReserved(v)
  <2>1. booked \in [User -> [EntryClass -> Int]]
    BY DEF WalletTypeOK
  <2>2. \A v \in User : LedgerReserved(v) \in Int
    BY <2>1, ClassTypes DEF LedgerReserved
  <2> QED
    BY <1>1, <2>1, <2>2, ReservedEntry
<1>3. \A j \in Job : /\ captureKey(j) \in keys' <=> captureKey(j) \in keys
                     /\ releaseKey(j) \in keys' <=> releaseKey(j) \in keys
  BY KeysApart DEF appendEntry, appendKeyed
<1> QED
  BY <1>2, <1>3 DEF HoldsKept

(* A reserve opens the hold of its job.                                     *)
LEMMA ReserveOpens ==
  ASSUME WalletTypeOK, NEW j \in Job, NEW p \in Prices, reserve(j, p)
  PROVE  Opened(j, p)
<1>1. /\ OwnerOf[j] \in User /\ p \in Nat /\ -p \in Int
      /\ "reserve" \in EntryClass
  BY JobAssumption, AmountAssumption, ClassTypes
<1>2. /\ booked \in [User -> [EntryClass -> Int]]
      /\ EntryStep(OwnerOf[j], "reserve", -p)
  BY DEF reserve, EntryStep, WalletTypeOK
<1>3. \A v \in User :
        LedgerReserved(v)' = LedgerReserved(v)
          + (IF v # OwnerOf[j] THEN 0 ELSE IF "reserve" = "job_capture" THEN -p
             ELSE IF "reserve" \in {"reserve", "release"} THEN -(-p) ELSE 0)
  BY <1>1, <1>2, ReservedEntry
<1> QED
  BY <1>1, <1>3 DEF reserve, Opened, appendEntry

(* A capture or a release that is not a repeat closes the hold of its job.  *)
LEMMA SettlementCloses ==
  ASSUME WalletTypeOK, NEW j \in Job, capture(j) \/ release(j), ~ UNCHANGED walletVars
  PROVE  Closed(j)
<1>1. /\ OwnerOf[j] \in User /\ hold[j] \in Nat /\ -hold[j] \in Int
      /\ {"job_capture", "release"} \subseteq EntryClass
      /\ booked \in [User -> [EntryClass -> Int]]
  BY JobAssumption, ClassTypes DEF WalletTypeOK
<1>2. CASE capture(j)
  <2>1. /\ hold[j] > 0 /\ hold' = hold
        /\ appendKeyed(OwnerOf[j], "job_capture", -hold[j], captureKey(j))
        /\ reserved' = lessReserved(OwnerOf[j], hold[j])
    BY <1>2 DEF capture
  <2>2. EntryStep(OwnerOf[j], "job_capture", -hold[j])
    BY <2>1, KeyTypes DEF EntryStep
  <2>3. \A v \in User :
          LedgerReserved(v)' =
            LedgerReserved(v) + (IF v # OwnerOf[j] THEN 0 ELSE -hold[j])
    BY <1>1, <2>2, ReservedEntry
  <2>4. \A v \in User : LedgerReserved(v) \in Int
    BY <1>1, ClassTypes DEF LedgerReserved
  <2>5. \A v \in User :
          LedgerReserved(v)' = LedgerReserved(v) - (IF v = OwnerOf[j] THEN hold[j] ELSE 0)
    BY <1>1, <2>3, <2>4
  <2> QED
    BY <2>1, <2>5 DEF Closed, appendKeyed
<1>3. CASE release(j)
  <2>1. /\ hold[j] > 0 /\ hold' = hold
        /\ appendKeyed(OwnerOf[j], "release", hold[j], releaseKey(j))
        /\ reserved' = lessReserved(OwnerOf[j], hold[j])
    BY <1>3 DEF release
  <2>2. EntryStep(OwnerOf[j], "release", hold[j])
    BY <2>1, KeyTypes DEF EntryStep
  <2>3. \A v \in User :
          LedgerReserved(v)' =
            LedgerReserved(v) + (IF v # OwnerOf[j] THEN 0 ELSE -hold[j])
    BY <1>1, <2>2, ReservedEntry
  <2>4. \A v \in User : LedgerReserved(v) \in Int
    BY <1>1, ClassTypes DEF LedgerReserved
  <2>5. \A v \in User :
          LedgerReserved(v)' = LedgerReserved(v) - (IF v = OwnerOf[j] THEN hold[j] ELSE 0)
    BY <1>1, <2>3, <2>4
  <2> QED
    BY <2>1, <2>5 DEF Closed, appendKeyed
<1> QED
  BY <1>2, <1>3

(* Every step keeps the holds, opens one or closes one.                     *)
LEMMA HoldEffect ==
  ASSUME WalletTypeOK, [WalletNext]_walletVars
  PROVE  \/ HoldsKept
         \/ \E j \in Job, p \in Prices : Opened(j, p)
         \/ \E j \in Job : Closed(j)
<1>1. CASE UNCHANGED walletVars
  BY <1>1 DEF walletVars, HoldsKept, LedgerReserved
<1>2. CASE WalletNext /\ ~ UNCHANGED walletVars
  <2>0. {"charge", "refund", "grant", "promo", "adjust_up", "adjust_down"}
          \subseteq EntryClass \ {"job_capture", "reserve", "release"}
    BY DEF EntryClass
  <2>1. \A p \in Prices : p \in Int /\ -p \in Int
    BY AmountAssumption
  <2>2. \A n \in Amounts : n \in Int /\ -n \in Int
    BY AmountAssumption
  <2>3. ASSUME NEW u \in User, NEW k \in OpKey, NEW p \in Prices, charge(u, k, p)
        PROVE  HoldsKept
    <3>1. /\ appendKeyed(u, "charge", -p, chargeKey(k))
          /\ UNCHANGED <<reserved, hold>>
      BY <1>2, <2>3 DEF charge
    <3> QED
      BY <2>0, <2>1, <3>1, OtherEntry
  <2>4. ASSUME NEW u \in User, NEW k \in OpKey, NEW p \in Prices, refund(u, k, p)
        PROVE  HoldsKept
    <3>1. /\ appendKeyed(u, "refund", p, refundKey(k))
          /\ UNCHANGED <<reserved, hold>>
      BY <1>2, <2>4 DEF refund
    <3> QED
      BY <2>0, <2>1, <3>1, OtherEntry
  <2>5. ASSUME NEW u \in User, NEW k \in OpKey, NEW n \in Amounts, grantCoins(u, k, n)
        PROVE  HoldsKept
    <3>1. /\ appendKeyed(u, "grant", n, grantKey(k))
          /\ UNCHANGED <<reserved, hold>>
      BY <1>2, <2>5 DEF grantCoins
    <3> QED
      BY <2>0, <2>2, <3>1, OtherEntry
  <2>6. ASSUME NEW u \in User, NEW n \in Amounts, grant_credits(u, n)
        PROVE  HoldsKept
    BY <2>0, <2>2, <2>6, OtherEntry DEF grant_credits
  <2>7. ASSUME NEW u \in User, NEW n \in Int, adjust_tokens(u, n)
        PROVE  HoldsKept
    <3>1. /\ appendEntry(u, "adjust_up", n) \/ appendEntry(u, "adjust_down", -n)
          /\ UNCHANGED <<reserved, hold>>
      BY <2>7 DEF adjust_tokens
    <3>2. n \in Int /\ -n \in Int
      OBVIOUS
    <3> QED
      BY <2>0, <3>1, <3>2, OtherEntry
  <2> QED
    BY <1>2, <2>2, <2>3, <2>4, <2>5, <2>6, <2>7, ReserveOpens, SettlementCloses DEF WalletNext
<1> QED
  BY <1>1, <1>2

-----------------------------------------------------------------------------
(* A job's coins are counted by its hold.                                   *)
LEMMA JobCoinsCount ==
  ASSUME NEW j, NEW n \in Nat
  PROVE  IsFiniteSet(JobCoins(j, n)) /\ Cardinality(JobCoins(j, n)) = n
<1>1. IsFiniteSet({j}) /\ Cardinality({j}) = 1
  BY FS_Singleton
<1>2. IsFiniteSet(1 .. n) /\ Cardinality(1 .. n) = n
  BY FS_Interval
<1>3. /\ IsFiniteSet({j} \X (1 .. n))
      /\ Cardinality({j} \X (1 .. n)) = Cardinality({j}) * Cardinality(1 .. n)
  BY <1>1, <1>2, FS_Product, Zenon
<1>4. Cardinality({j} \X (1 .. n)) = 1 * n
  BY <1>1, <1>2, <1>3
<1> QED
  BY <1>3, <1>4 DEF JobCoins

(* A coin of a user is a coin of one of the user's open jobs.               *)
LEMMA HeldCoin ==
  ASSUME NEW u \in User, NEW x
  PROVE  x \in HeldCoins(u) <=>
           \E i \in Job : i \in OpenHolds(u) /\ x \in JobCoins(i, hold[i])
BY DEF HeldCoins, OpenHolds, JobCoins

(* The same after a step.                                                   *)
LEMMA HeldCoinAfter ==
  ASSUME NEW u \in User, NEW x
  PROVE  x \in HeldCoins(u)' <=>
           \E i \in Job : i \in OpenHolds(u)' /\ x \in JobCoins(i, hold'[i])
BY DEF HeldCoins, OpenHolds, JobCoins

(* An opened job adds its coins, which were not there, to those of its      *)
(* owner.                                                                   *)
LEMMA OpenedCoins ==
  ASSUME WalletTypeOK, SettledHaveHold, NEW j \in Job, NEW p \in Nat, Opened(j, p)
  PROVE  /\ \A u \in User :
              HeldCoins(u)' = IF u = OwnerOf[j] THEN HeldCoins(u) \cup JobCoins(j, p)
                              ELSE HeldCoins(u)
         /\ HeldCoins(OwnerOf[j]) \cap JobCoins(j, p) = {}
<1>0. OwnerOf[j] \in User
  BY JobAssumption
<1>1. /\ captureKey(j) \notin keys /\ releaseKey(j) \notin keys
      /\ hold'[j] = p /\ p > 0 /\ keys' = keys /\ hold[j] = 0
      /\ \A i \in Job : i # j => hold'[i] = hold[i]
  BY DEF Opened, SettledHaveHold, WalletTypeOK
<1>2. \A u \in User, i \in Job :
        i \in OpenHolds(u)' <=> i \in OpenHolds(u) \/ (i = j /\ u = OwnerOf[j])
  BY <1>1 DEF OpenHolds
<1>3. \A u \in User : j \notin OpenHolds(u)
  BY <1>1 DEF OpenHolds
<1>4. \A u \in User :
        HeldCoins(u)' = IF u = OwnerOf[j] THEN HeldCoins(u) \cup JobCoins(j, p)
                        ELSE HeldCoins(u)
  <2> TAKE u \in User
  <2>1. CASE u = OwnerOf[j]
    <3>1. ASSUME NEW x
          PROVE  x \in HeldCoins(u)' <=> x \in HeldCoins(u) \/ x \in JobCoins(j, p)
      BY <1>1, <1>2, <1>3, <2>1, HeldCoin, HeldCoinAfter
    <3> QED
      BY <2>1, <3>1
  <2>2. CASE u # OwnerOf[j]
    <3>1. ASSUME NEW x
          PROVE  x \in HeldCoins(u)' <=> x \in HeldCoins(u)
      BY <1>1, <1>2, <1>3, <2>2, HeldCoin, HeldCoinAfter
    <3> QED
      BY <2>2, <3>1
  <2> QED
    BY <2>1, <2>2
<1>5. HeldCoins(OwnerOf[j]) \cap JobCoins(j, p) = {}
  <2> SUFFICES ASSUME NEW x \in HeldCoins(OwnerOf[j]), x \in JobCoins(j, p)
               PROVE  FALSE
    OBVIOUS
  <2>1. PICK i \in Job : i \in OpenHolds(OwnerOf[j]) /\ x \in JobCoins(i, hold[i])
    BY <1>0, HeldCoin
  <2>2. i = j
    BY <2>1 DEF JobCoins
  <2> QED
    BY <1>0, <1>3, <2>1, <2>2
<1> QED
  BY <1>4, <1>5

(* A closed job takes its own coins away and no others.                     *)
LEMMA ClosedCoins ==
  ASSUME WalletTypeOK, NEW j \in Job, Closed(j)
  PROVE  \A u \in User :
           HeldCoins(u)' = IF u = OwnerOf[j] THEN HeldCoins(u) \ JobCoins(j, hold[j])
                           ELSE HeldCoins(u)
<1>1. hold' = hold
  BY DEF Closed
<1>2. \A u \in User, i \in Job : i \in OpenHolds(u)' <=> i \in OpenHolds(u) /\ i # j
  BY <1>1, KeysApart DEF Closed, OpenHolds
<1>3. \A u \in User, i \in Job : i \in OpenHolds(u) => OwnerOf[i] = u
  BY DEF OpenHolds
<1>4. \A i \in Job : i # j => JobCoins(i, hold[i]) \cap JobCoins(j, hold[j]) = {}
  BY DEF JobCoins
<1> TAKE u \in User
<1>5. CASE u = OwnerOf[j]
  <2>1. ASSUME NEW x
        PROVE  x \in HeldCoins(u)' <=> x \in HeldCoins(u) /\ x \notin JobCoins(j, hold[j])
    BY <1>1, <1>2, <1>4, HeldCoin, HeldCoinAfter
  <2> QED
    BY <1>5, <2>1
<1>6. CASE u # OwnerOf[j]
  <2>1. ASSUME NEW x
        PROVE  x \in HeldCoins(u)' <=> x \in HeldCoins(u)
    BY <1>1, <1>2, <1>3, <1>6, HeldCoin, HeldCoinAfter
  <2> QED
    BY <1>6, <2>1
<1> QED
  BY <1>5, <1>6

-----------------------------------------------------------------------------
(* Settlement keys are never taken out of the ledger, so a state settled    *)
(* one way follows only states settled one way.                             *)
LEMMA KeysStay ==
  ASSUME \/ HoldsKept
         \/ \E j \in Job, p \in Prices : Opened(j, p)
         \/ \E j \in Job : Closed(j),
         CallersSettleOneWay'
  PROVE  CallersSettleOneWay
BY DEF HoldsKept, Opened, Closed, CallersSettleOneWay, SettledOneWay

(* A step that keeps the holds keeps what is said of them.                  *)
LEMMA KeptHoldInv ==
  ASSUME HoldInv, HoldsKept
  PROVE  HoldInv'
<1>1. /\ \A u \in User : HeldCoins(u)' = HeldCoins(u)
      /\ CallersSettleOneWay' <=> CallersSettleOneWay
      /\ SettledHaveHold'
  BY DEF HoldInv, HoldsKept, HeldCoins, OpenHolds, SettledHaveHold,
         CallersSettleOneWay, SettledOneWay
<1> QED
  BY <1>1 DEF HoldInv, HoldsKept, ReservedIsExact

(* The opened job's coins are counted once more on both sides.              *)
LEMMA OpenedHoldInv ==
  ASSUME WalletTypeOK, HoldInv, NEW j \in Job, NEW p \in Prices, Opened(j, p)
  PROVE  HoldInv'
<1>0. p \in Nat /\ OwnerOf[j] \in User
  BY AmountAssumption, JobAssumption
<1>1. /\ \A u \in User :
           HeldCoins(u)' = IF u = OwnerOf[j] THEN HeldCoins(u) \cup JobCoins(j, p)
                           ELSE HeldCoins(u)
      /\ HeldCoins(OwnerOf[j]) \cap JobCoins(j, p) = {}
  BY <1>0, OpenedCoins DEF HoldInv
<1>2. IsFiniteSet(JobCoins(j, p)) /\ Cardinality(JobCoins(j, p)) = p
  BY <1>0, JobCoinsCount
<1>3. \A u \in User : IsFiniteSet(HeldCoins(u)) /\ Cardinality(HeldCoins(u)) \in Nat
  BY FS_CardinalityType DEF HoldInv
<1>4. LET S == HeldCoins(OwnerOf[j]) IN
      /\ IsFiniteSet(S \cup JobCoins(j, p))
      /\ Cardinality(S \cup JobCoins(j, p)) = Cardinality(S) + p
  <2> DEFINE S == HeldCoins(OwnerOf[j])
  <2> DEFINE T == JobCoins(j, p)
  <2>1. IsFiniteSet(S) /\ IsFiniteSet(T) /\ Cardinality(S \cap T) = 0
        /\ Cardinality(T) = p /\ Cardinality(S) \in Nat
    BY <1>0, <1>1, <1>2, <1>3, FS_EmptySet
  <2> HIDE DEF S, T
  <2>2. /\ IsFiniteSet(S \cup T)
        /\ Cardinality(S \cup T) = Cardinality(S) + Cardinality(T) - Cardinality(S \cap T)
    BY <2>1, FS_Union, Zenon
  <2>3. Cardinality(S \cup T) = Cardinality(S) + p
    BY <1>0, <2>1, <2>2
  <2> QED
    BY <2>2, <2>3 DEF S, T
<1>5. \A u \in User :
        reserved'[u] = reserved[u] + (IF u = OwnerOf[j] THEN p ELSE 0)
  BY <1>0 DEF Opened, WalletTypeOK
<1>6. SettledHaveHold'
  BY <1>0 DEF HoldInv, SettledHaveHold, Opened, WalletTypeOK
<1>7. \A u \in User : IsFiniteSet(HeldCoins(u))'
  BY <1>0, <1>1, <1>3, <1>4
<1>8. CallersSettleOneWay' => CallersSettleOneWay
  BY KeysStay
<1>9. ASSUME CallersSettleOneWay', NEW u \in User
      PROVE  reserved'[u] = Cardinality(HeldCoins(u))' /\ reserved'[u] = LedgerReserved(u)'
  <2>1. reserved[u] = Cardinality(HeldCoins(u)) /\ reserved[u] = LedgerReserved(u)
    BY <1>8, <1>9 DEF HoldInv, ReservedIsExact
  <2>2. reserved'[u] = LedgerReserved(u)'
    BY <1>0, <1>5, <2>1 DEF Opened
  <2>3. CASE u = OwnerOf[j]
    BY <1>0, <1>1, <1>3, <1>4, <1>5, <2>1, <2>2, <2>3
  <2>4. CASE u # OwnerOf[j]
    <3>1. HeldCoins(u)' = HeldCoins(u)
      BY <1>1, <2>4
    <3>2. reserved'[u] = reserved[u]
      BY <1>5, <2>4 DEF WalletTypeOK
    <3> QED
      BY <2>1, <2>2, <3>1, <3>2
  <2> QED
    BY <2>3, <2>4
<1> QED
  BY <1>6, <1>7, <1>9 DEF HoldInv, ReservedIsExact

(* The closed job was open, unless it is now settled both ways, so its      *)
(* coins are among those counted and max(0, ...) takes exactly them.        *)
LEMMA ClosedHoldInv ==
  ASSUME WalletTypeOK, HoldInv, NEW j \in Job, Closed(j)
  PROVE  HoldInv'
<1>0. /\ OwnerOf[j] \in User /\ hold[j] \in Nat /\ hold' = hold /\ hold[j] > 0
  BY JobAssumption DEF WalletTypeOK, Closed
<1>1. \A u \in User :
        HeldCoins(u)' = IF u = OwnerOf[j] THEN HeldCoins(u) \ JobCoins(j, hold[j])
                        ELSE HeldCoins(u)
  BY ClosedCoins
<1>2. IsFiniteSet(JobCoins(j, hold[j])) /\ Cardinality(JobCoins(j, hold[j])) = hold[j]
  BY <1>0, JobCoinsCount
<1>3. \A u \in User : IsFiniteSet(HeldCoins(u)) /\ Cardinality(HeldCoins(u)) \in Nat
  BY FS_CardinalityType DEF HoldInv
<1>4. SettledHaveHold'
  BY <1>0, KeysApart DEF HoldInv, SettledHaveHold, Closed
<1>5. \A u \in User : IsFiniteSet(HeldCoins(u))'
  <2>1. IsFiniteSet(HeldCoins(OwnerOf[j]) \ JobCoins(j, hold[j]))
    BY <1>0, <1>3, FS_Difference, Zenon
  <2> QED
    BY <1>1, <1>3, <2>1
<1>6. ASSUME CallersSettleOneWay', NEW u \in User
      PROVE  reserved'[u] = Cardinality(HeldCoins(u))' /\ reserved'[u] = LedgerReserved(u)'
  <2>1. /\ reserved[u] = Cardinality(HeldCoins(u)) /\ reserved[u] = LedgerReserved(u)
        /\ reserved[u] \in Nat
    BY <1>6, KeysStay DEF HoldInv, ReservedIsExact, WalletTypeOK
  <2>2. reserved'[u] = IF u = OwnerOf[j]
                         THEN (IF reserved[u] >= hold[j] THEN reserved[u] - hold[j] ELSE 0)
                         ELSE reserved[u]
    BY <1>0, LessReservedStep DEF Closed, WalletTypeOK
  <2>3. LedgerReserved(u)' = LedgerReserved(u) - (IF u = OwnerOf[j] THEN hold[j] ELSE 0)
    BY DEF Closed
  <2>4. CASE u # OwnerOf[j]
    <3>1. HeldCoins(u)' = HeldCoins(u)
      BY <1>1, <2>4
    <3>2. reserved'[u] = reserved[u] /\ LedgerReserved(u)' = LedgerReserved(u)
      BY <2>1, <2>2, <2>3, <2>4
    <3> QED
      BY <2>1, <3>1, <3>2
  <2>5. CASE u = OwnerOf[j]
    <3>1. j \in OpenHolds(u)
      BY <1>0, <1>6, <2>5, KeysApart
         DEF Closed, OpenHolds, CallersSettleOneWay, SettledOneWay
    <3>2. JobCoins(j, hold[j]) \subseteq HeldCoins(u)
      BY <3>1, HeldCoin
    <3>3. HeldCoins(u) \cap JobCoins(j, hold[j]) = JobCoins(j, hold[j])
      BY <3>2
    <3>4. Cardinality(HeldCoins(u) \ JobCoins(j, hold[j]))
            = Cardinality(HeldCoins(u)) - Cardinality(HeldCoins(u) \cap JobCoins(j, hold[j]))
      BY <1>3, FS_Difference, Zenon
    <3>5. Cardinality(JobCoins(j, hold[j])) <= Cardinality(HeldCoins(u))
      BY <1>3, <3>2, FS_Subset, Zenon
    <3>6. /\ hold[j] <= Cardinality(HeldCoins(u))
          /\ Cardinality(HeldCoins(u))' = Cardinality(HeldCoins(u)) - hold[j]
      BY <1>1, <1>2, <2>5, <3>3, <3>4, <3>5
    <3> QED
      BY <1>0, <2>1, <2>2, <2>3, <2>5, <3>6
  <2> QED
    BY <2>4, <2>5
<1> QED
  BY <1>4, <1>5, <1>6 DEF HoldInv, ReservedIsExact

(* The strengthening is an invariant of the wallet.                         *)
LEMMA HoldInvariant == WalletSpec => []HoldInv
<1>1. WalletInit => HoldInv
  <2> SUFFICES ASSUME WalletInit PROVE HoldInv
    OBVIOUS
  <2>1. \A u \in User : HeldCoins(u) = {} /\ reserved[u] = 0 /\ LedgerReserved(u) = 0
    BY ClassTypes DEF WalletInit, HeldCoins, OpenHolds, LedgerReserved
  <2>2. SettledHaveHold
    BY DEF WalletInit, SettledHaveHold
  <2> QED
    BY <2>1, <2>2, FS_EmptySet DEF HoldInv, ReservedIsExact
<1>2. WalletTypeOK /\ HoldInv /\ [WalletNext]_walletVars => HoldInv'
  BY HoldEffect, KeptHoldInv, OpenedHoldInv, ClosedHoldInv
<1> QED
  BY <1>1, <1>2, WalletTypeCorrect, PTL DEF WalletSpec

(* As long as no job is settled both ways, the reserved column is the coins *)
(* of the open jobs: closing one job never reaches the coins of another,    *)
(* and the max(0, ...) of capture and release never hides a shortfall.      *)
THEOREM ReservedExactness == WalletSpec => []ReservedIsExact
<1>1. HoldInv => ReservedIsExact
  BY DEF HoldInv
<1> QED
  BY <1>1, HoldInvariant, PTL

(* Under the same condition reserving and settling neither makes coins nor  *)
(* loses any: both columns together are what was credited less what was     *)
(* spent.                                                                   *)
THEOREM Conservation == WalletSpec => []CoinsConserved
<1>1. WalletTypeOK /\ LedgerExplainsAvailable /\ HoldInv => CoinsConserved
  <2> SUFFICES ASSUME WalletTypeOK, LedgerExplainsAvailable, HoldInv,
                      CallersSettleOneWay, NEW u \in User
               PROVE  available[u] + reserved[u] = LedgerOwned(u)
    BY DEF CoinsConserved
  <2>1. \A c \in EntryClass : booked[u][c] \in Int
    BY DEF WalletTypeOK
  <2>2. available[u] = LedgerAvailable(u) /\ reserved[u] = LedgerReserved(u)
    BY DEF LedgerExplainsAvailable, HoldInv
  <2>3. LedgerAvailable(u) + LedgerReserved(u) = LedgerOwned(u)
    BY <2>1, ClassTypes DEF LedgerAvailable, LedgerReserved, LedgerOwned
  <2> QED
    BY <2>2, <2>3
<1> QED
  BY <1>1, WalletTypeCorrect, LedgerAudit, HoldInvariant, PTL
=============================================================================
