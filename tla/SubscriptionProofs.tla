------------------------- MODULE SubscriptionProofs -------------------------
(***************************************************************************)
(* SubscriptionTypeOK, RecordedIsPaid, ReceiptPaidOnce, ActiveOwnsChain    *)
(* and the refinements GrantsOnce and WalletSpec of Subscriptions, for any *)
(* users, receipts, events, grants, requests at one time and aborts.       *)
(***************************************************************************)
EXTENDS Subscriptions, CoinWalletProofs, FiniteSetTheorems, TLAPS

crmSteps == {"lockRow", "applyGrant"}
eventSteps == {"event", "applyEvent", "expireMissing"}

Request ==
  [at : storeSteps \cup eventSteps \cup crmSteps \cup {"idle"},
   user : User \cup {NoUser}, about : StoreTx \cup AdaptyEvent \cup CrmGrant \cup {None},
   note : Notes \cup {"none"}, newly : BOOLEAN,
   seen : SUBSET (PurchaseKey \cup User), moved : SUBSET PurchaseKey,
   held : SUBSET User, base : Nat]

(* What a request is about, and what the rows it holds are.                 *)
RequestOK(h) ==
  /\ call[h].at \in storeSteps => call[h].user \in User /\ call[h].about \in StoreTx
  /\ call[h].at \in eventSteps => call[h].user \in User /\ call[h].about \in AdaptyEvent
  /\ call[h].at \in crmSteps =>
       call[h].about \in CrmGrant /\ call[h].user = call[h].about.user
  /\ at(h, "expireMissing") => ExpiringEvent(call[h].about)
  /\ at(h, "reassign") => \A d \in call[h].seen : d \in PurchaseKey /\ purchase[d] # NoUser
  /\ at(h, "expire") => call[h].seen \subseteq User
  /\ \A d \in call[h].moved : purchase[d] # NoUser
  /\ \A v \in call[h].held : subscription[v] # NoSubscription

RequestsInv ==
  /\ workload \in Workloads
  /\ call \in [Handler -> Request]
  /\ \A h \in Handler : RequestOK(h)

(* An entry with a key is a grant, and whoever got one has an entry.        *)
EntriesInv ==
  /\ keys \subseteq {grantKey(k) : k \in OpKey}
  /\ \A k \in OpKey : grantee[k] # NoUser => grantKey(k) \in keys

(* Unless calls with one grant_id overlap, the key looked up before is still*)
(* free when the grant is applied.                                          *)
CrmInv ==
  OverlapCrm \/
  \A h \in Handler :
    call[h].at \in crmSteps =>
      /\ grantKey(crmKey(call[h].about)) \notin keys
      /\ \A i \in Handler :
           call[i].at \in crmSteps /\ call[i].about = call[h].about => i = h

Inv == SubscriptionTypeOK /\ RequestsInv /\ EntriesInv /\ CrmInv /\ RecordedIsPaid

(* The premise of GrantsOnce: events of one period agree on its coins.      *)
PeriodsAgree ==
  \A e, f \in AdaptyEvent : grantRef(e) = grantRef(f) => coinsFor(e) = coinsFor(f)

-----------------------------------------------------------------------------
(* The fields of what comes from outside.                                   *)
LEMMA OutsideTypes ==
  /\ \A tx \in StoreTx : tx.chain \in Ref /\ tx.coins \in Nat /\ tx.until \in Nat
  /\ \A e \in AdaptyEvent :
       /\ e.user \in User \cup {NoUser} /\ e.chain \in Ref \cup {None}
       /\ e.until \in Nat /\ coinsFor(e) \in Nat /\ grantRef(e) \in Ref
  /\ \A g \in CrmGrant : g.user \in User /\ g.coins \in Nat /\ g.coins > 0
  /\ NoUser \notin User /\ Now \in Nat /\ ManualCoins \in Nat
<1>1. \A tx \in StoreTx : tx.chain \in Ref /\ tx.coins \in Nat /\ tx.until \in Nat
  BY BillingAssumption DEF StoreTxType
<1>2. \A e \in AdaptyEvent :
        /\ e.user \in User \cup {NoUser} /\ e.chain \in Ref \cup {None}
        /\ e.until \in Nat /\ coinsFor(e) \in Nat /\ grantRef(e) \in Ref
  <2> TAKE e \in AdaptyEvent
  <2>1. e \in AdaptyEventType
    BY BillingAssumption
  <2> QED
    BY <2>1, BillingAssumption DEF AdaptyEventType, coinsFor, grantRef
<1>3. \A g \in CrmGrant : g.user \in User /\ g.coins \in Nat /\ g.coins > 0
  BY BillingAssumption DEF CrmGrantType
<1> QED
  BY <1>1, <1>2, <1>3, BillingAssumption, ManualAssumption

(* The keys of the three channels are operation keys, and never collide.    *)
LEMMA ChannelsApart ==
  /\ \A d \in PurchaseKey : purchaseKey(d) \in OpKey
  /\ \A r \in Ref : adaptyKey(r) \in OpKey
  /\ \A g \in CrmGrant : crmKey(g) \in OpKey
  /\ \A k \in OpKey : \/ \E d \in PurchaseKey : k = purchaseKey(d)
                      \/ \E r \in Ref : k = adaptyKey(r)
                      \/ \E g \in CrmGrant : k = crmKey(g)
BY KeyAssumption DEF BillingKey

LEMMA KeysDiffer ==
  /\ \A k, l : grantKey(k) = grantKey(l) => k = l
  /\ \A d, e : purchaseKey(d) = purchaseKey(e) => d = e
  /\ \A g, i : crmKey(g) = crmKey(i) => g = i
  /\ \A r, s : adaptyKey(r) = adaptyKey(s) => r = s
  /\ \A d, r : purchaseKey(d) # adaptyKey(r)
  /\ \A d, g : purchaseKey(d) # crmKey(g)
  /\ \A r, g : adaptyKey(r) # crmKey(g)
BY DEF grantKey, purchaseKey, crmKey, adaptyKey

LEMMA DedupKey ==
  ASSUME NEW u \in User, NEW tx \in StoreTx
  PROVE  dedup_key(u, tx) \in PurchaseKey /\ dedup_key(u, tx)[1] = tx
BY DEF PurchaseKey, dedup_key

LEMMA PurchaseOfTx == \A d \in PurchaseKey : d[1] \in StoreTx
BY DEF PurchaseKey, dedup_key

(* What a key is worth is what its channel grants for it.                   *)
LEMMA WorthOf ==
  /\ \A d \in PurchaseKey : worth[purchaseKey(d)] = d[1].coins
  /\ \A g \in CrmGrant : worth[crmKey(g)] = g.coins
  /\ PeriodsAgree => \A e \in AdaptyEvent : worth[adaptyKey(grantRef(e))] = coinsFor(e)
<1>1. \A d \in PurchaseKey : worth[purchaseKey(d)] = d[1].coins
  BY ChannelsApart DEF worth, purchaseKey
<1>2. \A g \in CrmGrant : worth[crmKey(g)] = g.coins
  BY ChannelsApart DEF worth, crmKey
<1>3. ASSUME PeriodsAgree, NEW e \in AdaptyEvent
      PROVE  worth[adaptyKey(grantRef(e))] = coinsFor(e)
  <2> DEFINE chosen == CHOOSE f \in AdaptyEvent : grantRef(f) = grantRef(e)
  <2>1. adaptyKey(grantRef(e)) \in OpKey
    BY ChannelsApart, OutsideTypes
  <2>2. worth[adaptyKey(grantRef(e))] = coinsFor(chosen)
    BY <2>1 DEF worth, adaptyKey
  <2>3. chosen \in AdaptyEvent /\ grantRef(chosen) = grantRef(e)
    OBVIOUS
  <2> HIDE DEF chosen
  <2> QED
    BY <1>3, <2>2, <2>3 DEF PeriodsAgree
<1> QED
  BY <1>1, <1>2, <1>3

-----------------------------------------------------------------------------
(* What the channels pay: the coins of a receipt, a period, a grant.        *)
CoinsPaid ==
  {tx.coins : tx \in StoreTx} \cup {coinsFor(e) : e \in AdaptyEvent}
  \cup {g.coins : g \in CrmGrant}

LEMMA PaidInCoins ==
  /\ CoinsPaid \subseteq Nat
  /\ \A tx \in StoreTx : tx.coins \in CoinsPaid
  /\ \A e \in AdaptyEvent : coinsFor(e) \in CoinsPaid
  /\ \A g \in CrmGrant : g.coins \in CoinsPaid
BY OutsideTypes DEF CoinsPaid

(* What one step does with money: nothing; one grant; one gift by hand; or, *)
(* where CRM calls may overlap, the coins of a grant a second time.         *)
MoneyStep ==
  \/ UNCHANGED <<walletVars, grantee>>
  \/ \E u \in User, k \in OpKey, n \in CoinsPaid :
       grantTo(u, k, n) /\ (PeriodsAgree => n = worth[k])
  \/ /\ ManualCoins > 0 /\ calls < workload.calls /\ calls' = calls + 1
     /\ \E u \in User : grant_credits(u, ManualCoins) /\ UNCHANGED grantee
  \/ /\ OverlapCrm
     /\ \E u \in User, n \in Nat : available' = [available EXCEPT ![u] = @ + n]
     /\ UNCHANGED <<reserved, hold, keys, booked, grantee>>

(* A grant books its entry with its key, or finds the key.                  *)
LEMMA GrantStep ==
  ASSUME SubscriptionTypeOK, EntriesInv,
         NEW u \in User, NEW k \in OpKey, NEW n \in Nat, grantTo(u, k, n)
  PROVE  /\ WalletTypeOK' /\ grantee' \in [OpKey -> User \cup {NoUser}]
         /\ EntriesInv'
         /\ keys \subseteq keys' /\ keys' \subseteq keys \cup {grantKey(k)}
         /\ n > 0 => grantKey(k) \in keys'
<1>1. CASE UNCHANGED <<walletVars, grantee>> /\ (n > 0 => grantKey(k) \in keys)
  BY <1>1 DEF SubscriptionTypeOK, WalletTypeOK, EntriesInv, walletVars
<1>2. CASE /\ grantKey(k) \notin keys /\ keys' = keys \cup {grantKey(k)}
           /\ booked' = [booked EXCEPT ![u]["grant"] = @ + n]
           /\ available' = [available EXCEPT ![u] = @ + n]
           /\ UNCHANGED <<reserved, hold>>
           /\ grantee' = [grantee EXCEPT ![k] = u]
  <2>1. grantKey(k) \in Key /\ "grant" \in EntryClass
    BY DEF Key, grantKey, EntryClass
  <2>2. WalletTypeOK'
    BY <1>2, <2>1 DEF SubscriptionTypeOK, WalletTypeOK
  <2>3. grantee' \in [OpKey -> User \cup {NoUser}]
    BY <1>2 DEF SubscriptionTypeOK
  <2>4. EntriesInv'
    BY <1>2 DEF EntriesInv, SubscriptionTypeOK
  <2> QED
    BY <1>2, <2>2, <2>3, <2>4
<1> QED
  BY <1>1, <1>2 DEF grantTo, grantCoins, appendKeyed, walletVars

(* Whatever a step does with money leaves the tables of money as they were. *)
LEMMA MoneyKept ==
  ASSUME SubscriptionTypeOK, EntriesInv, MoneyStep
  PROVE  /\ WalletTypeOK' /\ grantee' \in [OpKey -> User \cup {NoUser}]
         /\ EntriesInv' /\ keys \subseteq keys'
<1>1. CASE UNCHANGED <<walletVars, grantee>>
  BY <1>1 DEF SubscriptionTypeOK, WalletTypeOK, EntriesInv, walletVars
<1>2. CASE \E u \in User, k \in OpKey, n \in CoinsPaid : grantTo(u, k, n)
  BY <1>2, GrantStep, PaidInCoins
<1>3. ASSUME NEW u \in User, grant_credits(u, ManualCoins), UNCHANGED grantee
      PROVE  /\ WalletTypeOK' /\ grantee' \in [OpKey -> User \cup {NoUser}]
             /\ EntriesInv' /\ keys \subseteq keys'
  <2>1. "promo" \in EntryClass /\ ManualCoins \in Nat
    BY OutsideTypes DEF EntryClass
  <2> QED
    BY <1>3, <2>1 DEF grant_credits, appendEntry, SubscriptionTypeOK, WalletTypeOK, EntriesInv
<1>4. ASSUME NEW u \in User, NEW n \in Nat, available' = [available EXCEPT ![u] = @ + n],
             UNCHANGED <<reserved, hold, keys, booked, grantee>>
      PROVE  /\ WalletTypeOK' /\ grantee' \in [OpKey -> User \cup {NoUser}]
             /\ EntriesInv' /\ keys \subseteq keys'
  BY <1>4 DEF SubscriptionTypeOK, WalletTypeOK, EntriesInv
<1> QED
  BY <1>1, <1>2, <1>3, <1>4 DEF MoneyStep

(* Without overlapping CRM calls it is a step of GrantOnce, or none.        *)
LEMMA MoneyGrants ==
  ASSUME SubscriptionTypeOK, EntriesInv, MoneyStep, ~ OverlapCrm, PeriodsAgree
  PROVE  [Grants!GrantNext]_(Grants!grantVars)
<1> DEFINE free == [u \in User |-> available[u] - booked[u]["promo"]]
<1>1. CASE UNCHANGED <<walletVars, grantee>>
  BY <1>1 DEF walletVars, Grants!grantVars
<1>2. ASSUME NEW u \in User, NEW k \in OpKey, worth[k] \in Nat, grantTo(u, k, worth[k])
      PROVE  [Grants!GrantNext]_(Grants!grantVars)
  <2>1. CASE UNCHANGED <<walletVars, grantee>>
    BY <2>1 DEF walletVars, Grants!grantVars
  <2>2. CASE /\ grantKey(k) \notin keys
             /\ booked' = [booked EXCEPT ![u]["grant"] = @ + worth[k]]
             /\ available' = [available EXCEPT ![u] = @ + worth[k]]
             /\ grantee' = [grantee EXCEPT ![k] = u]
    <3>1. grantee[k] = NoUser
      BY <2>2 DEF EntriesInv
    <3>2. \A v \in User : booked'[v]["promo"] = booked[v]["promo"]
      BY <2>2 DEF SubscriptionTypeOK, WalletTypeOK, EntryClass
    <3>3. \A v \in User :
            free'[v] = [free EXCEPT ![u] = @ + worth[k]][v]
      BY <1>2, <2>2, <3>2 DEF SubscriptionTypeOK, WalletTypeOK, EntryClass
    <3>4. free' = [free EXCEPT ![u] = @ + worth[k]]
      BY <3>3
    <3>5. Grants!Grant(k, u)
      BY <2>2, <3>1, <3>4 DEF Grants!Grant
    <3> QED
      BY <3>5 DEF Grants!GrantNext
  <2> QED
    BY <1>2, <2>1, <2>2 DEF grantTo, grantCoins, appendKeyed, walletVars
<1>3. ASSUME NEW u \in User, grant_credits(u, ManualCoins), UNCHANGED grantee
      PROVE  UNCHANGED Grants!grantVars
  <2>1. \A v \in User : free'[v] = free[v]
    BY <1>3, OutsideTypes
       DEF grant_credits, appendEntry, SubscriptionTypeOK, WalletTypeOK, EntryClass
  <2>2. free' = free
    BY <2>1
  <2> QED
    BY <1>3, <2>2 DEF Grants!grantVars
<1> QED
  BY <1>1, <1>2, <1>3, PaidInCoins DEF MoneyStep

-----------------------------------------------------------------------------
(* A step of request h, part by part: the requests, the tables, the money.  *)
CallPart(h) ==
  /\ workload' = workload
  /\ call' \in [Handler -> Request]
  /\ \A i \in Handler \ {h} : call'[i] = call[i]
  /\ RequestOK(h)'
  /\ call'[h].at \in crmSteps =>
       \/ call[h].at \in crmSteps /\ call'[h].about = call[h].about
       \/ /\ grantKey(crmKey(call'[h].about)) \notin keys
          /\ OverlapCrm \/ ~ beingGranted(call'[h].about)

TablePart ==
  /\ purchase' \in [PurchaseKey -> User \cup {NoUser}]
  /\ subscription' \in [User -> Subscription]
  /\ events' \subseteq AdaptyEvent /\ acked' \subseteq AdaptyEvent
  /\ \A d \in PurchaseKey : purchase[d] # NoUser => purchase'[d] # NoUser
  /\ \A v \in User : subscription[v] # NoSubscription => subscription'[v] # NoSubscription

(* Where a new key comes from, and what a new row comes with.               *)
MoneyPart(h) ==
  /\ MoneyStep
  /\ \A key \in keys' \ keys :
       \/ \E d \in PurchaseKey : key = grantKey(purchaseKey(d)) /\ purchase'[d] # NoUser
       \/ \E r \in Ref : key = grantKey(adaptyKey(r))
       \/ /\ call[h].at \in crmSteps /\ call'[h].at \notin crmSteps
          /\ key = grantKey(crmKey(call[h].about))
  /\ \A d \in PurchaseKey :
       purchase[d] = NoUser /\ purchase'[d] # NoUser /\ d[1].coins > 0
       => grantKey(purchaseKey(d)) \in keys'
  /\ \A e \in events' \ events :
       GrantingEvent(e) /\ coinsFor(e) > 0 => grantKey(adaptyKey(grantRef(e))) \in keys'

StepOf(h) == CallPart(h) /\ TablePart /\ MoneyPart(h)

(* A statement that writes no table.                                        *)
LEMMA ReadsKeep ==
  ASSUME Inv, NEW h \in Handler, UNCHANGED <<tableVars, walletVars>>, acked' \subseteq AdaptyEvent
  PROVE  TablePart /\ MoneyPart(h)
BY DEF Inv, SubscriptionTypeOK, tableVars, walletVars, TablePart, MoneyPart, MoneyStep

LEMMA IdleTyped == Idle \in Request
BY DEF Idle, Request

(* A record with some of its fields changed, each to what it may hold.      *)
LEMMA RequestMoves ==
  ASSUME NEW r \in Request,
         NEW s \in storeSteps \cup eventSteps \cup crmSteps \cup {"idle"}
  PROVE  /\ [r EXCEPT !.at = s] \in Request
         /\ \A rows \in SUBSET (PurchaseKey \cup User) :
              [r EXCEPT !.at = s, !.seen = rows] \in Request
         /\ \A rows \in SUBSET PurchaseKey, owners \in SUBSET (PurchaseKey \cup User) :
              [r EXCEPT !.at = s, !.moved = rows, !.seen = owners] \in Request
         /\ \A rows \in SUBSET User : [r EXCEPT !.at = s, !.held = rows] \in Request
         /\ \A u \in User \cup {NoUser}, a \in StoreTx \cup AdaptyEvent \cup CrmGrant \cup {None},
               n \in Notes \cup {"none"} :
              [r EXCEPT !.at = s, !.user = u, !.about = a, !.note = n] \in Request
         /\ \A u \in User \cup {NoUser}, a \in StoreTx \cup AdaptyEvent \cup CrmGrant \cup {None} :
              [r EXCEPT !.at = s, !.user = u, !.about = a] \in Request
         /\ \A rows \in SUBSET User, n \in Nat :
              [r EXCEPT !.at = s, !.held = rows, !.base = n] \in Request
<1>1. [r EXCEPT !.at = s] \in Request
  BY DEF Request
<1>2. ASSUME NEW rows \in SUBSET (PurchaseKey \cup User)
      PROVE  [r EXCEPT !.at = s, !.seen = rows] \in Request
  BY DEF Request
<1>3. ASSUME NEW rows \in SUBSET PurchaseKey, NEW owners \in SUBSET (PurchaseKey \cup User)
      PROVE  [r EXCEPT !.at = s, !.moved = rows, !.seen = owners] \in Request
  BY DEF Request
<1>4. ASSUME NEW rows \in SUBSET User
      PROVE  [r EXCEPT !.at = s, !.held = rows] \in Request
  BY DEF Request
<1>5. ASSUME NEW u \in User \cup {NoUser},
             NEW a \in StoreTx \cup AdaptyEvent \cup CrmGrant \cup {None},
             NEW n \in Notes \cup {"none"}
      PROVE  [r EXCEPT !.at = s, !.user = u, !.about = a, !.note = n] \in Request
  BY DEF Request
<1>6. ASSUME NEW rows \in SUBSET User, NEW n \in Nat
      PROVE  [r EXCEPT !.at = s, !.held = rows, !.base = n] \in Request
  BY DEF Request
<1>7. ASSUME NEW u \in User \cup {NoUser},
             NEW a \in StoreTx \cup AdaptyEvent \cup CrmGrant \cup {None}
      PROVE  [r EXCEPT !.at = s, !.user = u, !.about = a] \in Request
  BY DEF Request
<1> QED
  BY <1>1, <1>2, <1>3, <1>4, <1>5, <1>6, <1>7

(* One request moves on, the others do not.                                 *)
LEMMA OneMoves ==
  ASSUME call \in [Handler -> Request], NEW h \in Handler, NEW r \in Request,
         call' = [call EXCEPT ![h] = r]
  PROVE  /\ call'[h] = r /\ call' \in [Handler -> Request]
         /\ \A i \in Handler \ {h} : call'[i] = call[i]
OBVIOUS

LEMMA IdleOK ==
  ASSUME NEW h \in Handler, call'[h] = Idle
  PROVE  RequestOK(h)'
BY DEF RequestOK, Idle, at, storeSteps, eventSteps, crmSteps

(* A request that ends leaves nothing behind in its record.                 *)
LEMMA EndKeeps ==
  ASSUME Inv, NEW h \in Handler, ends(h), workload' = workload
  PROVE  CallPart(h)
BY IdleTyped, IdleOK DEF Inv, RequestsInv, ends, CallPart, Idle, crmSteps

-----------------------------------------------------------------------------
(* StepOf for the statements of a StoreKit request.                         *)
LEMMA BeginKeeps ==
  ASSUME Inv, NEW h \in Handler, NEW u \in User, NEW tx \in StoreTx,
         NEW note \in Notes \cup {"none"}, NEW s \in {"record", "revoke"},
         begin(h, s, u, tx, note), UNCHANGED <<tableVars, walletVars, acked, workload>>
  PROVE  StepOf(h)
<1>1. call'[h] = [Idle EXCEPT !.at = s, !.user = u, !.about = tx, !.note = note]
  BY DEF begin, Inv, RequestsInv
<1>2. call'[h] \in Request
  <2>1. s \in storeSteps \cup eventSteps \cup crmSteps \cup {"idle"}
    BY DEF storeSteps
  <2>2. [Idle EXCEPT !.at = s, !.user = u, !.about = tx, !.note = note] \in Request
    BY <2>1, IdleTyped, RequestMoves
  <2> QED
    BY <1>1, <2>2
<1>3. RequestOK(h)'
  BY <1>1 DEF RequestOK, Idle, at, storeSteps, eventSteps, crmSteps
<1>4. CallPart(h)
  BY <1>1, <1>2, <1>3 DEF begin, Inv, RequestsInv, CallPart, Idle, crmSteps
<1> QED
  BY <1>4, ReadsKeep DEF StepOf, Inv, SubscriptionTypeOK

LEMMA StoreCallKeeps ==
  ASSUME Inv, NEW h \in Handler, storeCall(h), UNCHANGED workload
  PROVE  StepOf(h)
<1>1. PICK tx \in workload.receipts :
        \/ \E u \in User : verify(h, u, tx)
        \/ \E note \in Notes : notify(h, tx, note)
  BY DEF storeCall
<1>2. tx \in StoreTx
  BY <1>1, BoundAssumption DEF Inv, RequestsInv
<1>3. UNCHANGED <<tableVars, walletVars, acked, workload>>
  BY <1>1 DEF storeCall, verify, notify, storeVars, tableVars
<1>4. ASSUME NEW u \in User, verify(h, u, tx) PROVE StepOf(h)
  BY <1>2, <1>3, <1>4, BeginKeeps DEF verify
<1>5. ASSUME NEW note \in Notes, notify(h, tx, note) PROVE StepOf(h)
  <2>1. usersOfChain(tx.chain) \subseteq User
    BY DEF usersOfChain, Inv, SubscriptionTypeOK
  <2> QED
    BY <1>2, <1>3, <1>5, <2>1, BeginKeeps DEF notify
<1> QED
  BY <1>1, <1>4, <1>5

(* The statements that only read, or write what no one else sees yet.       *)
LEMMA RecordKeeps ==
  ASSUME Inv, NEW h \in Handler, record(h), UNCHANGED <<acked, workload>>
  PROVE  StepOf(h)
<1>1. TablePart /\ MoneyPart(h)
  BY ReadsKeep DEF record, storeVars, tableVars, Inv, SubscriptionTypeOK
<1>2. CASE ends(h)
  BY <1>1, <1>2, EndKeeps DEF StepOf
<1>3. ASSUME ~ ends(h) PROVE CallPart(h)
  <2>1. /\ call'[h].at \in {"scanChain", "finish"}
        /\ call'[h].user = call[h].user /\ call'[h].about = call[h].about
        /\ call'[h].moved = call[h].moved /\ call'[h].held = call[h].held
        /\ call'[h] \in Request /\ call' \in [Handler -> Request]
        /\ \A i \in Handler \ {h} : call'[i] = call[i]
    BY <1>3 DEF record, next, Inv, RequestsInv, Request, storeSteps
  <2>2. RequestOK(h)'
    BY <1>1, <2>1 DEF record, RequestOK, at, storeSteps, eventSteps, crmSteps, Inv, RequestsInv,
       TablePart, Request
  <2> QED
    BY <2>1, <2>2 DEF CallPart, crmSteps
<1> QED
  BY <1>1, <1>2, <1>3 DEF StepOf

LEMMA ScanKeeps ==
  ASSUME Inv, NEW h \in Handler, scanChain(h), UNCHANGED <<acked, workload>>
  PROVE  StepOf(h)
<1>1. TablePart /\ MoneyPart(h)
  BY ReadsKeep DEF scanChain, storeVars, tableVars, Inv, SubscriptionTypeOK
<1> DEFINE rows == foreignPurchases(call[h].user, call[h].about)
<1>2. \A d \in rows : d \in PurchaseKey /\ purchase[d] # NoUser
  BY DEF foreignPurchases
<1> DEFINE moved == [call[h] EXCEPT !.at = "reassign", !.seen = rows]
<1>3. call' = [call EXCEPT ![h] = moved]
  BY DEF scanChain
<1> HIDE DEF rows
<1>4. moved \in Request
  BY <1>2, RequestMoves DEF Inv, RequestsInv, storeSteps
<1>5. /\ call'[h] = moved /\ call' \in [Handler -> Request]
      /\ \A i \in Handler \ {h} : call'[i] = call[i]
  BY <1>3, <1>4, OneMoves DEF Inv, RequestsInv
<1>6. RequestOK(h)'
  <2>1. /\ call'[h].at = "reassign" /\ call'[h].user = call[h].user
        /\ call'[h].about = call[h].about /\ call'[h].seen = rows
        /\ call'[h].moved = call[h].moved /\ call'[h].held = call[h].held
    BY <1>5 DEF Inv, RequestsInv, Request
  <2>2. /\ call[h].user \in User /\ call[h].about \in StoreTx
        /\ \A d \in call[h].moved : d \in PurchaseKey /\ purchase[d] # NoUser
        /\ \A v \in call[h].held : v \in User /\ subscription[v] # NoSubscription
    BY DEF scanChain, Inv, RequestsInv, RequestOK, Request, at, storeSteps
  <2> QED
    BY <1>1, <1>2, <2>1, <2>2
       DEF RequestOK, at, storeSteps, eventSteps, crmSteps, TablePart
<1> QED
  BY <1>1, <1>4, <1>5, <1>6
     DEF StepOf, CallPart, crmSteps, scanChain, Inv, RequestsInv, Request


LEMMA ReassignKeeps ==
  ASSUME Inv, NEW h \in Handler, reassign(h), UNCHANGED <<acked, workload>>
  PROVE  StepOf(h)
<1>1. TablePart /\ MoneyPart(h)
  BY ReadsKeep DEF reassign, storeVars, tableVars, Inv, SubscriptionTypeOK
<1> DEFINE rows == {d \in call[h].seen : purchase[d] # call[h].user}
           owners == foreignActive(call[h].user, call[h].about.chain)
<1>2. /\ \A d \in rows : d \in PurchaseKey /\ purchase[d] # NoUser
      /\ owners \subseteq User
  BY DEF foreignActive, Inv, RequestsInv, RequestOK, reassign, at
<1> DEFINE moved == [call[h] EXCEPT !.at = "expire", !.moved = rows, !.seen = owners]
<1>3. call' = [call EXCEPT ![h] = moved]
  BY DEF reassign
<1> HIDE DEF rows, owners
<1>4. moved \in Request
  BY <1>2, RequestMoves DEF Inv, RequestsInv, storeSteps
<1>5. /\ call'[h] = moved /\ call' \in [Handler -> Request]
      /\ \A i \in Handler \ {h} : call'[i] = call[i]
  BY <1>3, <1>4, OneMoves DEF Inv, RequestsInv
<1>6. RequestOK(h)'
  <2>1. /\ call'[h].at = "expire" /\ call'[h].user = call[h].user
        /\ call'[h].about = call[h].about /\ call'[h].seen = owners
        /\ call'[h].moved = rows /\ call'[h].held = call[h].held
    BY <1>5 DEF Inv, RequestsInv, Request
  <2>2. /\ call[h].user \in User /\ call[h].about \in StoreTx
        /\ \A d \in call[h].moved : d \in PurchaseKey /\ purchase[d] # NoUser
        /\ \A v \in call[h].held : v \in User /\ subscription[v] # NoSubscription
    BY DEF reassign, Inv, RequestsInv, RequestOK, Request, at, storeSteps
  <2> QED
    BY <1>1, <1>2, <2>1, <2>2
       DEF RequestOK, at, storeSteps, eventSteps, crmSteps, TablePart
<1> QED
  BY <1>1, <1>4, <1>5, <1>6
     DEF StepOf, CallPart, crmSteps, reassign, Inv, RequestsInv, Request


LEMMA ExpireKeeps ==
  ASSUME Inv, NEW h \in Handler, expire(h), UNCHANGED <<acked, workload>>
  PROVE  StepOf(h)
<1>1. TablePart /\ MoneyPart(h)
  BY ReadsKeep DEF expire, storeVars, tableVars, Inv, SubscriptionTypeOK
<1> DEFINE rows == {v \in call[h].seen : holdsActive(v, call[h].about.chain)}
<1>2. /\ \A v \in rows : v \in User /\ subscription[v] # NoSubscription
  BY DEF holdsActive, NoSubscription, Inv, RequestsInv, RequestOK, expire, at
<1> DEFINE moved == [call[h] EXCEPT !.at = "finish", !.held = rows]
<1>3. call' = [call EXCEPT ![h] = moved]
  BY DEF expire
<1> HIDE DEF rows
<1>4. moved \in Request
  BY <1>2, RequestMoves DEF Inv, RequestsInv, storeSteps
<1>5. /\ call'[h] = moved /\ call' \in [Handler -> Request]
      /\ \A i \in Handler \ {h} : call'[i] = call[i]
  BY <1>3, <1>4, OneMoves DEF Inv, RequestsInv
<1>6. RequestOK(h)'
  <2>1. /\ call'[h].at = "finish" /\ call'[h].user = call[h].user
        /\ call'[h].about = call[h].about /\ call'[h].seen = call[h].seen
        /\ call'[h].moved = call[h].moved /\ call'[h].held = rows
    BY <1>5 DEF Inv, RequestsInv, Request
  <2>2. /\ call[h].user \in User /\ call[h].about \in StoreTx
        /\ \A d \in call[h].moved : d \in PurchaseKey /\ purchase[d] # NoUser
        /\ \A v \in call[h].held : v \in User /\ subscription[v] # NoSubscription
    BY DEF expire, Inv, RequestsInv, RequestOK, Request, at, storeSteps
  <2> QED
    BY <1>1, <1>2, <2>1, <2>2
       DEF RequestOK, at, storeSteps, eventSteps, crmSteps, TablePart
<1> QED
  BY <1>1, <1>4, <1>5, <1>6
     DEF StepOf, CallPart, crmSteps, expire, Inv, RequestsInv, Request


-----------------------------------------------------------------------------
(* The rows of subscription_state a step may leave.                         *)
LEMMA RowTypes ==
  /\ \A provider \in {"apple", "adapty"},
        chain \in Ref \cup {None} \cup {crmKey(g) : g \in CrmGrant}, until \in Nat :
       /\ activeFrom(provider, chain, until) \in Subscription
       /\ activeFrom(provider, chain, until) # NoSubscription
  /\ \A row \in Subscription, status \in Status :
       /\ row # NoSubscription =>
            /\ [row EXCEPT !.status = status] \in Subscription
            /\ [row EXCEPT !.status = status] # NoSubscription
       /\ /\ [row EXCEPT !.status = status, !.provider = "adapty"] \in Subscription
          /\ [row EXCEPT !.status = status, !.provider = "adapty"] # NoSubscription
<1>1. ASSUME NEW provider \in {"apple", "adapty"}, NEW until \in Nat,
             NEW chain \in Ref \cup {None} \cup {crmKey(g) : g \in CrmGrant}
      PROVE  /\ activeFrom(provider, chain, until) \in Subscription
             /\ activeFrom(provider, chain, until) # NoSubscription
  BY DEF activeFrom, Subscription, Status, NoSubscription
<1>2. ASSUME NEW row \in Subscription, NEW status \in Status, row # NoSubscription
      PROVE  /\ [row EXCEPT !.status = status] \in Subscription
             /\ [row EXCEPT !.status = status] # NoSubscription
  BY <1>2 DEF Subscription, Status, NoSubscription
<1>3. ASSUME NEW row \in Subscription, NEW status \in Status
      PROVE  /\ [row EXCEPT !.status = status, !.provider = "adapty"] \in Subscription
             /\ [row EXCEPT !.status = status, !.provider = "adapty"] # NoSubscription
  <2> DEFINE new == [row EXCEPT !.status = status, !.provider = "adapty"]
  <2>1. /\ row.chain \in Ref \cup {None} \cup {crmKey(g) : g \in CrmGrant}
        /\ row.until \in Nat
    BY DEF Subscription, NoSubscription
  <2>2. row \in [status : Status \cup {"none"}, provider : {"apple", "adapty", "none"},
                chain : Ref \cup {None} \cup {crmKey(g) : g \in CrmGrant}, until : Nat]
    BY <2>1 DEF Subscription, NoSubscription
  <2>3. /\ new \in [status : Status, provider : {"apple", "adapty"},
                   chain : Ref \cup {None} \cup {crmKey(g) : g \in CrmGrant}, until : Nat]
        /\ new.status = status
    BY <2>2
  <2>4. new.status # NoSubscription.status
    BY <2>3 DEF Status, NoSubscription
  <2> QED
    BY <2>3, <2>4 DEF Subscription
<1> QED
  BY <1>1, <1>2, <1>3

(* One user's row is written.                                               *)
LEMMA OneRow ==
  ASSUME SubscriptionTypeOK, NEW u \in User, NEW row \in Subscription,
         row # NoSubscription, subscription' = [subscription EXCEPT ![u] = row]
  PROVE  /\ subscription' \in [User -> Subscription]
         /\ \A v \in User : subscription[v] # NoSubscription => subscription'[v] # NoSubscription
BY DEF SubscriptionTypeOK

(* finish: the rows change with the coins of a new purchase.                *)
LEMMA FinishKeeps ==
  ASSUME Inv, NEW h \in Handler, finish(h), UNCHANGED <<acked, workload>>
  PROVE  StepOf(h)
<1> DEFINE u == call[h].user
           tx == call[h].about
           d == dedup_key(u, tx)
<1>1. /\ u \in User /\ tx \in StoreTx /\ d \in PurchaseKey /\ d[1] = tx
      /\ tx.chain \in Ref /\ tx.until \in Nat /\ tx.coins \in Nat
      /\ purchaseKey(d) \in OpKey
  BY DedupKey, OutsideTypes, ChannelsApart
     DEF finish, Inv, RequestsInv, RequestOK, at, storeSteps
<1>2. CallPart(h)
  BY EndKeeps DEF finish
<1>3. \A c \in PurchaseKey :
        purchase'[c] = IF c \in inserting(h) \cup call[h].moved THEN u ELSE purchase[c]
  BY DEF finish, purchasesAfter
<1>4. inserting(h) = IF call[h].newly THEN {d} ELSE {}
  BY DEF inserting
<1>5. \A c \in call[h].moved : purchase[c] # NoUser
  BY DEF Inv, RequestsInv, RequestOK
<1>6. TablePart
  <2>1. purchase' \in [PurchaseKey -> User \cup {NoUser}]
    BY <1>1 DEF finish, purchasesAfter, Inv, SubscriptionTypeOK
  <2>2. \A c \in PurchaseKey : purchase[c] # NoUser => purchase'[c] # NoUser
    BY <1>1, <1>3, OutsideTypes
  <2>3. \A v \in call[h].held : subscription[v] # NoSubscription
    BY DEF Inv, RequestsInv, RequestOK
  <2>4. activeFrom("apple", tx.chain, tx.until) \in Subscription \ {NoSubscription}
    BY <1>1, RowTypes
  <2>5. ASSUME NEW v \in User
        PROVE  /\ subscriptionsAfter(h)[v] \in Subscription
               /\ subscription[v] # NoSubscription => subscriptionsAfter(h)[v] # NoSubscription
    <3>1. subscription[v] \in Subscription /\ "expired" \in Status
      BY DEF Inv, SubscriptionTypeOK, Status
    <3>2. v \in call[h].held =>
            [subscription[v] EXCEPT !.status = "expired"] \in Subscription \ {NoSubscription}
      BY <2>3, <3>1, RowTypes
    <3> QED
      BY <2>4, <3>1, <3>2 DEF subscriptionsAfter
  <2>6. subscription' \in [User -> Subscription]
    BY <2>5 DEF finish, subscriptionsAfter
  <2> QED
    BY <2>1, <2>2, <2>5, <2>6 DEF TablePart, finish, Inv, SubscriptionTypeOK
<1>7. CASE ~ call[h].newly
  BY <1>2, <1>3, <1>4, <1>5, <1>6, <1>7
     DEF finish, StepOf, MoneyPart, MoneyStep, walletVars
<1>8. CASE call[h].newly
  <2>1. grantTo(u, purchaseKey(d), tx.coins) /\ tx.coins = worth[purchaseKey(d)]
    BY <1>1, <1>8, WorthOf DEF finish
  <2>2. MoneyStep
    BY <1>1, <2>1, PaidInCoins DEF MoneyStep
  <2>3. /\ keys' \subseteq keys \cup {grantKey(purchaseKey(d))}
        /\ tx.coins > 0 => grantKey(purchaseKey(d)) \in keys'
    BY <1>1, <2>1, GrantStep DEF Inv
  <2>4. purchase'[d] # NoUser
    BY <1>1, <1>3, <1>4, <1>8, OutsideTypes
  <2>5. MoneyPart(h)
    BY <1>1, <1>3, <1>4, <1>5, <1>8, <2>2, <2>3, <2>4 DEF MoneyPart, finish
  <2> QED
    BY <1>2, <1>6, <2>5 DEF StepOf
<1> QED
  BY <1>7, <1>8 DEF Inv, RequestsInv, Request

LEMMA RevokeKeeps ==
  ASSUME Inv, NEW h \in Handler, revoke(h), UNCHANGED <<acked, workload>>
  PROVE  StepOf(h)
<1> DEFINE u == call[h].user
           status == IF call[h].note = "EXPIRED" THEN "expired" ELSE "canceled"
<1>1. u \in User /\ status \in Status
  BY DEF revoke, Inv, RequestsInv, RequestOK, at, storeSteps, Status
<1>2. CallPart(h)
  BY EndKeeps DEF revoke
<1>3. CASE subscription[u] = NoSubscription
  BY <1>2, <1>3, ReadsKeep DEF revoke, StepOf, tableVars, Inv, SubscriptionTypeOK
<1>4. CASE subscription[u] # NoSubscription
  <2>1. [subscription[u] EXCEPT !.status = status] \in Subscription \ {NoSubscription}
    BY <1>1, <1>4, RowTypes DEF Inv, SubscriptionTypeOK
  <2>2. subscription' = [subscription EXCEPT ![u] = [subscription[u] EXCEPT !.status = status]]
    BY <1>4 DEF revoke
  <2>3. TablePart
    BY <1>1, <2>1, <2>2, OneRow DEF revoke, TablePart, Inv, SubscriptionTypeOK
  <2> QED
    BY <1>2, <2>3 DEF revoke, StepOf, MoneyPart, MoneyStep, walletVars
<1> QED
  BY <1>3, <1>4

-----------------------------------------------------------------------------
(* StepOf for the events of Adapty.                                         *)
LEMMA DeliverKeeps ==
  ASSUME Inv, NEW h \in Handler, NEW e \in AdaptyEvent, deliver(h, e), UNCHANGED workload
  PROVE  StepOf(h)
<1>1. acked' \subseteq AdaptyEvent
  BY DEF deliver, Inv, SubscriptionTypeOK
<1>2. TablePart /\ MoneyPart(h)
  BY <1>1, ReadsKeep DEF deliver
<1>3. CASE call' = call
  BY <1>2, <1>3 DEF StepOf, CallPart, TablePart, RequestOK, at, Inv, RequestsInv, Request
<1>4. CASE ~ dismissed(e)
           /\ call' = [call EXCEPT ![h] = [Idle EXCEPT !.at = "event", !.user = e.user, !.about = e]]
  <2> DEFINE new == [Idle EXCEPT !.at = "event", !.user = e.user, !.about = e]
  <2>1. e.user \in User
    BY <1>4, OutsideTypes DEF dismissed, resolved
  <2>2. /\ e.user \in User \cup {NoUser}
        /\ e \in StoreTx \cup AdaptyEvent \cup CrmGrant \cup {None}
        /\ "event" \in storeSteps \cup eventSteps \cup crmSteps \cup {"idle"}
    BY <2>1 DEF eventSteps
  <2>3. new \in Request
    BY <2>2, IdleTyped, RequestMoves
  <2>4. call' = [call EXCEPT ![h] = new]
    BY <1>4
  <2>5. /\ call'[h] = new /\ call' \in [Handler -> Request]
        /\ \A i \in Handler \ {h} : call'[i] = call[i]
    BY <2>3, <2>4, OneMoves DEF Inv, RequestsInv
  <2>6. /\ new.at = "event" /\ new.user = e.user /\ new.about = e
        /\ new.moved = {} /\ new.held = {}
    BY DEF Idle
  <2>7. RequestOK(h)'
    BY <2>1, <2>5, <2>6 DEF RequestOK, at, storeSteps, eventSteps, crmSteps
  <2> QED
    BY <1>2, <2>5, <2>6, <2>7 DEF StepOf, CallPart, crmSteps
<1> QED
  BY <1>3, <1>4 DEF deliver

(* What a request about an event knows.                                     *)
LEMMA EventRequest ==
  ASSUME Inv, NEW h \in Handler, call[h].at \in eventSteps
  PROVE  call[h].user \in User /\ call[h].about \in AdaptyEvent
BY DEF Inv, RequestsInv, RequestOK

LEMMA AnswerKeeps ==
  ASSUME Inv, NEW h \in Handler, call[h].at \in eventSteps,
         answered(h, call[h].about), workload' = workload
  PROVE  CallPart(h) /\ acked' \subseteq AdaptyEvent
BY EndKeeps, EventRequest DEF answered, Inv, SubscriptionTypeOK

(* The request goes on to a statement that needs no more than the last one. *)
LEMMA EventMovesOn ==
  ASSUME Inv, NEW h \in Handler, call[h].at \in eventSteps,
         NEW s \in {"applyEvent", "expireMissing"},
         s = "expireMissing" => ExpiringEvent(call[h].about),
         call' = [call EXCEPT ![h].at = s], UNCHANGED <<purchase, subscription>>,
         workload' = workload
  PROVE  CallPart(h)
<1> DEFINE new == [call[h] EXCEPT !.at = s]
<1>1. s \in storeSteps \cup eventSteps \cup crmSteps \cup {"idle"}
  BY DEF eventSteps
<1>2. new \in Request
  BY <1>1, RequestMoves DEF Inv, RequestsInv
<1>3. /\ call'[h] = new /\ call' \in [Handler -> Request]
      /\ \A i \in Handler \ {h} : call'[i] = call[i]
  BY <1>2, OneMoves DEF Inv, RequestsInv
<1>4. /\ new.at = s /\ new.user = call[h].user /\ new.about = call[h].about
      /\ new.moved = call[h].moved /\ new.held = call[h].held
  BY DEF Inv, RequestsInv, Request
<1>5. RequestOK(h)'
  BY <1>3, <1>4 DEF RequestOK, at, storeSteps, eventSteps, crmSteps, Inv, RequestsInv
<1> QED
  BY <1>3, <1>4, <1>5 DEF CallPart, crmSteps

(* No event both pays and ends; one of no consequence does neither.         *)
LEMMA EventClasses ==
  \A e \in AdaptyEvent :
    /\ ~ (GrantingEvent(e) /\ ExpiringEvent(e))
    /\ NoopEvent(e) => ~ GrantingEvent(e)
BY DEF GrantingEvent, ExpiringEvent, NoopEvent, Granting, Expiring

LEMMA RecordEventKeeps ==
  ASSUME Inv, NEW h \in Handler, recordEvent(h), UNCHANGED workload
  PROVE  StepOf(h)
<1>1. call[h].at \in eventSteps /\ call[h].about \in AdaptyEvent
  BY EventRequest DEF recordEvent, at, eventSteps
<1>2. CallPart(h)
  BY <1>1, AnswerKeeps, EventMovesOn DEF recordEvent
<1>3. acked' \subseteq AdaptyEvent /\ events' \subseteq AdaptyEvent
  BY <1>1 DEF recordEvent, answered, Inv, SubscriptionTypeOK
<1>4. \A e \in events' \ events : ~ GrantingEvent(e)
  BY <1>1, EventClasses DEF recordEvent
<1>5. TablePart
  BY <1>3 DEF recordEvent, TablePart, Inv, SubscriptionTypeOK
<1> QED
  BY <1>2, <1>4, <1>5 DEF recordEvent, StepOf, MoneyPart, MoneyStep, walletVars

LEMMA ActivateKeeps ==
  ASSUME Inv, NEW h \in Handler, activate(h), UNCHANGED workload
  PROVE  StepOf(h)
<1> DEFINE e == call[h].about
           u == call[h].user
           k == adaptyKey(grantRef(e))
<1>1. call[h].at \in eventSteps
  BY DEF activate, at, eventSteps
<1>2. /\ u \in User /\ e \in AdaptyEvent /\ grantRef(e) \in Ref /\ k \in OpKey
      /\ e.chain \in Ref \cup {None} /\ e.until \in Nat /\ coinsFor(e) \in Nat
  BY <1>1, EventRequest, OutsideTypes, ChannelsApart
<1>3. CallPart(h) /\ acked' \subseteq AdaptyEvent
  BY <1>1, AnswerKeeps DEF activate
<1>4. activeFrom("adapty", e.chain, e.until) \in Subscription \ {NoSubscription}
  BY <1>2, RowTypes
<1>5. TablePart
  BY <1>2, <1>3, <1>4, OneRow DEF activate, TablePart, Inv, SubscriptionTypeOK
<1>6. grantTo(u, k, coinsFor(e)) /\ (PeriodsAgree => coinsFor(e) = worth[k])
  BY <1>2, WorthOf DEF activate
<1>7. MoneyStep
  BY <1>2, <1>6, PaidInCoins DEF MoneyStep
<1>8. /\ keys' \subseteq keys \cup {grantKey(k)}
      /\ coinsFor(e) > 0 => grantKey(k) \in keys'
  BY <1>2, <1>6, GrantStep DEF Inv
<1>9. purchase' = purchase /\ events' = events \cup {e}
  BY DEF activate
<1>10. MoneyPart(h)
  BY <1>2, <1>7, <1>8, <1>9 DEF MoneyPart
<1> QED
  BY <1>3, <1>5, <1>10 DEF StepOf

LEMMA ExpireRowKeeps ==
  ASSUME Inv, NEW h \in Handler, expireRow(h) \/ expireMissing(h), UNCHANGED workload
  PROVE  StepOf(h)
<1> DEFINE e == call[h].about
           u == call[h].user
<1>1. call[h].at \in eventSteps
  BY DEF expireRow, expireMissing, at, eventSteps
<1>2. u \in User /\ e \in AdaptyEvent /\ endStatus(e) \in Status
  BY <1>1, EventRequest DEF endStatus, Status
<1>3. CallPart(h) /\ acked' \subseteq AdaptyEvent
  BY <1>1, AnswerKeeps DEF expireRow, expireMissing
<1>4. ~ GrantingEvent(e)
  BY <1>2, EventClasses DEF expireRow, expireMissing, Inv, RequestsInv, RequestOK
<1>5. PICK row \in Subscription \ {NoSubscription} :
        subscription' = [subscription EXCEPT ![u] = row]
  <2>1. CASE expireRow(h)
    <3>1. [subscription[u] EXCEPT !.status = endStatus(e)] \in Subscription \ {NoSubscription}
      BY <1>2, <2>1, RowTypes DEF expireRow, Inv, SubscriptionTypeOK
    <3>2. subscription' =
            [subscription EXCEPT ![u] = [subscription[u] EXCEPT !.status = endStatus(e)]]
      BY <2>1 DEF expireRow
    <3> QED
      BY <3>1, <3>2
  <2>2. CASE expireMissing(h)
    <3> DEFINE new == [subscription[u] EXCEPT !.status = endStatus(e), !.provider = "adapty"]
    <3>1. new \in Subscription \ {NoSubscription}
      BY <1>2, RowTypes DEF Inv, SubscriptionTypeOK
    <3>2. subscription' = [subscription EXCEPT ![u] = new]
      BY <1>2, <2>2 DEF expireMissing, Inv, SubscriptionTypeOK
    <3> QED
      BY <3>1, <3>2
  <2> QED
    BY <2>1, <2>2
<1>6. /\ events' = events \cup {e}
      /\ UNCHANGED <<purchase, grantee, walletVars>>
  BY DEF expireRow, expireMissing
<1>7. TablePart
  BY <1>2, <1>3, <1>5, <1>6, OneRow DEF TablePart, Inv, SubscriptionTypeOK
<1> QED
  BY <1>3, <1>4, <1>6, <1>7 DEF StepOf, MoneyPart, MoneyStep, walletVars

LEMMA FindNoRowKeeps ==
  ASSUME Inv, NEW h \in Handler, findNoRow(h), UNCHANGED workload
  PROVE  StepOf(h)
<1>1. CallPart(h)
  BY EventMovesOn DEF findNoRow, at, eventSteps, tableVars
<1> QED
  BY <1>1, ReadsKeep DEF findNoRow, StepOf, Inv, SubscriptionTypeOK

-----------------------------------------------------------------------------
(* StepOf for the grants of the CRM and of the admin, and for an abort.     *)
LEMMA CrmGrantKeeps ==
  ASSUME Inv, NEW h \in Handler, NEW g \in CrmGrant, crmGrant(h, g),
         UNCHANGED <<acked, workload>>
  PROVE  StepOf(h)
<1> DEFINE new == [Idle EXCEPT !.at = "lockRow", !.user = g.user, !.about = g]
<1>1. /\ g.user \in User \cup {NoUser}
      /\ g \in StoreTx \cup AdaptyEvent \cup CrmGrant \cup {None}
      /\ "lockRow" \in storeSteps \cup eventSteps \cup crmSteps \cup {"idle"}
  BY OutsideTypes DEF crmSteps
<1>2. new \in Request
  BY <1>1, IdleTyped, RequestMoves
<1>3. call' = [call EXCEPT ![h] = new]
  BY DEF crmGrant
<1>4. /\ call'[h] = new /\ call' \in [Handler -> Request]
      /\ \A i \in Handler \ {h} : call'[i] = call[i]
  BY <1>2, <1>3, OneMoves DEF Inv, RequestsInv
<1>5. /\ new.at = "lockRow" /\ new.user = g.user /\ new.about = g
      /\ new.moved = {} /\ new.held = {}
  BY DEF Idle
<1>6. RequestOK(h)'
  BY <1>4, <1>5 DEF RequestOK, at, storeSteps, eventSteps, crmSteps
<1>7. CallPart(h)
  BY <1>4, <1>5, <1>6 DEF CallPart, crmSteps, crmGrant
<1> QED
  BY <1>7, ReadsKeep DEF crmGrant, StepOf, Inv, SubscriptionTypeOK

LEMMA LockRowKeeps ==
  ASSUME Inv, NEW h \in Handler, lockRow(h), UNCHANGED <<acked, workload>>
  PROVE  StepOf(h)
<1> DEFINE row == subscription[call[h].user]
           rows == IF row = NoSubscription THEN {} ELSE {call[h].user}
           from == IF row.status = "active" /\ row.until > Now THEN row.until ELSE Now
           new == [call[h] EXCEPT !.at = "applyGrant", !.held = rows, !.base = from]
<1>1. call[h].about \in CrmGrant /\ call[h].user = call[h].about.user /\ call[h].user \in User
  BY OutsideTypes DEF lockRow, at, crmSteps, Inv, RequestsInv, RequestOK
<1>2. call' = [call EXCEPT ![h] = new]
  BY DEF lockRow
<1>3. row \in Subscription /\ row.until \in Nat
  BY <1>1 DEF Inv, SubscriptionTypeOK, Subscription, NoSubscription
<1>4. /\ rows \in SUBSET User /\ \A v \in rows : subscription[v] # NoSubscription
      /\ from \in Nat
      /\ "applyGrant" \in storeSteps \cup eventSteps \cup crmSteps \cup {"idle"}
  BY <1>1, <1>3, OutsideTypes DEF crmSteps
<1> HIDE DEF rows, from
<1>5. new \in Request
  BY <1>4, RequestMoves DEF Inv, RequestsInv
<1>6. /\ call'[h] = new /\ call' \in [Handler -> Request]
      /\ \A i \in Handler \ {h} : call'[i] = call[i]
  BY <1>2, <1>5, OneMoves DEF Inv, RequestsInv
<1>7. /\ new.at = "applyGrant" /\ new.user = call[h].user /\ new.about = call[h].about
      /\ new.moved = call[h].moved /\ new.held = rows
  BY DEF Inv, RequestsInv, Request
<1>8. UNCHANGED <<tableVars, walletVars>> /\ call[h].at = "lockRow"
  BY DEF lockRow, at
<1>9. \A d \in call[h].moved : purchase[d] # NoUser
  BY DEF Inv, RequestsInv, RequestOK
<1>10. RequestOK(h)'
  BY <1>1, <1>4, <1>6, <1>7, <1>8, <1>9
     DEF RequestOK, at, storeSteps, eventSteps, crmSteps, tableVars
<1>11. CallPart(h)
  BY <1>6, <1>7, <1>8, <1>10 DEF CallPart, crmSteps
<1> QED
  BY <1>8, <1>11, ReadsKeep DEF StepOf, Inv, SubscriptionTypeOK

LEMMA ApplyGrantKeeps ==
  ASSUME Inv, NEW h \in Handler, applyGrant(h), UNCHANGED <<acked, workload>>
  PROVE  StepOf(h)
<1> DEFINE g == call[h].about
           u == call[h].user
           k == crmKey(g)
           row == activeFrom("apple", k, call[h].base + 1)
<1>1. /\ g \in CrmGrant /\ u \in User /\ k \in OpKey /\ g.coins \in Nat /\ g.coins > 0
      /\ worth[k] = g.coins /\ call[h].at \in crmSteps /\ call[h].base + 1 \in Nat
  BY OutsideTypes, ChannelsApart, WorthOf
     DEF applyGrant, at, crmSteps, Inv, RequestsInv, RequestOK, Request
<1>2. CallPart(h) /\ call'[h] = Idle
  BY EndKeeps DEF applyGrant, ends, Inv, RequestsInv
<1>3. row \in Subscription \ {NoSubscription}
  BY <1>1, RowTypes
<1>4. TablePart
  BY <1>1, <1>3, OneRow DEF applyGrant, TablePart, Inv, SubscriptionTypeOK
<1>5. CASE grantKey(k) \notin keys
  <2>1. grantTo(u, k, g.coins)
    BY <1>1, <1>5 DEF applyGrant, grantCoinsIgnoringDuplicate, grantTo, grantCoins
  <2>2. MoneyStep
    BY <1>1, <2>1, PaidInCoins DEF MoneyStep
  <2>3. keys' \subseteq keys \cup {grantKey(k)}
    BY <1>1, <2>1, GrantStep DEF Inv
  <2>4. call'[h].at \notin crmSteps
    BY <1>2 DEF Idle, crmSteps
  <2> QED
    BY <1>1, <1>2, <1>4, <2>2, <2>3, <2>4 DEF StepOf, MoneyPart, applyGrant
<1>6. CASE grantKey(k) \in keys
  <2>1. OverlapCrm
    BY <1>1, <1>6 DEF Inv, CrmInv
  <2>2. /\ available' = [available EXCEPT ![u] = @ + g.coins]
        /\ UNCHANGED <<reserved, hold, keys, booked, grantee>>
    BY <1>6 DEF applyGrant, grantCoinsIgnoringDuplicate, appendKeyed
  <2>3. MoneyStep
    BY <1>1, <2>1, <2>2 DEF MoneyStep
  <2> QED
    BY <1>2, <1>4, <2>2, <2>3 DEF StepOf, MoneyPart, applyGrant
<1> QED
  BY <1>5, <1>6

(* What an operator does by hand leaves every request where it was.         *)
LEMMA AdminKeeps ==
  ASSUME Inv, NEW h \in Handler, adminCall(h), UNCHANGED workload,
         calls < workload.calls, calls' = calls + 1
  PROVE  StepOf(h)
<1>1. PICK u \in User : grantManually(h, u) \/ revokeManually(h, u)
  BY DEF adminCall
<1>2. at(h, "idle") /\ call' = call /\ acked' = acked
  BY <1>1 DEF adminCall, grantManually, revokeManually
<1>3. PICK row \in Subscription \ {NoSubscription} :
        subscription' = [subscription EXCEPT ![u] = row]
  <2>1. CASE grantManually(h, u)
    <3>1. activeFrom("apple", None, Now + 1) \in Subscription \ {NoSubscription}
      <4>1. /\ None \in Ref \cup {None} \cup {crmKey(g) : g \in CrmGrant}
            /\ Now + 1 \in Nat
        BY OutsideTypes
      <4> QED
        BY <4>1, RowTypes
    <3> QED
      BY <2>1, <3>1 DEF grantManually
  <2>2. CASE revokeManually(h, u)
    <3>1. [subscription[u] EXCEPT !.status = "canceled"] \in Subscription \ {NoSubscription}
      BY <2>2, RowTypes DEF revokeManually, Inv, SubscriptionTypeOK, Status
    <3>2. subscription' = [subscription EXCEPT ![u] = [subscription[u] EXCEPT !.status = "canceled"]]
      BY <2>2 DEF revokeManually
    <3> QED
      BY <3>1, <3>2
  <2> QED
    BY <1>1, <2>1, <2>2
<1>4. /\ UNCHANGED <<purchase, events, grantee>> /\ keys' = keys
      /\ MoneyStep
  BY <1>1, OutsideTypes DEF grantManually, revokeManually, grant_credits, appendEntry, MoneyStep, walletVars
<1>5. TablePart
  BY <1>2, <1>3, <1>4, OneRow DEF TablePart, Inv, SubscriptionTypeOK
<1>6. CallPart(h)
  BY <1>2, <1>5 DEF CallPart, TablePart, RequestOK, at, storeSteps, eventSteps, crmSteps,
     Inv, RequestsInv, Request
<1> QED
  BY <1>4, <1>5, <1>6 DEF StepOf, MoneyPart

LEMMA AbortKeeps ==
  ASSUME Inv, NEW h \in Handler, abort(h)
  PROVE  StepOf(h)
<1>1. CallPart(h)
  BY EndKeeps DEF abort
<1> QED
  BY <1>1, ReadsKeep DEF abort, StepOf, Inv, SubscriptionTypeOK

-----------------------------------------------------------------------------
(* Every step is one of these.                                              *)
LEMMA EveryStep ==
  ASSUME Inv, Next
  PROVE  \E h \in Handler : StepOf(h)
<1>1. PICK h \in Handler : newCall(h) \/ firstDelivery(h) \/ serve(h) \/ abort(h)
  BY DEF Next
<1>2. CASE newCall(h)
  <2>1. UNCHANGED workload
    BY <1>2 DEF newCall
  <2>2. CASE storeCall(h)
    BY <2>1, <2>2, StoreCallKeeps
  <2>3. CASE crmCall(h)
    <3>1. PICK g \in workload.grants : crmGrant(h, g)
      BY <2>3 DEF crmCall
    <3>2. g \in CrmGrant
      <4>1. workload.grants \subseteq CrmGrant
        BY BoundAssumption DEF Inv, RequestsInv
      <4> QED
        BY <4>1
    <3> QED
      BY <2>1, <2>3, <3>1, <3>2, CrmGrantKeeps DEF crmCall
  <2>4. CASE adminCall(h)
    BY <1>2, <2>1, <2>4, AdminKeeps DEF newCall
  <2>5. CASE repeatDelivery(h)
    BY <2>1, <2>5, DeliverKeeps DEF repeatDelivery, Inv, SubscriptionTypeOK
  <2> QED
    BY <1>2, <2>2, <2>3, <2>4, <2>5 DEF newCall
<1>3. CASE firstDelivery(h)
  <2>1. workload.events \subseteq AdaptyEvent
    BY BoundAssumption DEF Inv, RequestsInv
  <2> QED
    BY <1>3, <2>1, DeliverKeeps DEF firstDelivery, boundVars
<1>4. CASE serve(h)
  <2>1. workload' = workload
    BY <1>4 DEF serve, boundVars
  <2>2. CASE storeKit(h) /\ UNCHANGED acked
    BY <2>1, <2>2, RecordKeeps, ScanKeeps, ReassignKeeps, ExpireKeeps, FinishKeeps, RevokeKeeps
       DEF storeKit
  <2>3. CASE crm(h) /\ UNCHANGED acked
    BY <2>1, <2>3, LockRowKeeps, ApplyGrantKeeps DEF crm
  <2>4. CASE adapty(h)
    BY <2>1, <2>4, RecordEventKeeps, ActivateKeeps, ExpireRowKeeps, FindNoRowKeeps DEF adapty
  <2> QED
    BY <1>4, <2>2, <2>3, <2>4 DEF serve
<1>5. CASE abort(h)
  BY <1>5, AbortKeeps
<1> QED
  BY <1>1, <1>2, <1>3, <1>4, <1>5

-----------------------------------------------------------------------------
(* The invariant holds at first.                                            *)
LEMMA InitInv == Init => Inv
<1> SUFFICES ASSUME Init PROVE Inv
  OBVIOUS
<1>1. /\ purchase = [d \in PurchaseKey |-> NoUser]
      /\ subscription = [u \in User |-> NoSubscription]
      /\ events = {} /\ acked = {} /\ keys = {}
      /\ grantee = [k \in OpKey |-> NoUser]
      /\ call = [h \in Handler |-> Idle]
      /\ workload \in Workloads
  BY DEF Init, BillingInit, WalletInit
<1>2. WalletTypeOK
  BY DEF Init, BillingInit, WalletInit, WalletTypeOK
<1>3. SubscriptionTypeOK
  BY <1>1, <1>2 DEF SubscriptionTypeOK, Subscription
<1>4. RequestsInv
  BY <1>1, IdleTyped DEF RequestsInv, RequestOK, Idle, at, storeSteps, eventSteps, crmSteps
<1>5. EntriesInv
  BY <1>1 DEF EntriesInv
<1>6. CrmInv
  BY <1>1 DEF CrmInv, Idle, crmSteps
<1>7. RecordedIsPaid
  BY <1>1 DEF RecordedIsPaid
<1> QED
  BY <1>3, <1>4, <1>5, <1>6, <1>7 DEF Inv

(* The requests that did not move find what they rely on.                   *)
LEMMA RequestsKept ==
  ASSUME Inv, NEW h \in Handler, StepOf(h)
  PROVE  RequestsInv'
<1>1. ASSUME NEW i \in Handler \ {h} PROVE RequestOK(i)'
  <2>1. /\ \A d \in call[i].moved : d \in PurchaseKey
        /\ \A v \in call[i].held : v \in User
    BY DEF Inv, RequestsInv, Request
  <2>2. call'[i] = call[i]
    BY DEF StepOf, CallPart
  <2>3. RequestOK(i)
    BY DEF Inv, RequestsInv
  <2> QED
    BY <2>1, <2>2, <2>3 DEF StepOf, TablePart, RequestOK, at
<1> QED
  BY <1>1 DEF StepOf, CallPart, Inv, RequestsInv

(* A key of the CRM comes only from the one request that grants it.         *)
LEMMA CrmKept ==
  ASSUME Inv, NEW h \in Handler, StepOf(h)
  PROVE  CrmInv'
<1> SUFFICES ASSUME ~ OverlapCrm, NEW i \in Handler, call'[i].at \in crmSteps
             PROVE  /\ grantKey(crmKey(call'[i].about)) \notin keys'
                    /\ \A j \in Handler :
                         call'[j].at \in crmSteps /\ call'[j].about = call'[i].about => j = i
  BY DEF CrmInv
<1>1. \A j \in Handler : call'[j].at \in crmSteps =>
        \/ call[j].at \in crmSteps /\ call'[j].about = call[j].about
        \/ /\ j = h /\ grantKey(crmKey(call'[h].about)) \notin keys
           /\ ~ beingGranted(call'[h].about)
  BY DEF StepOf, CallPart
<1>2. grantKey(crmKey(call'[i].about)) \notin keys
  BY <1>1 DEF Inv, CrmInv
<1>3. ~ (call[h].at \in crmSteps /\ call'[h].at \notin crmSteps
         /\ call[h].about = call'[i].about)
  <2>1. i # h => call[i].at \in crmSteps /\ call'[i].about = call[i].about
    BY <1>1
  <2> QED
    BY <2>1 DEF Inv, CrmInv
<1>4. grantKey(crmKey(call'[i].about)) \notin keys'
  <2> SUFFICES ASSUME grantKey(crmKey(call'[i].about)) \in keys' \ keys PROVE FALSE
    BY <1>2
  <2>1. call[h].at \in crmSteps /\ call'[h].at \notin crmSteps
        /\ grantKey(crmKey(call'[i].about)) = grantKey(crmKey(call[h].about))
    BY KeysDiffer DEF StepOf, MoneyPart
  <2> QED
    BY <1>3, <2>1, KeysDiffer
<1>5. ASSUME NEW j \in Handler, call'[j].at \in crmSteps, call'[j].about = call'[i].about
      PROVE  j = i
  BY <1>1, <1>5 DEF Inv, CrmInv, beingGranted, crmSteps
<1> QED
  BY <1>4, <1>5

(* A row comes with its entry, an entry with its row.                       *)
LEMMA PaidKept ==
  ASSUME Inv, NEW h \in Handler, StepOf(h), keys \subseteq keys'
  PROVE  RecordedIsPaid'
<1>1. ASSUME NEW d \in PurchaseKey, d[1].coins > 0
      PROVE  purchase'[d] # NoUser <=> grantKey(purchaseKey(d)) \in keys'
  <2>1. purchase[d] # NoUser <=> grantKey(purchaseKey(d)) \in keys
    BY <1>1 DEF Inv, RecordedIsPaid
  <2>2. purchase[d] # NoUser => purchase'[d] # NoUser
    BY DEF StepOf, TablePart
  <2>3. purchase[d] = NoUser /\ purchase'[d] # NoUser => grantKey(purchaseKey(d)) \in keys'
    BY <1>1 DEF StepOf, MoneyPart
  <2>4. grantKey(purchaseKey(d)) \in keys' \ keys => purchase'[d] # NoUser
    <3>1. SUFFICES ASSUME grantKey(purchaseKey(d)) \in keys' \ keys PROVE purchase'[d] # NoUser
      OBVIOUS
    <3>2. \/ \E c \in PurchaseKey :
               grantKey(purchaseKey(d)) = grantKey(purchaseKey(c)) /\ purchase'[c] # NoUser
          \/ \E r \in Ref : grantKey(purchaseKey(d)) = grantKey(adaptyKey(r))
          \/ grantKey(purchaseKey(d)) = grantKey(crmKey(call[h].about))
      BY <3>1 DEF StepOf, MoneyPart
    <3> QED
      BY <3>2, KeysDiffer
  <2> QED
    BY <2>1, <2>2, <2>3, <2>4
<1>2. ASSUME NEW e \in events', GrantingEvent(e), coinsFor(e) > 0
      PROVE  grantKey(adaptyKey(grantRef(e))) \in keys'
  BY <1>2 DEF StepOf, MoneyPart, Inv, RecordedIsPaid
<1> QED
  BY <1>1, <1>2 DEF RecordedIsPaid

LEMMA NextInv == Inv /\ [Next]_vars => Inv'
<1> SUFFICES ASSUME Inv, [Next]_vars PROVE Inv'
  OBVIOUS
<1>1. CASE UNCHANGED vars
  <2>1. UNCHANGED <<tableVars, walletVars, call, acked, workload>>
    BY <1>1 DEF vars, boundVars
  <2>2. SubscriptionTypeOK'
    BY <2>1 DEF Inv, SubscriptionTypeOK, WalletTypeOK, tableVars, walletVars
  <2>3. RequestsInv'
    BY <2>1 DEF Inv, RequestsInv, RequestOK, at, tableVars
  <2>4. EntriesInv' /\ CrmInv' /\ RecordedIsPaid'
    BY <2>1 DEF Inv, EntriesInv, CrmInv, RecordedIsPaid, tableVars, walletVars
  <2> QED
    BY <2>2, <2>3, <2>4 DEF Inv
<1>2. CASE Next
  <2>1. PICK h \in Handler : StepOf(h)
    BY <1>2, EveryStep
  <2>2. /\ WalletTypeOK' /\ grantee' \in [OpKey -> User \cup {NoUser}]
        /\ EntriesInv' /\ keys \subseteq keys'
    BY <2>1, MoneyKept DEF Inv, StepOf, MoneyPart
  <2>3. SubscriptionTypeOK'
    BY <2>1, <2>2 DEF StepOf, TablePart, SubscriptionTypeOK
  <2> QED
    BY <2>1, <2>2, <2>3, RequestsKept, CrmKept, PaidKept DEF Inv
<1> QED
  BY <1>1, <1>2

LEMMA SubscriptionInv == Spec => []Inv
BY InitInv, NextInv, PTL DEF Spec

-----------------------------------------------------------------------------
(* The rows stay whole and the coins non-negative: an event that finds no   *)
(* subscription leaves a row that names its provider, whoever writes it too.*)
THEOREM SubscriptionTypes == Spec => []SubscriptionTypeOK
<1>1. Inv => SubscriptionTypeOK
  BY DEF Inv
<1> QED
  BY <1>1, SubscriptionInv, PTL

(* Purchases and paying events on one side and ledger entries on the other  *)
(* come together, whichever request commits, aborts or is repeated.         *)
THEOREM PaidWithRecord == Spec => []RecordedIsPaid
<1>1. Inv => RecordedIsPaid
  BY DEF Inv
<1> QED
  BY <1>1, SubscriptionInv, PTL

(* A receipt signed by Apple has one key, whoever presents it and whatever  *)
(* environment it claims, so it has at most one entry in the ledger.        *)
THEOREM AppleReceiptOnce == Spec => []ReceiptPaidOnce
<1>1. ASSUME Inv PROVE ReceiptPaidOnce
  <2> SUFFICES ASSUME NEW tx \in StoreTx, tx.root = "apple"
               PROVE  Cardinality({k \in keys : k[2][1] = "purchase" /\ k[2][2][1] = tx}) <= 1
    BY DEF ReceiptPaidOnce
  <2> DEFINE entries == {k \in keys : k[2][1] = "purchase" /\ k[2][2][1] = tx}
             only == grantKey(purchaseKey(<<tx, NoUser>>))
  <2>1. ASSUME NEW k \in entries PROVE k = only
    <3>1. PICK o \in OpKey : k = grantKey(o)
      BY <1>1 DEF Inv, EntriesInv
    <3>2. k[2] = o
      BY <3>1 DEF grantKey
    <3>3. PICK d \in PurchaseKey : o = purchaseKey(d)
      BY <3>2, ChannelsApart DEF adaptyKey, crmKey
    <3>4. d[1] = tx
      BY <3>2, <3>3 DEF purchaseKey
    <3>5. d = <<tx, NoUser>>
      BY <3>4 DEF PurchaseKey, dedup_key, environment
    <3> QED
      BY <3>1, <3>3, <3>5
  <2>2. entries \subseteq {only}
    BY <2>1
  <2> HIDE DEF entries, only
  <2>3. IsFiniteSet({only}) /\ Cardinality({only}) = 1
    BY FS_Singleton
  <2>4. Cardinality(entries) <= 1
    BY <2>2, <2>3, FS_Subset
  <2> QED
    BY <2>4 DEF entries
<1>2. Inv => ReceiptPaidOnce
  BY <1>1
<1> QED
  BY <1>2, SubscriptionInv, PTL

(* If two events of one period never disagree on its coins and the CRM does *)
(* not overlap two calls with one grant_id, every channel keeps the promise *)
(* of GrantOnce, in every interleaving of receipts, events and operators.   *)
THEOREM ChannelsGrantOnce ==
  ASSUME ~ OverlapCrm, PeriodsAgree
  PROVE  Spec => GrantsOnce
<1>1. Init => Grants!GrantInit
  <2> SUFFICES ASSUME Init PROVE Grants!GrantInit
    OBVIOUS
  <2>1. /\ available = [u \in User |-> 0]
        /\ booked = [u \in User |-> [c \in EntryClass |-> 0]]
        /\ grantee = [k \in OpKey |-> NoUser]
    BY DEF Init, BillingInit, WalletInit
  <2>2. \A u \in User : available[u] - booked[u]["promo"] = 0
    BY <2>1 DEF EntryClass
  <2> QED
    BY <2>1, <2>2 DEF Grants!GrantInit
<1>2. ASSUME Inv, [Next]_vars PROVE [Grants!GrantNext]_(Grants!grantVars)
  <2>1. CASE UNCHANGED vars
    BY <2>1 DEF vars, tableVars, walletVars, Grants!grantVars
  <2>2. CASE Next
    BY <1>2, <2>2, EveryStep, MoneyGrants DEF Inv, StepOf, MoneyPart
  <2> QED
    BY <1>2, <2>1, <2>2
<1>3. Inv /\ [Next]_vars => [Grants!GrantNext]_(Grants!grantVars)
  BY <1>2
<1> QED
  BY <1>1, <1>3, SubscriptionInv, PTL DEF Spec, GrantsOnce, Grants!GrantSpec

-----------------------------------------------------------------------------
(* The wallet's bounds cover what the channels pay and what is given by     *)
(* hand in one behaviour.                                                   *)
WalletCovers ==
  /\ (CoinsPaid \cup {ManualCoins}) \ {0} \subseteq Amounts
  /\ \A w \in Workloads : w.calls * ManualCoins <= MaxManual

(* What was given by hand is bounded by the calls.                          *)
ByHandInv ==
  /\ calls \in Nat /\ calls <= workload.calls
  /\ \A u \in User : booked[u]["promo"] <= calls * ManualCoins

LEMMA ByHandNext == Inv /\ ByHandInv /\ [Next]_vars => ByHandInv'
<1> SUFFICES ASSUME Inv, ByHandInv, [Next]_vars PROVE ByHandInv'
  OBVIOUS
<1>1. CASE UNCHANGED vars
  BY <1>1 DEF vars, boundVars, walletVars, ByHandInv
<1>2. CASE Next
  <2>1. workload' = workload /\ workload.calls \in Nat /\ ManualCoins \in Nat
    BY <1>2, BoundAssumption, OutsideTypes
       DEF Next, newCall, firstDelivery, serve, abort, boundVars, Inv, RequestsInv
  <2>2. calls' = calls \/ (calls < workload.calls /\ calls' = calls + 1)
    BY <1>2 DEF Next, newCall, firstDelivery, serve, abort, boundVars
  <2>3. MoneyStep
    BY <1>2, EveryStep DEF StepOf, MoneyPart
  <2>4. (calls + 1) * ManualCoins = calls * ManualCoins + ManualCoins
    BY <2>1 DEF ByHandInv
  <2>5. calls * ManualCoins \in Nat
    BY <2>1 DEF ByHandInv
  <2>6. calls' \in Nat /\ calls' <= workload'.calls
    BY <2>1, <2>2 DEF ByHandInv
  <2>7. calls' * ManualCoins \in Nat /\ calls * ManualCoins <= calls' * ManualCoins
    BY <2>1, <2>2, <2>4, <2>5
  <2>8. \A u \in User : booked[u]["promo"] \in Int
    BY DEF Inv, SubscriptionTypeOK, WalletTypeOK, EntryClass
  <2>9. CASE \A u \in User : booked'[u]["promo"] = booked[u]["promo"]
    <3>1. ASSUME NEW u \in User PROVE booked'[u]["promo"] <= calls' * ManualCoins
      <4> DEFINE had == booked[u]["promo"]
                 before == calls * ManualCoins
                 after == calls' * ManualCoins
      <4>1. /\ had \in Int /\ before \in Nat /\ after \in Nat
            /\ had <= before /\ before <= after
        BY <2>5, <2>7, <2>8 DEF ByHandInv
      <4> HIDE DEF had, before, after
      <4>2. had <= after
        BY <4>1
      <4> QED
        BY <2>9, <4>2 DEF had, after
    <3> QED
      BY <2>6, <3>1 DEF ByHandInv
  <2>10. CASE calls' = calls + 1 /\ \E u \in User : grant_credits(u, ManualCoins)
    <3>1. PICK u \in User : booked' = [booked EXCEPT ![u]["promo"] = @ + ManualCoins]
      BY <2>10 DEF grant_credits, appendEntry
    <3>2. \A v \in User : booked'[v]["promo"] <= booked[v]["promo"] + ManualCoins
      BY <2>1, <2>8, <3>1 DEF Inv, SubscriptionTypeOK, WalletTypeOK, EntryClass
    <3>3. \A v \in User : booked'[v]["promo"] \in Int
      BY <2>1, <2>8, <3>1 DEF Inv, SubscriptionTypeOK, WalletTypeOK, EntryClass
    <3> QED
      BY <2>1, <2>4, <2>5, <2>6, <2>8, <2>10, <3>2, <3>3 DEF ByHandInv
  <2>11. ASSUME NEW u \in User, NEW k \in OpKey, NEW n \in CoinsPaid, grantTo(u, k, n)
         PROVE  \A v \in User : booked'[v]["promo"] = booked[v]["promo"]
    BY <2>11 DEF grantTo, grantCoins, appendKeyed, walletVars, Inv, SubscriptionTypeOK,
       WalletTypeOK, EntryClass
  <2> QED
    BY <2>3, <2>9, <2>10, <2>11 DEF MoneyStep, walletVars
<1> QED
  BY <1>1, <1>2

LEMMA ByHand == Spec => []ByHandInv
<1>1. Init => ByHandInv
  <2> SUFFICES ASSUME Init PROVE ByHandInv
    OBVIOUS
  <2>1. calls = 0 /\ workload.calls \in Nat /\ ManualCoins \in Nat
    BY BoundAssumption, OutsideTypes DEF Init
  <2>2. \A u \in User : booked[u]["promo"] = 0
    BY DEF Init, BillingInit, WalletInit, EntryClass
  <2> QED
    BY <2>1, <2>2 DEF ByHandInv
<1> QED
  BY <1>1, ByHandNext, SubscriptionInv, PTL DEF Spec

(* Each thing a step does with money is one operation of the wallet.        *)
LEMMA MoneyIsWalletStep ==
  ASSUME Inv, ByHandInv, MoneyStep, ~ OverlapCrm, WalletCovers
  PROVE  [WalletNext]_walletVars
<1>1. CASE UNCHANGED <<walletVars, grantee>>
  BY <1>1
<1>2. ASSUME NEW u \in User, NEW k \in OpKey, NEW n \in CoinsPaid, grantTo(u, k, n)
      PROVE  [WalletNext]_walletVars
  <2>1. n > 0 => n \in Amounts
    BY PaidInCoins DEF WalletCovers
  <2> QED
    BY <1>2, <2>1 DEF grantTo, WalletNext
<1>3. ASSUME ManualCoins > 0, calls < workload.calls,
             NEW u \in User, grant_credits(u, ManualCoins)
      PROVE  [WalletNext]_walletVars
  <2>1. workload \in Workloads /\ workload.calls \in Nat /\ ManualCoins \in Nat
    BY BoundAssumption, OutsideTypes DEF Inv, RequestsInv
  <2>2. ManualCoins \in Amounts
    BY <1>3, <2>1 DEF WalletCovers
  <2> DEFINE more == workload.calls - calls - 1
  <2>3. more \in Nat /\ calls \in Nat /\ workload.calls = calls + 1 + more
    BY <1>3, <2>1 DEF ByHandInv
  <2> HIDE DEF more
  <2>4. workload.calls * ManualCoins
          = calls * ManualCoins + ManualCoins + more * ManualCoins
    BY <2>1, <2>3 DEF ByHandInv
  <2>5. more * ManualCoins \in Nat /\ calls * ManualCoins \in Nat
    BY <2>1, <2>3 DEF ByHandInv
  <2>6. workload.calls * ManualCoins <= MaxManual /\ MaxManual \in Nat
    BY <2>1, AmountAssumption DEF WalletCovers
  <2>7. booked[u]["promo"] \in Int /\ booked[u]["promo"] <= calls * ManualCoins
    BY DEF ByHandInv, Inv, SubscriptionTypeOK, WalletTypeOK, EntryClass
  <2>8. ManualRoom(u, "promo", ManualCoins)
    <3> DEFINE had == booked[u]["promo"]
               before == calls * ManualCoins
               rest == more * ManualCoins
               all == workload.calls * ManualCoins
    <3>1. /\ had \in Int /\ before \in Nat /\ rest \in Nat /\ MaxManual \in Nat
          /\ had <= before /\ all = before + ManualCoins + rest /\ all <= MaxManual
      BY <2>4, <2>5, <2>6, <2>7
    <3> HIDE DEF had, before, rest, all
    <3>2. had + ManualCoins <= MaxManual
      BY <2>1, <3>1
    <3> QED
      BY <3>2 DEF had, ManualRoom
  <2> QED
    BY <1>3, <2>2, <2>8 DEF WalletNext
<1> QED
  BY <1>1, <1>2, <1>3 DEF MoneyStep

(* Billing implements the open wallet: receipts, periods, grants and gifts  *)
(* change the two tables by whole operations only, whatever interleaves or  *)
(* aborts, unless two CRM calls with one grant_id overlap.                  *)
THEOREM BillingUsesWallet ==
  ASSUME ~ OverlapCrm, WalletCovers
  PROVE  Spec => WalletSpec
<1>1. Init => WalletInit
  BY DEF Init, BillingInit
<1>2. ASSUME Inv, ByHandInv, [Next]_vars PROVE [WalletNext]_walletVars
  <2>1. CASE UNCHANGED vars
    BY <2>1 DEF vars
  <2>2. CASE Next
    BY <1>2, <2>2, EveryStep, MoneyIsWalletStep DEF StepOf, MoneyPart
  <2> QED
    BY <1>2, <2>1, <2>2
<1>3. Inv /\ ByHandInv /\ [Next]_vars => [WalletNext]_walletVars
  BY <1>2
<1> QED
  BY <1>1, <1>3, SubscriptionInv, ByHand, PTL DEF Spec, WalletSpec

(* An audit of the ledger explains what the channels paid out, to the coin. *)
(* The bounds of the wallet have no part in it; that CRM calls with one     *)
(* grant_id do not overlap has: the second adds coins that nothing books.   *)
THEOREM BillingLedger ==
  ASSUME ~ OverlapCrm
  PROVE  Spec => []LedgerExplainsAvailable
<1>1. Init => LedgerExplainsAvailable
  <2> SUFFICES ASSUME Init PROVE LedgerExplainsAvailable
    OBVIOUS
  <2> QED
    BY DEF Init, BillingInit, WalletInit, LedgerExplainsAvailable, LedgerAvailable, EntryClass
<1>2. ASSUME Inv, LedgerExplainsAvailable, [Next]_vars
      PROVE  LedgerExplainsAvailable'
  <2>1. WalletTypeOK
    BY <1>2 DEF Inv, SubscriptionTypeOK
  <2>2. UNCHANGED walletVars => LedgerExplainsAvailable'
    BY <1>2 DEF walletVars, LedgerExplainsAvailable, LedgerAvailable
  <2>3. ASSUME NEW u \in User, NEW k \in OpKey, NEW n \in CoinsPaid,
               grantTo(u, k, n), ~ UNCHANGED walletVars
        PROVE  StepEffect
    <3>1. /\ appendKeyed(u, "grant", n, grantKey(k))
          /\ available' = [available EXCEPT ![u] = @ + n]
          /\ UNCHANGED <<reserved, hold>>
      BY <2>3 DEF grantTo, grantCoins
    <3>2. EntryStep(u, "grant", n)
      BY <3>1, KeyTypes DEF EntryStep
    <3> QED
      BY <2>1, <3>1, <3>2, PaidInCoins, ClassTypes, CreditEffect DEF EntryClass
  <2>4. ASSUME NEW u \in User, grant_credits(u, ManualCoins)
        PROVE  StepEffect
    <3>1. EntryStep(u, "promo", ManualCoins)
      BY <2>4 DEF grant_credits, appendEntry, EntryStep
    <3> QED
      BY <2>1, <2>4, <3>1, OutsideTypes, ClassTypes, CreditEffect DEF grant_credits, EntryClass
  <2>5. CASE Next
    <3>1. MoneyStep
      BY <1>2, <2>5, EveryStep DEF StepOf, MoneyPart
    <3>2. UNCHANGED walletVars \/ StepEffect
      BY <2>3, <2>4, <3>1 DEF MoneyStep, walletVars
    <3> QED
      BY <1>2, <2>1, <2>2, <3>2, AuditKept
  <2> QED
    BY <1>2, <2>2, <2>5 DEF vars
<1>3. Inv /\ LedgerExplainsAvailable /\ [Next]_vars => LedgerExplainsAvailable'
  BY <1>2
<1> QED
  BY <1>1, <1>3, SubscriptionInv, PTL DEF Spec

-----------------------------------------------------------------------------
(***************************************************************************)
(* Who keeps a chain's subscription active owns the chain's purchases.     *)
(*                                                                         *)
(* A transfer spreads over four statements; what each has read is still so *)
(* when the transaction commits, as long as no second receipt of the chain *)
(* is applied at the time.                                                 *)
(***************************************************************************)

(* What Apple gives and the code does not check: a chain is of one kind and *)
(* of one environment, and its id is neither missing nor a key of the CRM.  *)
ChainsApart ==
  /\ \A s, t \in StoreTx :
       s.chain = t.chain =>
         environment(s) = environment(t) /\ (isSubscription(s) <=> isSubscription(t))
  /\ \A s \in StoreTx : s.chain # None /\ \A g \in CrmGrant : s.chain # crmKey(g)

purchasesOf(c) == {d \in PurchaseKey : d[1].chain = c}
foreignOf(c, u) == {d \in purchasesOf(c) : purchase[d] \notin {u, NoUser}}
paysFor(v, c) == holdsActive(v, c) /\ subscription[v].provider = "apple"

(* A request moves purchases of its own chain, and none before reassign.    *)
MovesOwn(h) ==
  call[h].at \in storeSteps =>
    /\ call[h].at \in {"record", "scanChain", "reassign"} => call[h].moved = {}
    /\ at(h, "record") => ~ call[h].newly
    /\ at(h, "reassign") => call[h].seen \subseteq purchasesOf(call[h].about.chain)
    /\ call[h].moved \subseteq purchasesOf(call[h].about.chain)

(* What a receipt of chain c has read is what is there.                     *)
ReadsAreFresh(h, c) ==
  LET u == call[h].user IN
  /\ call[h].at \in {"scanChain", "reassign", "expire", "finish"} /\ ~ call[h].newly =>
       purchase[dedup_key(u, call[h].about)] # NoUser
  /\ at(h, "reassign") => call[h].seen = foreignOf(c, u)
  /\ call[h].at \in {"expire", "finish"} => call[h].moved = foreignOf(c, u)
  /\ at(h, "expire") => \A v \in User \ {u} : paysFor(v, c) => v \in call[h].seen
  /\ at(h, "finish") => \A v \in User \ {u} : paysFor(v, c) => v \in call[h].held

(* One owner, who alone may pay for it, and one receipt applied at a time.  *)
ChainOK(c) ==
  /\ \A d, e \in purchasesOf(c) :
       purchase[d] # NoUser /\ purchase[e] # NoUser => purchase[d] = purchase[e]
  /\ \A v \in User : paysFor(v, c) => \E d \in purchasesOf(c) : purchase[d] = v
  /\ \A g, h \in Handler : busyWith(g, c) /\ busyWith(h, c) => g = h
  /\ \A h \in Handler : busyWith(h, c) => ReadsAreFresh(h, c)

movable(c) == \E tx \in StoreTx : tx.chain = c /\ transferable(tx)

ChainInv ==
  /\ \A h \in Handler : MovesOwn(h)
  /\ \A c \in Ref : movable(c) /\ c \notin overlapped => ChainOK(c)


(* What one request must leave alone, for another to find it as it was.     *)
PurchasesStay(c) == \A d \in purchasesOf(c) : purchase'[d] = purchase[d]
PayersStay(c) == \A v \in User :
  subscription'[v].status = "active" /\ subscription'[v].chain = c
  /\ subscription'[v].provider = "apple" => paysFor(v, c)

LEMMA BusyFacts ==
  ASSUME Inv, NEW h \in Handler, call[h].at \in storeSteps
  PROVE  /\ call[h].user \in User /\ call[h].about \in StoreTx /\ call[h] \in Request
         /\ call[h].about.chain \in Ref
         /\ dedup_key(call[h].user, call[h].about) \in purchasesOf(call[h].about.chain)
<1>1. call[h].user \in User /\ call[h].about \in StoreTx /\ call[h] \in Request
  BY DEF Inv, RequestsInv, RequestOK
<1>. QED BY <1>1, DedupKey, OutsideTypes DEF purchasesOf

LEMMA FreshKept ==
  ASSUME Inv, NEW h \in Handler, NEW c, busyWith(h, c), ReadsAreFresh(h, c),
         call'[h] = call[h], PurchasesStay(c), PayersStay(c)
  PROVE  ReadsAreFresh(h, c)'
<1>1. call[h].user \in User /\ dedup_key(call[h].user, call[h].about) \in purchasesOf(c)
  BY BusyFacts DEF busyWith
<1>2. ASSUME NEW u PROVE foreignOf(c, u)' = foreignOf(c, u)
  BY DEF foreignOf, PurchasesStay, purchasesOf
<1>3. ASSUME NEW v \in User, paysFor(v, c)' PROVE paysFor(v, c)
  BY <1>3 DEF paysFor, holdsActive, PayersStay
<1>4. ASSUME NEW u, u = call[h].user
      PROVE  /\ call[h].at \in {"scanChain", "reassign", "expire", "finish"} /\ ~ call[h].newly =>
                  purchase'[dedup_key(u, call[h].about)] # NoUser
             /\ at(h, "reassign") => call[h].seen = foreignOf(c, u)'
             /\ call[h].at \in {"expire", "finish"} => call[h].moved = foreignOf(c, u)'
             /\ at(h, "expire") => \A v \in User \ {u} : paysFor(v, c)' => v \in call[h].seen
             /\ at(h, "finish") => \A v \in User \ {u} : paysFor(v, c)' => v \in call[h].held
  BY <1>1, <1>2, <1>3, <1>4 DEF ReadsAreFresh, PurchasesStay
<1>. QED BY <1>4 DEF ReadsAreFresh, at, foreignOf, paysFor, holdsActive, purchasesOf

(* A chain stays in order if the request that moves leaves it alone, or     *)
(* works on it alone and what it has read is so.                            *)
LEMMA ChainKept ==
  ASSUME Inv, NEW h \in Handler, NEW c, ChainOK(c),
         PurchasesStay(c), PayersStay(c),
         \A i \in Handler \ {h} : call'[i] = call[i],
         busyWith(h, c)' =>
           /\ \A i \in Handler \ {h} : ~ busyWith(i, c)
           /\ ReadsAreFresh(h, c)'
  PROVE  ChainOK(c)'
<1>1. purchasesOf(c)' = purchasesOf(c)
  BY DEF purchasesOf
<1>2. \A d, e \in purchasesOf(c) :
        purchase'[d] # NoUser /\ purchase'[e] # NoUser => purchase'[d] = purchase'[e]
  BY DEF ChainOK, PurchasesStay
<1>3. ASSUME NEW v \in User, paysFor(v, c)' PROVE \E d \in purchasesOf(c) : purchase'[d] = v
  <2>1. paysFor(v, c)
    BY <1>3 DEF paysFor, holdsActive, PayersStay
  <2>. QED BY <2>1 DEF ChainOK, PurchasesStay
<1>4. ASSUME NEW i \in Handler \ {h}, busyWith(i, c)'
      PROVE  busyWith(i, c) /\ ReadsAreFresh(i, c)'
  <2>1. busyWith(i, c) /\ call'[i] = call[i]
    BY <1>4 DEF busyWith
  <2>2. ReadsAreFresh(i, c)
    BY <2>1 DEF ChainOK
  <2>. QED BY <2>1, <2>2, FreshKept
<1>5. ASSUME NEW i \in Handler, NEW j \in Handler, busyWith(i, c)', busyWith(j, c)' PROVE i = j
  BY <1>4, <1>5 DEF ChainOK
<1>6. ASSUME NEW i \in Handler, busyWith(i, c)' PROVE ReadsAreFresh(i, c)'
  BY <1>4, <1>6
<1>. QED BY <1>1, <1>2, <1>3, <1>5, <1>6 DEF ChainOK


(* A step that makes nobody the payer of a chain.                           *)
NoNewPayer ==
  \A v \in User :
    \/ subscription'[v] = subscription[v]
    \/ subscription'[v].status # "active"
    \/ subscription'[v].provider # "apple"
    \/ \A tx \in StoreTx : subscription'[v].chain # tx.chain

LEMMA PayersKept == ASSUME NoNewPayer, NEW c, movable(c) PROVE PayersStay(c)
BY DEF NoNewPayer, movable, PayersStay, paysFor, holdsActive

LEMMA MovesOwnKept ==
  ASSUME NEW h \in Handler, MovesOwn(h), call'[h] = call[h] PROVE MovesOwn(h)'
BY DEF MovesOwn, at, purchasesOf

(* A step of a request that is not a receipt's, or ends one.                *)
LEMMA ChainsUntouched ==
  ASSUME Inv, ChainInv, NEW h \in Handler, UNCHANGED <<purchase, overlapped>>, NoNewPayer,
         \A i \in Handler \ {h} : call'[i] = call[i],
         call'[h].at \notin storeSteps \/ call'[h] = call[h]
  PROVE  ChainInv'
<1>1. ASSUME NEW i \in Handler PROVE MovesOwn(i)'
  <2>1. MovesOwn(i)
    BY DEF ChainInv
  <2>2. CASE call'[i] = call[i]
    BY <2>1, <2>2, MovesOwnKept
  <2>3. CASE call'[i].at \notin storeSteps
    BY <2>3 DEF MovesOwn
  <2>. QED BY <2>2, <2>3
<1>2. ASSUME NEW c \in Ref, movable(c), c \notin overlapped PROVE ChainOK(c)'
  <2>1. ChainOK(c) /\ PurchasesStay(c) /\ PayersStay(c)
    BY <1>2, PayersKept DEF ChainInv, PurchasesStay
  <2>2. CASE call'[h].at \notin storeSteps
    <3>1. ~ busyWith(h, c)'
      BY <2>2 DEF busyWith
    <3>. QED BY <2>1, <3>1, ChainKept
  <2>3. CASE call'[h] = call[h] /\ busyWith(h, c)
    <3>1. ReadsAreFresh(h, c)'
      BY <2>1, <2>3, FreshKept DEF ChainOK
    <3>2. \A i \in Handler \ {h} : ~ busyWith(i, c)
      BY <2>1, <2>3 DEF ChainOK
    <3>. QED BY <2>1, <3>1, <3>2, ChainKept
  <2>4. CASE call'[h] = call[h] /\ ~ busyWith(h, c)
    <3>1. ~ busyWith(h, c)'
      BY <2>4 DEF busyWith
    <3>. QED BY <2>1, <3>1, ChainKept
  <2>. QED BY <2>2, <2>3, <2>4
<1>. QED BY <1>1, <1>2 DEF ChainInv, movable

(* A receipt's transaction goes on.                                         *)
LEMMA ReceiptGoesOn ==
  ASSUME Inv, ChainInv, NEW h \in Handler, UNCHANGED <<purchase, subscription, overlapped>>,
         \A i \in Handler \ {h} : call'[i] = call[i],
         call[h].at \in storeSteps, call'[h].user = call[h].user, call'[h].about = call[h].about,
         MovesOwn(h)',
         \A c : c = call[h].about.chain /\ movable(c) /\ ChainOK(c) => ReadsAreFresh(h, c)'
  PROVE  ChainInv'
<1>1. ASSUME NEW i \in Handler PROVE MovesOwn(i)'
  BY MovesOwnKept DEF ChainInv
<1>2. ASSUME NEW c \in Ref, movable(c), c \notin overlapped PROVE ChainOK(c)'
  <2>1. ChainOK(c) /\ PurchasesStay(c) /\ PayersStay(c)
    BY <1>2, PayersKept DEF ChainInv, PurchasesStay, NoNewPayer
  <2>2. CASE c # call[h].about.chain
    <3>1. ~ busyWith(h, c)'
      BY <2>2 DEF busyWith
    <3>. QED BY <2>1, <3>1, ChainKept
  <2>3. CASE c = call[h].about.chain
    <3>1. ReadsAreFresh(h, c)'
      BY <1>2, <2>1, <2>3
    <3>2. \A i \in Handler \ {h} : ~ busyWith(i, c)
      BY <2>1, <2>3 DEF ChainOK, busyWith
    <3>. QED BY <2>1, <3>1, <3>2, ChainKept
  <2>. QED BY <2>2, <2>3
<1>. QED BY <1>1, <1>2 DEF ChainInv, movable

(* A client's or Apple's call: beside another of its chain, the chain is    *)
(* one of which two receipts were applied at a time.                        *)
LEMMA StoreCallChains ==
  ASSUME Inv, ChainInv, NEW h \in Handler, storeCall(h), UNCHANGED workload
  PROVE  ChainInv'
<1>1. PICK tx \in workload.receipts :
        /\ \/ \E u \in User : verify(h, u, tx)
           \/ \E note \in Notes : notify(h, tx, note)
        /\ noteOverlap(h, tx)
  BY DEF storeCall
<1>2. tx \in StoreTx
  BY <1>1, BoundAssumption DEF Inv, RequestsInv
<1>3. PICK u, s, n : begin(h, s, u, tx, n) /\ s \in {"record", "revoke"}
  BY <1>1 DEF verify, notify
<1>4. /\ UNCHANGED <<purchase, subscription>> /\ overlapped \subseteq overlapped'
      /\ (\E g \in Handler \ {h} : busyWith(g, tx.chain)) => tx.chain \in overlapped'
  BY <1>1 DEF verify, notify, storeVars, noteOverlap
<1>5. /\ call'[h].at = s /\ call'[h].user = u /\ call'[h].about = tx
      /\ call'[h].newly = FALSE /\ call'[h].moved = {}
      /\ \A i \in Handler \ {h} : call'[i] = call[i]
  BY <1>3 DEF begin, Idle, Inv, RequestsInv
<1>6. ASSUME NEW i \in Handler PROVE MovesOwn(i)'
  <2>1. CASE i # h
    BY <1>5, <2>1, MovesOwnKept DEF ChainInv
  <2>2. CASE i = h
    BY <1>3, <1>5, <2>2 DEF MovesOwn, at, purchasesOf
  <2>. QED BY <2>1, <2>2
<1>7. ASSUME NEW c \in Ref, movable(c), c \notin overlapped' PROVE ChainOK(c)'
  <2>1. ChainOK(c) /\ PurchasesStay(c) /\ PayersStay(c)
    BY <1>4, <1>7, PayersKept DEF ChainInv, PurchasesStay, NoNewPayer
  <2>2. CASE c # tx.chain
    <3>1. ~ busyWith(h, c)'
      BY <1>5, <2>2 DEF busyWith
    <3>. QED BY <1>5, <2>1, <3>1, ChainKept
  <2>3. CASE c = tx.chain
    <3>1. \A i \in Handler \ {h} : ~ busyWith(i, c)
      BY <1>4, <1>7, <2>3
    <3>2. ReadsAreFresh(h, c)'
      BY <1>3, <1>5 DEF ReadsAreFresh, at
    <3>. QED BY <1>5, <2>1, <3>1, <3>2, ChainKept
  <2>. QED BY <2>2, <2>3
<1>. QED BY <1>6, <1>7 DEF ChainInv, movable


(* A chain some receipt of which can be transferred has only such receipts, *)
(* and the rows that a transfer looks for are those of the chain.           *)
LEMMA ChainOfOneKind ==
  ASSUME ChainsApart, NEW tx \in StoreTx, movable(tx.chain), NEW u
  PROVE  transferable(tx) /\ foreignPurchases(u, tx) = foreignOf(tx.chain, u)
<1>1. transferable(tx)
  BY DEF ChainsApart, movable, transferable
<1>2. \A d \in purchasesOf(tx.chain) : environment(d[1]) = environment(tx)
  BY PurchaseOfTx DEF ChainsApart, purchasesOf
<1>. QED BY <1>1, <1>2 DEF foreignPurchases, foreignOf, purchasesOf

(* Of an owned chain nothing is foreign to the owner, and nobody else pays. *)
LEMMA OwnerAlone ==
  ASSUME NEW c, ChainOK(c), NEW d \in purchasesOf(c), purchase[d] # NoUser, NoUser \notin User
  PROVE  /\ foreignOf(c, purchase[d]) = {}
         /\ \A v \in User \ {purchase[d]} : ~ paysFor(v, c)
BY DEF ChainOK, foreignOf

LEMMA RecordChains ==
  ASSUME Inv, ChainInv, ChainsApart, NEW h \in Handler, record(h), UNCHANGED overlapped
  PROVE  ChainInv'
<1>0. UNCHANGED <<purchase, subscription>> /\ NoNewPayer
  BY DEF record, storeVars, NoNewPayer
<1>1. CASE ends(h)
  <2>1. /\ \A i \in Handler \ {h} : call'[i] = call[i]
        /\ call'[h].at \notin storeSteps
    BY <1>1 DEF ends, Idle, storeSteps, Inv, RequestsInv
  <2>. QED BY <1>0, <2>1, ChainsUntouched
<1>2. CASE ~ ends(h)
  <2>0. call[h].at \in storeSteps /\ at(h, "record")
    BY DEF record, at, storeSteps
  <2>1. /\ call[h].user \in User /\ call[h].about \in StoreTx /\ call[h] \in Request
        /\ dedup_key(call[h].user, call[h].about) \in purchasesOf(call[h].about.chain)
        /\ call[h].moved = {} /\ call[h].newly = FALSE
    BY <2>0, BusyFacts DEF ChainInv, MovesOwn, Request, at
  <2>2. PICK s \in {"scanChain", "finish"}, n \in BOOLEAN :
          /\ call'[h] = [call[h] EXCEPT !.at = s, !.newly = n]
          /\ \A i \in Handler \ {h} : call'[i] = call[i]
          /\ ~ n => purchase[dedup_key(call[h].user, call[h].about)] # NoUser
          /\ s = "finish" =>
               \/ ~ transferable(call[h].about)
               \/ purchase[dedup_key(call[h].user, call[h].about)] = call[h].user
    <3>0. call \in [Handler -> Request]
      BY DEF Inv, RequestsInv
    <3>1. CASE /\ purchase[dedup_key(call[h].user, call[h].about)] = NoUser
               /\ call' = [call EXCEPT ![h].at = IF transferable(call[h].about)
                                                   THEN "scanChain" ELSE "finish",
                                       ![h].newly = TRUE]
      BY <3>0, <3>1
    <3>2. CASE /\ purchase[dedup_key(call[h].user, call[h].about)] \notin {call[h].user, NoUser}
               /\ next(h, "scanChain")
      <4>1. call'[h] = [call[h] EXCEPT !.at = "scanChain", !.newly = FALSE]
        BY <2>1, <3>0, <3>2 DEF next, Request
      <4>. QED BY <3>0, <3>2, <4>1 DEF next
    <3>3. CASE /\ purchase[dedup_key(call[h].user, call[h].about)] = call[h].user
               /\ next(h, "finish")
      <4>1. call'[h] = [call[h] EXCEPT !.at = "finish", !.newly = FALSE]
        BY <2>1, <3>0, <3>3 DEF next, Request
      <4>. QED BY <2>1, <3>0, <3>3, <4>1, OutsideTypes DEF next
    <3>. QED BY <1>2, <3>1, <3>2, <3>3 DEF record
  <2>3. /\ call'[h].at = s /\ call'[h].newly = n /\ call'[h].user = call[h].user
        /\ call'[h].about = call[h].about /\ call'[h].moved = {}
    BY <2>1, <2>2 DEF Request
  <2>4. MovesOwn(h)'
    BY <2>3 DEF MovesOwn, at, purchasesOf
  <2>5. ASSUME NEW c, c = call[h].about.chain, movable(c), ChainOK(c)
        PROVE  ReadsAreFresh(h, c)'
    <3>1. transferable(call[h].about)
      BY <2>1, <2>5, ChainOfOneKind
    <3>2. PICK u, d : u = call[h].user /\ d = dedup_key(u, call[h].about)
      OBVIOUS
    <3>3. d \in purchasesOf(c) /\ (~ n => purchase[d] # NoUser)
      BY <2>1, <2>2, <2>5, <3>2
    <3>4. s = "finish" => foreignOf(c, u) = {} /\ \A v \in User \ {u} : ~ paysFor(v, c)
      BY <2>1, <2>2, <2>5, <3>1, <3>2, <3>3, OwnerAlone, OutsideTypes
    <3>5. foreignOf(c, u)' = foreignOf(c, u) /\ \A v \in User : paysFor(v, c)' = paysFor(v, c)
      BY <1>0 DEF foreignOf, purchasesOf, paysFor, holdsActive
    <3>. QED BY <1>0, <2>3, <3>2, <3>3, <3>4, <3>5
             DEF ReadsAreFresh, at, foreignOf, purchasesOf
  <2>. QED BY <1>0, <2>0, <2>2, <2>3, <2>4, <2>5, ReceiptGoesOn
<1>. QED BY <1>1, <1>2

(* The rows of the chain are read.                                          *)
LEMMA ScanChains ==
  ASSUME Inv, ChainInv, ChainsApart, NEW h \in Handler, scanChain(h), UNCHANGED overlapped
  PROVE  ChainInv'
<1>0. UNCHANGED <<purchase, subscription>> /\ call[h].at \in storeSteps /\ at(h, "scanChain")
  BY DEF scanChain, storeVars, at, storeSteps
<1>1. /\ call[h].user \in User /\ call[h].about \in StoreTx /\ call[h] \in Request
      /\ call[h].moved = {}
  BY <1>0, BusyFacts DEF ChainInv, MovesOwn, at
<1>2. /\ call'[h].at = "reassign" /\ call'[h].newly = call[h].newly
      /\ call'[h].user = call[h].user /\ call'[h].about = call[h].about /\ call'[h].moved = {}
      /\ call'[h].seen = foreignPurchases(call[h].user, call[h].about)
      /\ \A i \in Handler \ {h} : call'[i] = call[i]
  BY <1>1 DEF scanChain, Inv, RequestsInv, Request
<1>3. MovesOwn(h)'
  BY <1>2 DEF MovesOwn, at, purchasesOf, foreignPurchases
<1>4. ASSUME NEW c, c = call[h].about.chain, movable(c), ChainOK(c)
      PROVE  ReadsAreFresh(h, c)'
  <2>1. PICK u : u = call[h].user
    OBVIOUS
  <2>2. call'[h].seen = foreignOf(c, u)
    BY <1>1, <1>2, <1>4, <2>1, ChainOfOneKind
  <2>3. ReadsAreFresh(h, c)
    BY <1>0, <1>4 DEF ChainOK, busyWith
  <2>4. foreignOf(c, u)' = foreignOf(c, u)
    BY <1>0 DEF foreignOf, purchasesOf
  <2>. QED BY <1>0, <1>2, <2>1, <2>2, <2>3, <2>4 DEF ReadsAreFresh, at, foreignOf, purchasesOf
<1>. QED BY <1>0, <1>2, <1>3, <1>4, ReceiptGoesOn

(* They are updated, and those who pay for the chain are read.              *)
LEMMA ReassignChains ==
  ASSUME Inv, ChainInv, ChainsApart, NEW h \in Handler, reassign(h), UNCHANGED overlapped
  PROVE  ChainInv'
<1>0. UNCHANGED <<purchase, subscription>> /\ call[h].at \in storeSteps /\ at(h, "reassign")
  BY DEF reassign, storeVars, at, storeSteps
<1>1. /\ call[h].user \in User /\ call[h].about \in StoreTx /\ call[h] \in Request
      /\ call[h].seen \subseteq purchasesOf(call[h].about.chain)
  BY <1>0, BusyFacts DEF ChainInv, MovesOwn, at
<1>2. /\ call'[h].at = "expire" /\ call'[h].newly = call[h].newly
      /\ call'[h].user = call[h].user /\ call'[h].about = call[h].about
      /\ call'[h].moved = {d \in call[h].seen : purchase[d] # call[h].user}
      /\ call'[h].seen = foreignActive(call[h].user, call[h].about.chain)
      /\ \A i \in Handler \ {h} : call'[i] = call[i]
  BY <1>1 DEF reassign, Inv, RequestsInv, Request
<1>3. MovesOwn(h)'
  BY <1>1, <1>2 DEF MovesOwn, at, purchasesOf
<1>4. ASSUME NEW c, c = call[h].about.chain, movable(c), ChainOK(c)
      PROVE  ReadsAreFresh(h, c)'
  <2>1. PICK u : u = call[h].user
    OBVIOUS
  <2>2. ReadsAreFresh(h, c)
    BY <1>0, <1>4 DEF ChainOK, busyWith
  <2>3. call'[h].moved = foreignOf(c, u)
    BY <1>0, <1>2, <2>1, <2>2 DEF ReadsAreFresh, at, foreignOf
  <2>4. \A v \in User \ {u} : paysFor(v, c) => v \in call'[h].seen
    BY <1>2, <1>4, <2>1 DEF foreignActive, paysFor
  <2>5. foreignOf(c, u)' = foreignOf(c, u) /\ \A v \in User : paysFor(v, c)' = paysFor(v, c)
    BY <1>0 DEF foreignOf, purchasesOf, paysFor, holdsActive
  <2>. QED BY <1>0, <1>2, <2>1, <2>2, <2>3, <2>4, <2>5
           DEF ReadsAreFresh, at, foreignOf, purchasesOf, paysFor, holdsActive
<1>. QED BY <1>0, <1>2, <1>3, <1>4, ReceiptGoesOn

(* Those who still pay are held, and will be expired.                       *)
LEMMA ExpireChains ==
  ASSUME Inv, ChainInv, ChainsApart, NEW h \in Handler, expire(h), UNCHANGED overlapped
  PROVE  ChainInv'
<1>0. UNCHANGED <<purchase, subscription>> /\ call[h].at \in storeSteps /\ at(h, "expire")
  BY DEF expire, storeVars, at, storeSteps
<1>1. /\ call[h].user \in User /\ call[h].about \in StoreTx /\ call[h] \in Request
      /\ call[h].moved \subseteq purchasesOf(call[h].about.chain)
  BY <1>0, BusyFacts DEF ChainInv, MovesOwn, at
<1>2. /\ call'[h].at = "finish" /\ call'[h].newly = call[h].newly
      /\ call'[h].user = call[h].user /\ call'[h].about = call[h].about
      /\ call'[h].moved = call[h].moved
      /\ call'[h].held = {v \in call[h].seen : holdsActive(v, call[h].about.chain)}
      /\ \A i \in Handler \ {h} : call'[i] = call[i]
  BY <1>1 DEF expire, Inv, RequestsInv, Request
<1>3. MovesOwn(h)'
  BY <1>1, <1>2 DEF MovesOwn, at, purchasesOf
<1>4. ASSUME NEW c, c = call[h].about.chain, movable(c), ChainOK(c)
      PROVE  ReadsAreFresh(h, c)'
  <2>1. PICK u : u = call[h].user
    OBVIOUS
  <2>2. ReadsAreFresh(h, c)
    BY <1>0, <1>4 DEF ChainOK, busyWith
  <2>3. call'[h].moved = foreignOf(c, u)
    BY <1>0, <1>2, <2>1, <2>2 DEF ReadsAreFresh, at
  <2>4. \A v \in User \ {u} : paysFor(v, c) => v \in call'[h].held
    BY <1>0, <1>2, <1>4, <2>1, <2>2 DEF ReadsAreFresh, paysFor
  <2>5. foreignOf(c, u)' = foreignOf(c, u) /\ \A v \in User : paysFor(v, c)' = paysFor(v, c)
    BY <1>0 DEF foreignOf, purchasesOf, paysFor, holdsActive
  <2>. QED BY <1>0, <1>2, <2>1, <2>2, <2>3, <2>4, <2>5
           DEF ReadsAreFresh, at, foreignOf, purchasesOf, paysFor, holdsActive
<1>. QED BY <1>0, <1>2, <1>3, <1>4, ReceiptGoesOn


(* The commit: the chain has one owner, the only one who pays for it.       *)
LEMMA FinishChains ==
  ASSUME Inv, ChainInv, ChainsApart, NEW h \in Handler, finish(h), UNCHANGED overlapped
  PROVE  ChainInv'
<1>0. call[h].at \in storeSteps /\ at(h, "finish")
  BY DEF finish, at, storeSteps
<1>1. PICK u, tx, d, own : /\ u = call[h].user /\ tx = call[h].about
                           /\ d = dedup_key(u, tx) /\ own = tx.chain
  OBVIOUS
<1>2. /\ u \in User /\ tx \in StoreTx /\ d \in purchasesOf(own) /\ d \in PurchaseKey
      /\ call[h].moved \subseteq purchasesOf(own) /\ NoUser \notin User
  BY <1>0, <1>1, BusyFacts, OutsideTypes DEF ChainInv, MovesOwn, purchasesOf
<1>3. /\ \A i \in Handler \ {h} : call'[i] = call[i]
      /\ call'[h].at \notin storeSteps
  BY DEF finish, ends, Idle, storeSteps, Inv, RequestsInv
<1>4. \A e \in PurchaseKey :
        purchase'[e] = IF e \in inserting(h) \cup call[h].moved THEN u ELSE purchase[e]
  BY <1>1 DEF finish, purchasesAfter
<1>5. inserting(h) = IF call[h].newly THEN {d} ELSE {}
  BY <1>1 DEF inserting
<1>6. \A v \in User :
        subscription'[v] = IF v = u /\ isSubscription(tx)
                             THEN activeFrom("apple", own, tx.until)
                           ELSE IF v \in call[h].held
                             THEN [subscription[v] EXCEPT !.status = "expired"]
                           ELSE subscription[v]
  BY <1>1 DEF finish, subscriptionsAfter
<1>7. \A v \in User : v \in call[h].held =>
        [subscription[v] EXCEPT !.status = "expired"].status = "expired"
  <2>1. \A v \in User : subscription[v] \in Subscription
    BY DEF Inv, SubscriptionTypeOK
  <2>. QED BY <2>1 DEF Subscription, NoSubscription
<1>8. ASSUME NEW i \in Handler PROVE MovesOwn(i)'
  <2>1. CASE i # h
    BY <1>3, <2>1, MovesOwnKept DEF ChainInv
  <2>2. CASE i = h
    BY <1>3, <2>2 DEF MovesOwn
  <2>. QED BY <2>1, <2>2
<1>9. ASSUME NEW c \in Ref, movable(c), c \notin overlapped, c # own PROVE ChainOK(c)'
  <2>1. ChainOK(c)
    BY <1>9 DEF ChainInv
  <2>2. PurchasesStay(c)
    BY <1>2, <1>4, <1>5, <1>9 DEF PurchasesStay, purchasesOf
  <2>3. PayersStay(c)
    <3>1. activeFrom("apple", own, tx.until).chain = own
      BY DEF activeFrom
    <3>2. ASSUME NEW v \in User, subscription'[v].status = "active", subscription'[v].chain = c
          PROVE  subscription'[v] = subscription[v]
      BY <1>6, <1>7, <1>9, <3>1, <3>2
    <3>. QED BY <3>2 DEF PayersStay, paysFor, holdsActive
  <2>4. ~ busyWith(h, c)'
    BY <1>3 DEF busyWith
  <2>. QED BY <1>3, <2>1, <2>2, <2>3, <2>4, ChainKept
<1>10. ASSUME movable(own), own \notin overlapped, own \in Ref PROVE ChainOK(own)'
  <2>1. ChainOK(own) /\ ReadsAreFresh(h, own) /\ busyWith(h, own)
    BY <1>0, <1>1, <1>10 DEF ChainInv, ChainOK, busyWith
  <2>2. /\ ~ call[h].newly => purchase[d] # NoUser
        /\ call[h].moved = foreignOf(own, u)
        /\ \A v \in User \ {u} : paysFor(v, own) => v \in call[h].held
    BY <1>0, <1>1, <2>1 DEF ReadsAreFresh, at
  <2>3. \A e \in purchasesOf(own) : purchase'[e] \in {u, NoUser}
    BY <1>4, <2>2 DEF foreignOf, purchasesOf
  <2>4. purchase'[d] = u
    BY <1>2, <1>4, <1>5, <2>2 DEF foreignOf
  <2>5. ASSUME NEW v \in User, paysFor(v, own)' PROVE \E e \in purchasesOf(own) : purchase'[e] = v
    <3>1. CASE v = u
      BY <1>2, <2>4, <3>1
    <3>2. CASE v # u
      <4>1. subscription'[v].status = "active" /\ subscription'[v].chain = own
            /\ subscription'[v].provider = "apple"
        BY <2>5 DEF paysFor, holdsActive
      <4>2. subscription'[v] = subscription[v] /\ v \notin call[h].held
        BY <1>6, <1>7, <3>2, <4>1
      <4>3. paysFor(v, own)
        BY <4>1, <4>2 DEF paysFor, holdsActive
      <4>. QED BY <2>2, <3>2, <4>2, <4>3
    <3>. QED BY <3>1, <3>2
  <2>6. ASSUME NEW i \in Handler PROVE ~ busyWith(i, own)'
    <3>1. CASE i = h
      BY <1>3, <3>1 DEF busyWith
    <3>2. CASE i # h
      BY <1>3, <2>1, <3>2 DEF ChainOK, busyWith
    <3>. QED BY <3>1, <3>2
  <2>. QED BY <2>3, <2>5, <2>6 DEF ChainOK, purchasesOf
<1>. QED BY <1>8, <1>9, <1>10 DEF ChainInv, movable

-----------------------------------------------------------------------------
(* The other writers of a subscription make nobody pay for a chain.         *)

(* A row whose status ends, or whose provider is Adapty, pays for no chain. *)
LEMMA RowEnds ==
  ASSUME SubscriptionTypeOK, NEW u \in User, NEW row,
         row.status # "active" \/ row.provider # "apple"
         \/ \A tx \in StoreTx : row.chain # tx.chain,
         subscription' = [subscription EXCEPT ![u] = row]
  PROVE  NoNewPayer
BY DEF SubscriptionTypeOK, NoNewPayer

LEMMA RowStatus ==
  ASSUME NEW row \in Subscription, NEW status
  PROVE  /\ [row EXCEPT !.status = status].status = status
         /\ [row EXCEPT !.status = status, !.provider = "adapty"].status = status
BY DEF Subscription, NoSubscription

LEMMA RowActive ==
  ASSUME NEW provider, NEW chain, NEW until
  PROVE  /\ activeFrom(provider, chain, until).provider = provider
         /\ activeFrom(provider, chain, until).chain = chain
BY DEF activeFrom

LEMMA RevokeChains ==
  ASSUME Inv, ChainInv, NEW h \in Handler, revoke(h), UNCHANGED overlapped
  PROVE  ChainInv'
<1>1. /\ \A i \in Handler \ {h} : call'[i] = call[i]
      /\ call'[h].at \notin storeSteps /\ purchase' = purchase
  BY DEF revoke, ends, Idle, storeSteps, Inv, RequestsInv
<1>2. NoNewPayer
  <2>1. CASE subscription' = subscription
    BY <2>1 DEF NoNewPayer
  <2>2. CASE subscription' # subscription
    <3>1. PICK u, status : /\ u = call[h].user /\ status \in {"expired", "canceled"}
                           /\ subscription' = [subscription EXCEPT ![u].status = status]
      BY <2>2 DEF revoke
    <3>2. u \in User /\ SubscriptionTypeOK /\ subscription[u] \in Subscription
      BY <3>1, BusyFacts DEF revoke, at, storeSteps, Inv, SubscriptionTypeOK
    <3> DEFINE row == [subscription[u] EXCEPT !.status = status]
    <3>3. row.status # "active"
      BY <3>1, <3>2, RowStatus
    <3>4. subscription' = [subscription EXCEPT ![u] = row]
      BY <3>1
    <3> HIDE DEF row
    <3>. QED BY <3>2, <3>3, <3>4, RowEnds
  <2>. QED BY <2>1, <2>2
<1>. QED BY <1>1, <1>2, ChainsUntouched

LEMMA CrmChains ==
  ASSUME Inv, ChainInv, ChainsApart, NEW h \in Handler,
         crm(h) \/ \E g \in CrmGrant : crmGrant(h, g), UNCHANGED overlapped
  PROVE  ChainInv'
<1>0. call \in [Handler -> Request] /\ SubscriptionTypeOK
  BY DEF Inv, RequestsInv
<1>1. /\ \A i \in Handler \ {h} : call'[i] = call[i]
      /\ call'[h].at \notin storeSteps /\ purchase' = purchase
  <2>1. CASE lockRow(h)
    BY <1>0, <2>1 DEF lockRow, tableVars, Request, storeSteps
  <2>2. CASE applyGrant(h)
    BY <1>0, <2>2 DEF applyGrant, Idle, storeSteps
  <2>3. CASE \E g \in CrmGrant : crmGrant(h, g)
    BY <1>0, <2>3 DEF crmGrant, tableVars, Idle, storeSteps
  <2>. QED BY <2>1, <2>2, <2>3 DEF crm
<1>2. NoNewPayer
  <2>1. CASE applyGrant(h)
    <3>1. PICK u, g, t : /\ u = call[h].user /\ g = call[h].about
                         /\ subscription' =
                              [subscription EXCEPT ![u] = activeFrom("apple", crmKey(g), t)]
      BY <2>1 DEF applyGrant
    <3>2. g \in CrmGrant /\ u \in User
      BY <2>1, <3>1, OutsideTypes DEF applyGrant, at, crmSteps, Inv, RequestsInv, RequestOK
    <3> DEFINE row == activeFrom("apple", crmKey(g), t)
    <3>3. \A tx \in StoreTx : row.chain # tx.chain
      BY <3>2, RowActive DEF ChainsApart
    <3>4. subscription' = [subscription EXCEPT ![u] = row]
      BY <3>1
    <3> HIDE DEF row
    <3>. QED BY <1>0, <3>2, <3>3, <3>4, RowEnds
  <2>2. CASE ~ applyGrant(h)
    BY <2>2 DEF crm, lockRow, crmGrant, tableVars, NoNewPayer
  <2>. QED BY <2>1, <2>2
<1>. QED BY <1>1, <1>2, ChainsUntouched

LEMMA AdminChains ==
  ASSUME Inv, ChainInv, ChainsApart, NEW h \in Handler, adminCall(h) PROVE ChainInv'
<1>0. SubscriptionTypeOK
  BY DEF Inv
<1>1. PICK u \in User : grantManually(h, u) \/ revokeManually(h, u)
  BY DEF adminCall
<1>2. /\ \A i \in Handler : call'[i] = call[i] /\ UNCHANGED <<purchase, overlapped>>
  BY <1>1 DEF grantManually, revokeManually, adminCall
<1>3. NoNewPayer
  <2>1. CASE grantManually(h, u)
    <3> DEFINE row == activeFrom("apple", None, Now + 1)
    <3>1. \A tx \in StoreTx : row.chain # tx.chain
      BY RowActive DEF ChainsApart
    <3>2. subscription' = [subscription EXCEPT ![u] = row]
      BY <2>1 DEF grantManually
    <3> HIDE DEF row
    <3>. QED BY <1>0, <3>1, <3>2, RowEnds
  <2>2. CASE revokeManually(h, u)
    <3> DEFINE row == [subscription[u] EXCEPT !.status = "canceled"]
    <3>1. row.status # "active"
      BY <1>0, RowStatus DEF SubscriptionTypeOK
    <3>2. subscription' = [subscription EXCEPT ![u] = row]
      BY <2>2 DEF revokeManually
    <3> HIDE DEF row
    <3>. QED BY <1>0, <3>1, <3>2, RowEnds
  <2>. QED BY <1>1, <2>1, <2>2
<1>. QED BY <1>2, <1>3, ChainsUntouched

LEMMA AdaptyChains ==
  ASSUME Inv, ChainInv, NEW h \in Handler,
         adapty(h) \/ \E e \in AdaptyEvent : deliver(h, e), UNCHANGED overlapped
  PROVE  ChainInv'
<1>0. call \in [Handler -> Request] /\ SubscriptionTypeOK
  BY DEF Inv, RequestsInv
<1>1. /\ \A i \in Handler \ {h} : call'[i] = call[i]
      /\ call'[h].at \notin storeSteps \/ call'[h] = call[h]
      /\ purchase' = purchase
  <2>1. CASE ends(h)
    BY <1>0, <2>1 DEF ends, Idle, storeSteps, adapty, recordEvent, activate, expireRow,
       findNoRow, expireMissing, deliver, tableVars
  <2>2. CASE \E s \in {"applyEvent", "expireMissing"} : call' = [call EXCEPT ![h].at = s]
    BY <1>0, <2>2 DEF Request, storeSteps, adapty, recordEvent, activate, expireRow,
       findNoRow, expireMissing, deliver, tableVars
  <2>3. CASE \E e \in AdaptyEvent : deliver(h, e)
    BY <1>0, <2>3 DEF deliver, Idle, storeSteps, tableVars
  <2>. QED BY <2>1, <2>2, <2>3
           DEF adapty, recordEvent, activate, expireRow, findNoRow, expireMissing, answered
<1>2. ASSUME subscription' # subscription PROVE NoNewPayer
  <2>1. PICK u, e : u = call[h].user /\ e = call[h].about
    OBVIOUS
  <2>2. u \in User /\ call[h].at \in eventSteps
    BY <1>2, <2>1 DEF adapty, recordEvent, activate, expireRow, findNoRow, expireMissing,
       deliver, at, eventSteps, tableVars, Inv, RequestsInv, RequestOK
  <2>3. subscription[u] \in Subscription /\ endStatus(e) # "active"
    BY <1>0, <2>2 DEF SubscriptionTypeOK, endStatus
  <2>4. CASE subscription' = [subscription EXCEPT ![u] = activeFrom("adapty", e.chain, e.until)]
    <3> DEFINE row == activeFrom("adapty", e.chain, e.until)
    <3>1. row.provider # "apple"
      BY RowActive
    <3>2. subscription' = [subscription EXCEPT ![u] = row]
      BY <2>4
    <3> HIDE DEF row
    <3>. QED BY <1>0, <2>2, <3>1, <3>2, RowEnds
  <2>5. CASE subscription' = [subscription EXCEPT ![u].status = endStatus(e)]
    <3> DEFINE row == [subscription[u] EXCEPT !.status = endStatus(e)]
    <3>1. row.status # "active"
      BY <2>3, RowStatus
    <3>2. subscription' = [subscription EXCEPT ![u] = row]
      BY <2>5
    <3> HIDE DEF row
    <3>. QED BY <1>0, <2>2, <3>1, <3>2, RowEnds
  <2>6. CASE subscription' = [subscription EXCEPT ![u].status = endStatus(e),
                                                  ![u].provider = "adapty"]
    <3> DEFINE row == [subscription[u] EXCEPT !.status = endStatus(e), !.provider = "adapty"]
    <3>1. row.status # "active"
      BY <2>3, RowStatus
    <3>2. subscription' = [subscription EXCEPT ![u] = row]
      BY <1>0, <2>2, <2>6 DEF SubscriptionTypeOK
    <3> HIDE DEF row
    <3>. QED BY <1>0, <2>2, <3>1, <3>2, RowEnds
  <2>. QED BY <1>2, <2>1, <2>4, <2>5, <2>6
           DEF adapty, recordEvent, activate, expireRow, findNoRow, expireMissing, deliver,
               tableVars
<1>3. NoNewPayer
  BY <1>2 DEF NoNewPayer
<1>. QED BY <1>1, <1>3, ChainsUntouched


LEMMA AbortChains ==
  ASSUME Inv, ChainInv, NEW h \in Handler, abort(h) PROVE ChainInv'
<1>1. /\ \A i \in Handler \ {h} : call'[i] = call[i]
      /\ call'[h].at \notin storeSteps
      /\ UNCHANGED <<purchase, subscription, overlapped>>
  BY DEF abort, ends, tableVars, Idle, storeSteps, Inv, RequestsInv
<1>. QED BY <1>1, ChainsUntouched DEF NoNewPayer

-----------------------------------------------------------------------------
(* Nobody owns or pays at first.                                            *)
LEMMA InitChains == Init => ChainInv
<1>. SUFFICES ASSUME Init PROVE ChainInv
  OBVIOUS
<1>1. /\ \A d \in PurchaseKey : purchase[d] = NoUser
      /\ \A v \in User : subscription[v] = NoSubscription
      /\ \A h \in Handler : call[h].at = "idle"
  BY DEF Init, BillingInit, Idle
<1>2. \A c : \A v \in User : ~ paysFor(v, c)
  BY <1>1 DEF paysFor, holdsActive, NoSubscription
<1>3. \A c : \A h \in Handler : ~ busyWith(h, c)
  BY <1>1 DEF busyWith, storeSteps
<1>. QED BY <1>1, <1>2, <1>3 DEF ChainInv, ChainOK, MovesOwn, purchasesOf, storeSteps

LEMMA NextChains ==
  ASSUME ChainsApart PROVE Inv /\ ChainInv /\ [Next]_vars => ChainInv'
<1>. SUFFICES ASSUME Inv, ChainInv, [Next]_vars PROVE ChainInv'
  OBVIOUS
<1>1. CASE Next
  <2>1. PICK h \in Handler : newCall(h) \/ firstDelivery(h) \/ serve(h) \/ abort(h)
    BY <1>1 DEF Next
  <2>2. CASE newCall(h)
    <3>1. UNCHANGED workload /\ workload.grants \subseteq CrmGrant
      BY <2>2, BoundAssumption DEF newCall, Inv, RequestsInv
    <3>2. CASE storeCall(h)
      BY <3>1, <3>2, StoreCallChains
    <3>3. CASE crmCall(h)
      BY <3>1, <3>3, CrmChains DEF crmCall
    <3>4. CASE adminCall(h)
      BY <3>4, AdminChains
    <3>5. CASE repeatDelivery(h)
      BY <3>5, AdaptyChains DEF repeatDelivery, Inv, SubscriptionTypeOK
    <3>. QED BY <2>2, <3>2, <3>3, <3>4, <3>5 DEF newCall
  <2>3. CASE firstDelivery(h)
    <3>1. workload.events \subseteq AdaptyEvent
      BY BoundAssumption DEF Inv, RequestsInv
    <3>. QED BY <2>3, <3>1, AdaptyChains DEF firstDelivery
  <2>4. CASE serve(h)
    <3>1. UNCHANGED overlapped
      BY <2>4 DEF serve
    <3>2. CASE storeKit(h)
      BY <3>1, <3>2, RecordChains, ScanChains, ReassignChains, ExpireChains, FinishChains,
         RevokeChains DEF storeKit
    <3>3. CASE crm(h)
      BY <3>1, <3>3, CrmChains
    <3>4. CASE adapty(h)
      BY <3>1, <3>4, AdaptyChains
    <3>. QED BY <2>4, <3>2, <3>3, <3>4 DEF serve
  <2>5. CASE abort(h)
    BY <2>5, AbortChains
  <2>. QED BY <2>1, <2>2, <2>3, <2>4, <2>5
<1>2. CASE UNCHANGED vars
  <2>1. UNCHANGED <<purchase, subscription, call, overlapped>>
    BY <1>2 DEF vars, tableVars
  <2>2. CASE Handler = {}
    BY <2>1, <2>2 DEF ChainInv, ChainOK, movable, purchasesOf, paysFor, holdsActive
  <2>3. ASSUME NEW h \in Handler PROVE ChainInv'
    BY <2>1, ChainsUntouched DEF NoNewPayer
  <2>. QED BY <2>2, <2>3
<1>. QED BY <1>1, <1>2

(* The user whose subscription a chain keeps active is the owner of the     *)
(* chain's purchases, which reassign and expire see to between two commits, *)
(* if Apple's chains are of one kind each and no two receipts of the chain  *)
(* were applied at one time.                                                *)
THEOREM PayerOwnsChain ==
  ASSUME ChainsApart PROVE Spec => []ActiveOwnsChain
<1>1. ASSUME Inv, ChainInv PROVE ActiveOwnsChain
  <2>1. ASSUME NEW u \in User, NEW tx \in StoreTx, transferable(tx), tx.chain \notin overlapped,
               holdsActive(u, tx.chain), subscription[u].provider = "apple"
        PROVE  /\ \E d \in PurchaseKey : d[1].chain = tx.chain /\ purchase[d] = u
               /\ foreignPurchases(u, tx) = {}
    <3>1. movable(tx.chain) /\ tx.chain \in Ref /\ paysFor(u, tx.chain) /\ NoUser \notin User
      BY <2>1, OutsideTypes DEF movable, paysFor
    <3>2. ChainOK(tx.chain)
      BY <1>1, <2>1, <3>1 DEF ChainInv
    <3>3. PICK d \in purchasesOf(tx.chain) : purchase[d] = u
      BY <3>1, <3>2 DEF ChainOK
    <3>4. foreignOf(tx.chain, u) = {}
      BY <3>1, <3>2, <3>3, OwnerAlone
    <3>. QED BY <3>1, <3>3, <3>4, ChainOfOneKind DEF purchasesOf
  <2>. QED BY <2>1 DEF ActiveOwnsChain
<1>2. Inv /\ ChainInv => ActiveOwnsChain
  BY <1>1
<1>3. (Inv /\ ChainInv) /\ [Next]_vars => (Inv /\ ChainInv)'
  BY NextInv, NextChains
<1>4. Init => Inv /\ ChainInv
  BY InitInv, InitChains
<1>. QED BY <1>2, <1>3, <1>4, PTL DEF Spec
=============================================================================
