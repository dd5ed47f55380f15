---------------------------- MODULE BillingTables ----------------------------
(***************************************************************************)
(* The tables behind purchases and subscriptions (purchases,               *)
(* subscription_state, adapty_webhook_events), and the requests that write *)
(* them.                                                                   *)
(*                                                                         *)
(* A request is one PostgreSQL transaction at READ COMMITTED: a statement  *)
(* sees what was committed before it began, and waits for a row that       *)
(* another open transaction has written.  An open transaction is the       *)
(* record call[h]: what it has read, and the rows it has written and       *)
(* therefore holds.  The tables change when it commits.  Its last          *)
(* statements, which take the last row and commit, are one step.           *)
(***************************************************************************)
EXTENDS CoinWallet

CONSTANTS
  Handler,        \* requests that may be served at one time
  Ref,            \* ids that Apple, Adapty and the CRM give
  StoreTx,        \* signed StoreKit transactions
  AdaptyEvent,    \* events Adapty sends
  CrmGrant,       \* grant_id of the CRM, with what it grants
  TrustXcodeCerts,\* APPLE_STOREKIT_TRUST_XCODE_TEST_CERTS
  FallbackCoins,  \* ADAPTY_FALLBACK_COINS_GRANT
  Now,            \* the present, as a period number
  NoUser,
  None            \* an absent optional value

Environment == {"Production", "Sandbox", "Xcode"}
ProductKind == {"subscription", "pack", "unknown"}
Granting == {"trial_started", "subscription_started", "subscription_renewed"}
Expiring == {"subscription_expired", "subscription_cancelled"}
Noop == {"subscription_renewal_cancelled", "trial_renewal_cancelled"}
EventType == Granting \cup Expiring \cup Noop \cup {"access_level_updated", "unknown"}

(* A receipt: the certificate its chain ends in, the environment its claims *)
(* name, its ids, what the catalogue says of its product, the period paid.  *)
StoreTxType ==
  [id : Ref, root : {"apple", "pinned", "xcode_cn", "other"}, claim : Environment,
   chain : Ref, kind : ProductKind, coins : Nat, until : Nat]

(* An event as the parser leaves it; user is what resolve_webhook_user      *)
(* finds, coins what the catalogue says of the product (0: no such product).*)
AdaptyEventType ==
  [id : Ref, type : EventType, active : BOOLEAN \cup {None}, premium : BOOLEAN,
   user : User \cup {NoUser}, txn : Ref \cup {None}, chain : Ref \cup {None},
   coins : Nat, until : Nat]

CrmGrantType == [id : Ref, user : User, coins : Nat \ {0}]

ASSUME BillingAssumption ==
  /\ NoUser \notin User
  /\ StoreTx \subseteq StoreTxType
  /\ AdaptyEvent \subseteq AdaptyEventType
  /\ CrmGrant \subseteq CrmGrantType
  /\ TrustXcodeCerts \in BOOLEAN
  /\ FallbackCoins \in Nat
  /\ Now \in Nat

VARIABLES
  purchase,      \* user of the purchases row with a dedup key, NoUser: no row
  subscription,  \* subscription_state row of a user
  events,        \* adapty_webhook_events.event_id present
  grantee,       \* user of the credit_ledger entry with a grant key
  call           \* requests being served

tableVars == <<purchase, subscription, events, grantee>>

-----------------------------------------------------------------------------
(* _verify_chain and _resolve_environment: the certificate decides.  What   *)
(* Apple signed is Production unless it claims Sandbox; what a test root    *)
(* signed is Xcode whatever it claims; any other root is refused.           *)
trusted(tx) ==
  \/ tx.root \in {"apple", "pinned"}
  \/ tx.root = "xcode_cn" /\ TrustXcodeCerts

(* Mutant: the claim is believed.                                           *)
claimedEnvironment(tx) == tx.claim

environment(tx) ==
  IF tx.root # "apple" THEN "Xcode"
  ELSE IF tx.claim = "Sandbox" THEN "Sandbox" ELSE "Production"

(* _dedup_key: Apple's transaction ids are unique, those of Xcode only for  *)
(* one user (and purchase date, which is part of tx here).                  *)
dedup_key(u, tx) == <<tx, IF environment(tx) = "Xcode" THEN u ELSE NoUser>>

PurchaseKey == {dedup_key(u, tx) : u \in User, tx \in StoreTx}

(* Ledger keys of the three channels, each with a prefix of its own.        *)
purchaseKey(d) == <<"purchase", d>>
adaptyKey(ref) == <<"adapty-txn", ref>>
crmKey(g) == <<"crm:subscription", g>>

BillingKey ==
  {purchaseKey(d) : d \in PurchaseKey} \cup {adaptyKey(r) : r \in Ref}
  \cup {crmKey(g) : g \in CrmGrant}

ASSUME KeyAssumption == OpKey = BillingKey

-----------------------------------------------------------------------------
Status == {"active", "expired", "canceled"}
NoSubscription == [status |-> "none", provider |-> "none", chain |-> None, until |-> 0]
Subscription ==
  [status : Status, provider : {"apple", "adapty"},
   chain : Ref \cup {None} \cup {crmKey(g) : g \in CrmGrant}, until : Nat]
  \cup {NoSubscription}

(* upsert_subscription(status = active, ...)                                *)
activeFrom(provider, chain, until) ==
  [status |-> "active", provider |-> provider, chain |-> chain, until |-> until]

holdsActive(u, chain) == subscription[u].status = "active" /\ subscription[u].chain = chain

-----------------------------------------------------------------------------
(* A request: the statement it is about to run and its local variables.     *)
Idle == [at |-> "idle", user |-> NoUser, about |-> None, note |-> "none",
         newly |-> FALSE, seen |-> {}, moved |-> {}, held |-> {}, base |-> 0]

at(h, statement) == call[h].at = statement
ends(h) == call' = [call EXCEPT ![h] = Idle]

(* held: the subscription rows a request has written or read FOR UPDATE.    *)
subscriptionFree(h, u) == \A g \in Handler \ {h} : u \notin call[g].held

(* The purchases row of a new purchase, seen by its own transaction only.   *)
inserting(h) == IF call[h].newly THEN {dedup_key(call[h].user, call[h].about)} ELSE {}

purchaseFree(h, d) == \A g \in Handler \ {h} : d \notin inserting(g) \cup call[g].moved

(* ensure_wallet, append_ledger with a key, and the coins if the key is new;*)
(* a product without coins grants none.                                     *)
grantTo(u, key, coins) ==
  \/ /\ coins > 0
     /\ grantCoins(u, key, coins)
     /\ grantee' = IF grantKey(key) \in keys THEN grantee ELSE [grantee EXCEPT ![key] = u]
  \/ /\ coins = 0
     /\ UNCHANGED <<walletVars, grantee>>

BillingInit ==
  /\ WalletInit
  /\ purchase = [d \in PurchaseKey |-> NoUser]
  /\ subscription = [u \in User |-> NoSubscription]
  /\ events = {}
  /\ grantee = [k \in OpKey |-> NoUser]
  /\ call = [h \in Handler |-> Idle]
=============================================================================
