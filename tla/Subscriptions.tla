---------------------------- MODULE Subscriptions ----------------------------
(***************************************************************************)
(* All writers of a user's one subscription row together: StoreKit         *)
(* receipts and notifications, Adapty events, the CRM and the admin.  Any  *)
(* of them may be served at the same time, and any transaction may abort:  *)
(* the server dies, the database refuses, or finds a deadlock.             *)
(***************************************************************************)
EXTENDS StoreKitBilling, AdaptyBilling, CrmGrants

CONSTANTS
  Notes,        \* notification types Apple sends
  Workloads,    \* bounds: what one behaviour may see
  MaxAborts     \* bound: transactions that fail for other reasons than a deadlock

(* calls bounds the calls of clients, Apple and operators, and the repeated *)
(* deliveries of answered events.                                           *)
ASSUME BoundAssumption ==
  /\ Workloads \subseteq [receipts : SUBSET StoreTx, events : SUBSET AdaptyEvent,
                          grants : SUBSET CrmGrant, manual : BOOLEAN, calls : Nat]
  /\ MaxAborts \in Nat

VARIABLES
  workload,     \* what happens in this behaviour
  calls,        \* calls so far
  aborts,       \* aborted transactions so far
  overlapped    \* history: chains two receipts of which were applied at one time

boundVars == <<workload, calls, aborts>>
vars == <<tableVars, walletVars, call, acked, boundVars, overlapped>>

Init ==
  /\ BillingInit
  /\ acked = {}
  /\ workload \in Workloads
  /\ calls = 0 /\ aborts = 0
  /\ overlapped = {}

-----------------------------------------------------------------------------
storeSteps == {"record", "scanChain", "reassign", "expire", "finish", "revoke"}
busyWith(h, chain) == call[h].at \in storeSteps /\ call[h].about.chain = chain

noteOverlap(h, tx) ==
  overlapped' = IF \E g \in Handler \ {h} : busyWith(g, tx.chain)
                  THEN overlapped \cup {tx.chain} ELSE overlapped

storeCall(h) ==
  \E tx \in workload.receipts :
    /\ \/ \E u \in User : verify(h, u, tx)
       \/ \E note \in Notes : notify(h, tx, note)
    /\ noteOverlap(h, tx)
    /\ UNCHANGED acked

crmCall(h) ==
  /\ \E g \in workload.grants : crmGrant(h, g)
  /\ UNCHANGED <<acked, overlapped>>

adminCall(h) ==
  /\ workload.manual
  /\ \E u \in User : grantManually(h, u) \/ revokeManually(h, u)
  /\ UNCHANGED <<acked, overlapped>>

(* A delivery that was answered may come again.                             *)
repeatDelivery(h) ==
  /\ \E e \in acked : deliver(h, e) /\ ~ dismissed(e)
  /\ UNCHANGED overlapped

newCall(h) ==
  /\ calls < workload.calls /\ calls' = calls + 1
  /\ storeCall(h) \/ crmCall(h) \/ adminCall(h) \/ repeatDelivery(h)
  /\ UNCHANGED <<workload, aborts>>

firstDelivery(h) ==
  /\ \E e \in workload.events \ acked : deliver(h, e)
  /\ UNCHANGED <<boundVars, overlapped>>

serve(h) ==
  /\ \/ (storeKit(h) \/ crm(h)) /\ UNCHANGED acked
     \/ adapty(h)
  /\ UNCHANGED <<boundVars, overlapped>>

-----------------------------------------------------------------------------
(* The requests whose next statement waits for a row that h holds.          *)
wants(h) ==
  CASE at(h, "expire") -> call[h].seen
    [] at(h, "finish") /\ isSubscription(call[h].about) -> {call[h].user}
    [] call[h].at \in {"revoke", "applyEvent", "expireMissing", "lockRow", "applyGrant"} -> {call[h].user}
    [] OTHER -> {}

waitsFor(h) ==
  {g \in Handler \ {h} :
     \/ wants(h) \cap call[g].held # {}
     \/ at(h, "reassign") /\ call[h].seen \cap (inserting(g) \cup call[g].moved) # {}
     \/ at(h, "record") /\ dedup_key(call[h].user, call[h].about) \in inserting(g)
     \/ at(h, "event") /\ call[h].about = call[g].about
          /\ call[g].at \in {"applyEvent", "expireMissing"}}

deadlocked(h) ==
  \E H \in SUBSET Handler : h \in H /\ \A g \in H : waitsFor(g) \cap H # {}

(* Mutant: a failed delivery is answered with 200 as well.                  *)
abortAnswered(h) ==
  /\ ~ at(h, "idle")
  /\ \/ deadlocked(h) /\ UNCHANGED aborts
     \/ aborts < MaxAborts /\ aborts' = aborts + 1
  /\ ends(h)
  /\ acked' = IF call[h].about \in AdaptyEvent THEN acked \cup {call[h].about} ELSE acked
  /\ UNCHANGED <<tableVars, walletVars, workload, calls, overlapped>>

(* Rollback: nothing of the request remains; the caller gets a 500.         *)
abort(h) ==
  /\ ~ at(h, "idle")
  /\ \/ deadlocked(h) /\ UNCHANGED aborts
     \/ aborts < MaxAborts /\ aborts' = aborts + 1
  /\ ends(h)
  /\ UNCHANGED <<tableVars, walletVars, acked, workload, calls, overlapped>>

Next == \E h \in Handler : newCall(h) \/ firstDelivery(h) \/ serve(h) \/ abort(h)

Spec == Init /\ [][Next]_vars

(* Adapty repeats a delivery until it is answered with 2xx; the event loop  *)
(* goes on with every request; PostgreSQL breaks every deadlock.            *)
Fairness ==
  /\ WF_vars(\E h \in Handler : firstDelivery(h))
  /\ \A h \in Handler : WF_vars(serve(h)) /\ WF_vars(deadlocked(h) /\ abort(h))

FairSpec == Spec /\ Fairness

-----------------------------------------------------------------------------
SubscriptionTypeOK ==
  /\ WalletTypeOK
  /\ purchase \in [PurchaseKey -> User \cup {NoUser}]
  /\ subscription \in [User -> Subscription]
  /\ events \subseteq AdaptyEvent
  /\ acked \subseteq AdaptyEvent
  /\ grantee \in [OpKey -> User \cup {NoUser}]

(* "The state purchase without grant does not occur": a purchases row has   *)
(* its ledger entry, an entry its row, and the row of an event that pays    *)
(* has the entry of its period, whatever was aborted or delivered twice.    *)
RecordedIsPaid ==
  /\ \A d \in PurchaseKey :
       d[1].coins > 0 =>
         (purchase[d] # NoUser <=> grantKey(purchaseKey(d)) \in keys)
  /\ \A e \in events :
       GrantingEvent(e) /\ coinsFor(e) > 0 => grantKey(adaptyKey(grantRef(e))) \in keys

(* A receipt that Apple signed pays once in the whole system, whatever      *)
(* environment it names and however many accounts present it.               *)
ReceiptPaidOnce ==
  \A tx \in StoreTx :
    tx.root = "apple" =>
      Cardinality({k \in keys : k[2][1] = "purchase" /\ k[2][2][1] = tx}) <= 1

(* The user whose subscription a chain keeps active owns every purchase of  *)
(* the chain, so there is one such user and Apple's notifications find him, *)
(* unless two receipts of the chain were applied at one time.               *)
ActiveOwnsChain ==
  \A u \in User, tx \in StoreTx :
    /\ transferable(tx) /\ tx.chain \notin overlapped
    /\ holdsActive(u, tx.chain) /\ subscription[u].provider = "apple"
    => /\ \E d \in PurchaseKey : d[1].chain = tx.chain /\ purchase[d] = u
       /\ foreignPurchases(u, tx) = {}

(* A grant_id already applied is not applied again: the call answers        *)
(* applied = false and changes neither coins nor the subscription.          *)
RepeatedGrantIsHarmless ==
  [][\A h \in Handler, g \in CrmGrant :
       grantKey(crmKey(g)) \in keys /\ call[h].about = g /\ at(h, "applyGrant") /\ call'[h] = Idle
       => UNCHANGED <<available, subscription>>]_vars

(* Every event Adapty sends is answered, and what it was for is in the      *)
(* tables unless nobody could be found for it.                              *)
EventsSettle ==
  \A e \in AdaptyEvent :
    <>(e \in workload.events => e \in acked /\ (dismissed(e) \/ e \in events))

(* What a grant key is worth: the catalogue's coins of what it stands for.  *)
worth ==
  [k \in OpKey |->
     CASE k[1] = "purchase" -> k[2][1].coins
       [] k[1] = "adapty-txn" ->
            (IF \E e \in AdaptyEvent : grantRef(e) = k[2]
               THEN coinsFor(CHOOSE e \in AdaptyEvent : grantRef(e) = k[2]) ELSE 0)
       [] OTHER -> k[2].coins]

(* Every channel grants as GrantOnce says: a receipt, a period or a grant   *)
(* of the CRM gives its coins to one user, once, as a whole, for ever.      *)
(* What a user was granted is what he has, less what was given by hand.     *)
Grants == INSTANCE GrantOnce WITH
  Paid <- OpKey, Account <- User, Nobody <- NoUser, Worth <- worth,
  grantee <- grantee, granted <- [u \in User |-> available[u] - booked[u]["promo"]]

GrantsOnce == Grants!GrantSpec
=============================================================================
