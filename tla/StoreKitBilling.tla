--------------------------- MODULE StoreKitBilling ---------------------------
(***************************************************************************)
(* BillingService: a client verifies a StoreKit transaction, Apple sends a *)
(* server notification.  Both end in _apply, or a revocation.              *)
(***************************************************************************)
EXTENDS BillingTables

storeVars == <<purchase, subscription, walletVars, grantee, events>>

isSubscription(tx) == tx.kind = "subscription"
transferable(tx) == isSubscription(tx) /\ environment(tx) # "Xcode"

begin(h, statement, u, tx, note) ==
  call' = [call EXCEPT ![h] = [Idle EXCEPT !.at = statement, !.user = u,
                                           !.about = tx, !.note = note]]

next(h, statement) == call' = [call EXCEPT ![h].at = statement]

-----------------------------------------------------------------------------
(* verify_and_apply_transaction: a receipt of an unknown root is refused,   *)
(* one of an unknown product ignored; both without a write.                 *)
verify(h, u, tx) ==
  /\ at(h, "idle")
  /\ trusted(tx) /\ tx.kind # "unknown"
  /\ begin(h, "record", u, tx, "none")
  /\ UNCHANGED storeVars

(* apply_notification: the user is found by the chain, among purchases and  *)
(* then subscriptions, in any environment; nobody found: ignored.           *)
usersOfChain(chain) ==
  LET buyers == {purchase[d] : d \in {d \in PurchaseKey : d[1].chain = chain}} \ {NoUser}
  IN IF buyers # {} THEN buyers
     ELSE {u \in User : subscription[u].chain = chain}

notify(h, tx, note) ==
  /\ at(h, "idle")
  /\ trusted(tx) /\ (note = "DID_RENEW" => tx.kind # "unknown")
  /\ \E u \in usersOfChain(tx.chain) :
       begin(h, IF note = "DID_RENEW" THEN "record" ELSE "revoke", u, tx, note)
  /\ UNCHANGED storeVars

-----------------------------------------------------------------------------
(* purchases.record: the unique dedup key is taken, or found taken.  Then   *)
(* the owner decides: somebody else's subscription is transferred, somebody *)
(* else's pack refused, one's own subscription updated, nothing granted.    *)
record(h) ==
  LET u == call[h].user  tx == call[h].about  d == dedup_key(u, tx)
      first == IF transferable(tx) THEN "scanChain" ELSE "finish" IN
  /\ at(h, "record")
  /\ purchaseFree(h, d) \/ purchase[d] # NoUser
  /\ \/ /\ purchase[d] = NoUser
        /\ call' = [call EXCEPT ![h].at = first, ![h].newly = TRUE]
     \/ /\ purchase[d] \notin {u, NoUser} /\ transferable(tx)
        /\ next(h, "scanChain")
     \/ /\ purchase[d] = u /\ isSubscription(tx)
        /\ next(h, "finish")
     \/ /\ purchase[d] = u /\ ~ isSubscription(tx)
        /\ ends(h)
     \/ /\ purchase[d] \notin {u, NoUser} /\ ~ transferable(tx)
        /\ ends(h)
  /\ UNCHANGED storeVars

(* reassign_original_transaction: the statement chooses its rows when it    *)
(* begins, waits for them, and updates those that still match.              *)
foreignPurchases(u, tx) ==
  {d \in PurchaseKey : /\ purchase[d] \notin {u, NoUser}
                       /\ d[1].chain = tx.chain
                       /\ environment(d[1]) = environment(tx)}

scanChain(h) ==
  /\ at(h, "scanChain")
  /\ call' = [call EXCEPT ![h].at = "reassign",
                          ![h].seen = foreignPurchases(call[h].user, call[h].about)]
  /\ UNCHANGED storeVars

(* expire_foreign_subscriptions begins as the statement before it ends.     *)
foreignActive(u, chain) == {v \in User \ {u} : holdsActive(v, chain)}

reassign(h) ==
  LET u == call[h].user  tx == call[h].about IN
  /\ at(h, "reassign")
  /\ \A d \in call[h].seen : purchaseFree(h, d)
  /\ call' = [call EXCEPT ![h].at = "expire",
                          ![h].moved = {d \in call[h].seen : purchase[d] # u},
                          ![h].seen = foreignActive(u, tx.chain)]
  /\ UNCHANGED storeVars

(* Mutant: the former owner's subscription is left as it is.                *)
expireNobody(h) ==
  /\ at(h, "expire")
  /\ next(h, "finish")
  /\ UNCHANGED storeVars

expire(h) ==
  /\ at(h, "expire")
  /\ \A v \in call[h].seen : subscriptionFree(h, v)
  /\ call' = [call EXCEPT ![h].at = "finish",
                          ![h].held = {v \in call[h].seen :
                                         holdsActive(v, call[h].about.chain)}]
  /\ UNCHANGED storeVars

-----------------------------------------------------------------------------
(* The tables after the commit: the new purchase and the moved ones belong  *)
(* to the user, whose subscription is the receipt's, whatever it was.       *)
purchasesAfter(h) ==
  [d \in PurchaseKey |-> IF d \in inserting(h) \cup call[h].moved THEN call[h].user
                         ELSE purchase[d]]

subscriptionsAfter(h) ==
  LET u == call[h].user  tx == call[h].about IN
  [v \in User |->
     IF v = u /\ isSubscription(tx) THEN activeFrom("apple", tx.chain, tx.until)
     ELSE IF v \in call[h].held THEN [subscription[v] EXCEPT !.status = "expired"]
     ELSE subscription[v]]

(* Mutant: the coins are granted though the purchase is not new.            *)
finishGrantingAgain(h) ==
  LET u == call[h].user  tx == call[h].about IN
  /\ at(h, "finish")
  /\ isSubscription(tx) => subscriptionFree(h, u)
  /\ purchase' = purchasesAfter(h)
  /\ subscription' = subscriptionsAfter(h)
  /\ available' = [available EXCEPT ![u] = @ + tx.coins]
  /\ ends(h)
  /\ UNCHANGED <<reserved, hold, keys, booked, grantee, events>>

(* _update_subscription_state, _grant_coins for a new purchase, commit.     *)
finish(h) ==
  LET u == call[h].user  tx == call[h].about IN
  /\ at(h, "finish")
  /\ isSubscription(tx) => subscriptionFree(h, u)
  /\ purchase' = purchasesAfter(h)
  /\ subscription' = subscriptionsAfter(h)
  /\ IF call[h].newly THEN grantTo(u, purchaseKey(dedup_key(u, tx)), tx.coins)
     ELSE UNCHANGED <<walletVars, grantee>>
  /\ ends(h)
  /\ UNCHANGED events

(* _handle_revocation: the one subscription of the user found before, of    *)
(* whatever chain, ends; coins stay.                                        *)
revoke(h) ==
  LET u == call[h].user IN
  /\ at(h, "revoke")
  /\ subscriptionFree(h, u)
  /\ subscription' =
       IF subscription[u] = NoSubscription THEN subscription
       ELSE [subscription EXCEPT ![u].status = IF call[h].note = "EXPIRED"
                                               THEN "expired" ELSE "canceled"]
  /\ ends(h)
  /\ UNCHANGED <<purchase, walletVars, grantee, events>>

storeKit(h) ==
  record(h) \/ scanChain(h) \/ reassign(h) \/ expire(h) \/ finish(h) \/ revoke(h)
=============================================================================
