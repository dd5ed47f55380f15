---------------------------- MODULE AdaptyBilling ----------------------------
(***************************************************************************)
(* AdaptyWebhookService: the events of Adapty, in any order, each repeated *)
(* until it is answered with 2xx, and perhaps after.                       *)
(***************************************************************************)
EXTENDS BillingTables

VARIABLES acked   \* events Adapty had a 2xx for

(* classify_event                                                           *)
GrantingEvent(e) ==
  \/ e.type \in Granting
  \/ e.type = "access_level_updated" /\ e.active = TRUE /\ e.premium
ExpiringEvent(e) ==
  \/ e.type \in Expiring
  \/ e.type = "access_level_updated" /\ e.active = FALSE
NoopEvent(e) == e.type # "unknown" /\ ~ GrantingEvent(e) /\ ~ ExpiringEvent(e)

(* The grant's key: the transaction of the period, else the chain, else the *)
(* event itself.                                                            *)
grantRef(e) ==
  IF e.txn # None THEN e.txn ELSE IF e.chain # None THEN e.chain ELSE e.id

(* _coins_for: the catalogue, or the fallback for a product it lacks.       *)
coinsFor(e) == IF e.coins > 0 THEN e.coins ELSE FallbackCoins

-----------------------------------------------------------------------------
answered(h, e) ==
  /\ acked' = acked \cup {e}
  /\ ends(h)

(* resolve_webhook_user: the user of the id, else the guest of the device   *)
(* the id names; nobody is ever made for an event.                          *)
resolved(e) == e.user # NoUser

(* handle: no user for the event, or an unknown type, is answered 200 and   *)
(* leaves nothing behind.                                                   *)
dismissed(e) == ~ resolved(e) \/ e.type = "unknown"

deliver(h, e) ==
  /\ at(h, "idle")
  /\ \/ /\ dismissed(e)
        /\ acked' = acked \cup {e}
        /\ UNCHANGED call
     \/ /\ ~ dismissed(e)
        /\ call' = [call EXCEPT ![h] = [Idle EXCEPT !.at = "event", !.user = e.user, !.about = e]]
        /\ UNCHANGED acked
  /\ UNCHANGED <<tableVars, walletVars>>

(* The event's row is the first write: a second delivery waits for the first*)
(* one's commit, then is a duplicate.                                       *)
deliveredElsewhere(h, e) ==
  \E g \in Handler \ {h} : call[g].at \in {"applyEvent", "expireMissing"} /\ call[g].about = e

(* Mutant: the row of the event is committed before its effect.             *)
recordEventFirst(h) ==
  LET e == call[h].about IN
  /\ at(h, "event")
  /\ ~ deliveredElsewhere(h, e)
  /\ \/ /\ e \in events \/ NoopEvent(e)
        /\ answered(h, e)
     \/ /\ e \notin events /\ ~ NoopEvent(e)
        /\ call' = [call EXCEPT ![h].at = "applyEvent"]
        /\ UNCHANGED acked
  /\ events' = events \cup {e}
  /\ UNCHANGED <<purchase, subscription, grantee, walletVars>>

recordEvent(h) ==
  LET e == call[h].about IN
  /\ at(h, "event")
  /\ ~ deliveredElsewhere(h, e)
  /\ \/ /\ e \in events
        /\ answered(h, e)
        /\ UNCHANGED events
     \/ /\ e \notin events /\ NoopEvent(e)
        /\ answered(h, e)
        /\ events' = events \cup {e}
     \/ /\ e \notin events /\ ~ NoopEvent(e)
        /\ call' = [call EXCEPT ![h].at = "applyEvent"]
        /\ UNCHANGED <<acked, events>>
  /\ UNCHANGED <<purchase, subscription, grantee, walletVars>>

-----------------------------------------------------------------------------
(* Mutant: the event's id is the key of the grant.                          *)
activatePerEvent(h) ==
  LET e == call[h].about  u == call[h].user IN
  /\ at(h, "applyEvent") /\ GrantingEvent(e) /\ subscriptionFree(h, u)
  /\ subscription' = [subscription EXCEPT ![u] = activeFrom("adapty", e.chain, e.until)]
  /\ available' = [available EXCEPT ![u] = @ + coinsFor(e)]
  /\ booked' = [booked EXCEPT ![u]["grant"] = @ + coinsFor(e)]
  /\ keys' = keys \cup {grantKey(adaptyKey(grantRef(e)))}
  /\ grantee' = [grantee EXCEPT ![adaptyKey(grantRef(e))] = u]
  /\ events' = events \cup {e}
  /\ answered(h, e)
  /\ UNCHANGED <<purchase, reserved, hold>>

(* GRANTING: the subscription is active whatever it was, the period's coins *)
(* are granted once.                                                        *)
activate(h) ==
  LET e == call[h].about  u == call[h].user IN
  /\ at(h, "applyEvent") /\ GrantingEvent(e) /\ subscriptionFree(h, u)
  /\ subscription' = [subscription EXCEPT ![u] = activeFrom("adapty", e.chain, e.until)]
  /\ grantTo(u, adaptyKey(grantRef(e)), coinsFor(e))
  /\ events' = events \cup {e}
  /\ answered(h, e)
  /\ UNCHANGED purchase

endStatus(e) == IF e.type = "subscription_expired" THEN "expired" ELSE "canceled"

(* Mutant: whether there is a row is not looked at.                         *)
expireUnseenRow(h) ==
  LET e == call[h].about  u == call[h].user IN
  /\ at(h, "applyEvent") /\ ExpiringEvent(e) /\ subscriptionFree(h, u)
  /\ subscription' = [subscription EXCEPT ![u].status = endStatus(e)]
  /\ events' = events \cup {e}
  /\ answered(h, e)
  /\ UNCHANGED <<purchase, grantee, walletVars>>

(* EXPIRING: the status of the row, if the user has one.                    *)
expireRow(h) ==
  LET e == call[h].about  u == call[h].user IN
  /\ at(h, "applyEvent") /\ ExpiringEvent(e) /\ subscriptionFree(h, u)
  /\ subscription[u] # NoSubscription
  /\ subscription' = [subscription EXCEPT ![u].status = endStatus(e)]
  /\ events' = events \cup {e}
  /\ answered(h, e)
  /\ UNCHANGED <<purchase, grantee, walletVars>>

(* No row to lock: the upsert comes after, and by then there may be one.    *)
findNoRow(h) ==
  /\ at(h, "applyEvent") /\ ExpiringEvent(call[h].about)
  /\ subscription[call[h].user] = NoSubscription
  /\ call' = [call EXCEPT ![h].at = "expireMissing"]
  /\ UNCHANGED <<tableVars, walletVars, acked>>

expireMissing(h) ==
  LET e == call[h].about  u == call[h].user IN
  /\ at(h, "expireMissing") /\ subscriptionFree(h, u)
  /\ subscription' = [subscription EXCEPT ![u].status = endStatus(e), ![u].provider = "adapty"]
  /\ events' = events \cup {e}
  /\ answered(h, e)
  /\ UNCHANGED <<purchase, grantee, walletVars>>

adapty(h) ==
  recordEvent(h) \/ activate(h) \/ expireRow(h) \/ findNoRow(h) \/ expireMissing(h)
=============================================================================
