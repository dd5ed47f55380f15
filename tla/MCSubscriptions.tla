--------------------------- MODULE MCSubscriptions ---------------------------
(* Two accounts of one Apple ID, as after a reinstall.  A first receipt and  *)
(* its renewal, a pack, a receipt of Xcode; two events of one period, the    *)
(* end of the subscription, and an event for nobody.                         *)
EXTENDS Subscriptions, TLC

CONSTANTS ua, ub, c1, r1, r2, r3, r4, e1, e2, e3, e4, e5, g1

Receipt(id, root, claim, chain, kind, until) ==
  [id |-> id, root |-> root, claim |-> claim, chain |-> chain, kind |-> kind,
   coins |-> 1, until |-> until]

first == Receipt(r1, "apple", "Xcode", c1, "subscription", Now)
renewal == Receipt(r2, "apple", "Production", c1, "subscription", Now + 1)
pack == Receipt(r3, "apple", "Sandbox", r3, "pack", 0)
local == [Receipt(r4, "pinned", "Production", r4, "subscription", Now + 1) EXCEPT !.coins = 0]

Event(id, type, user, txn) ==
  [id |-> id, type |-> type, active |-> None, premium |-> FALSE, user |-> user,
   txn |-> txn, chain |-> c1, coins |-> 1, until |-> Now + 1]

started == Event(e1, "subscription_started", ua, r1)
accessUp == [Event(e2, "access_level_updated", ua, r1) EXCEPT !.active = TRUE, !.premium = TRUE]
ended == Event(e3, "subscription_expired", ua, None)
renewalOff == Event(e5, "subscription_renewal_cancelled", ua, None)
stray == Event(e4, "subscription_started", NoUser, r2)

Receipts == {first, renewal, pack, local}
Events == {started, accessUp, ended, renewalOff, stray}
CrmGrants1 == {[id |-> g1, user |-> ua, coins |-> 1]}
NoJobs == [j \in {} |-> ua]

Load(rs, es, gs, byHand, n) ==
  [receipts |-> rs, events |-> es, grants |-> gs, manual |-> byHand, calls |-> n]

(* The races of a chain; one user's other receipts beside the events of a    *)
(* period; the end of a subscription beside the operators.                   *)
Loads ==
  {Load({first, renewal}, {}, {}, FALSE, 4),
   Load({pack, local}, {started, accessUp}, {}, FALSE, 2),
   Load({first}, {started, ended}, {}, FALSE, 2),
   Load({first}, {ended, renewalOff, stray}, CrmGrants1, TRUE, 2)}

(* The CRM alone, one grant_id asked for twice.                              *)
CrmLoads == {Load({}, {}, CrmGrants1, TRUE, 3)}
=============================================================================
