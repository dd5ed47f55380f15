------------------------------ MODULE CrmGrants ------------------------------
(***************************************************************************)
(* Subscriptions granted and revoked by hand: AdminService, and the CRM    *)
(* with a grant_id that is to make a repeated call harmless.               *)
(***************************************************************************)
EXTENDS BillingTables

CONSTANTS
  ManualCoins,   \* coins of a subscription granted by an admin
  OverlapCrm     \* may two calls with one grant_id be served at one time

ASSUME ManualAssumption == ManualCoins \in Nat /\ OverlapCrm \in BOOLEAN

(* AdminService.grant_subscription: no key, every call grants.              *)
grantManually(h, u) ==
  /\ at(h, "idle") /\ subscriptionFree(h, u)
  /\ subscription' = [subscription EXCEPT ![u] = activeFrom("apple", None, Now + 1)]
  /\ IF ManualCoins > 0 THEN grant_credits(u, ManualCoins) ELSE UNCHANGED walletVars
  /\ UNCHANGED <<purchase, grantee, events, call>>

revokeManually(h, u) ==
  /\ at(h, "idle") /\ subscriptionFree(h, u)
  /\ subscription[u] # NoSubscription
  /\ subscription' = [subscription EXCEPT ![u].status = "canceled"]
  /\ UNCHANGED <<purchase, walletVars, grantee, events, call>>

-----------------------------------------------------------------------------
beingGranted(g) == \E h \in Handler : call[h].at \in {"lockRow", "applyGrant"} /\ call[h].about = g

(* idempotency_exists: read without a lock, before anything is written.     *)
crmGrant(h, g) ==
  /\ at(h, "idle")
  /\ OverlapCrm \/ ~ beingGranted(g)
  /\ grantKey(crmKey(g)) \notin keys
  /\ call' = [call EXCEPT ![h] = [Idle EXCEPT !.at = "lockRow", !.user = g.user, !.about = g]]
  /\ UNCHANGED <<tableVars, walletVars>>

(* The row, locked if there is one, says from when the new period runs.     *)
lockRow(h) ==
  LET s == subscription[call[h].user] IN
  /\ at(h, "lockRow") /\ subscriptionFree(h, call[h].user)
  /\ call' = [call EXCEPT ![h].at = "applyGrant",
                          ![h].held = IF s = NoSubscription THEN {} ELSE {call[h].user},
                          ![h].base = IF s.status = "active" /\ s.until > Now THEN s.until ELSE Now]
  /\ UNCHANGED <<tableVars, walletVars>>

(* The coins are added before the ledger entry, whose "not new" is ignored. *)
applyGrant(h) ==
  LET g == call[h].about  u == call[h].user  key == crmKey(g) IN
  /\ at(h, "applyGrant") /\ subscriptionFree(h, u)
  /\ subscription' = [subscription EXCEPT ![u] = activeFrom("apple", key, call[h].base + 1)]
  /\ grantCoinsIgnoringDuplicate(u, key, g.coins)
  /\ grantee' = IF grantKey(key) \in keys THEN grantee ELSE [grantee EXCEPT ![key] = u]
  /\ call' = [call EXCEPT ![h] = Idle]
  /\ UNCHANGED <<purchase, events>>

crm(h) == lockRow(h) \/ applyGrant(h)
=============================================================================
