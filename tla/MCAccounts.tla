----------------------------- MODULE MCAccounts -----------------------------
(* One device of one owner with two Apple IDs.                              *)
EXTENDS Accounts, TLC

CONSTANTS d1, s1, s2, o1, j1, p1, p2

Load(guests, signIns, subs, moneyCalls, money) ==
  [guests |-> guests, signIns |-> signIns, logouts |-> 0, moneyCalls |-> moneyCalls,
   deaths |-> 0, money |-> money, subs |-> subs, noDevice |-> FALSE]

(* Cold starts, a sign-in and a logout; a merge beside a logout; a merge     *)
(* beside lyrics calls with one key; a merge beside a job, and the guest     *)
(* come back; two merges of a guest beside a purchase; two permanent         *)
(* accounts merged into each other.                                          *)
Loads ==
  {[Load(3, 1, {s1}, 0, {}) EXCEPT !.logouts = 1, !.noDevice = TRUE, !.deaths = 1],
   [Load(2, 2, {s1}, 0, {}) EXCEPT !.logouts = 1],
   [Load(1, 2, {s1}, 3, {"grant", "lyrics"}) EXCEPT !.deaths = 1],
   Load(2, 2, {s1}, 3, {"grant", "job"}),
   Load(1, 3, {s1}, 1, {"grant"}),
   Load(0, 4, {s1, s2}, 2, {"grant"})}
(* A merge while a lyrics call of the guest runs.                            *)
MergeLoads == {Load(1, 2, {s1}, 2, {"grant", "lyrics"})}
=============================================================================
