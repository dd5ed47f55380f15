------------------------------ MODULE GrantOnce ------------------------------
(***************************************************************************)
(* What every billing channel promises: a thing that was paid for gives    *)
(* its coins to one user, once and whole, and never takes them back.       *)
(***************************************************************************)
EXTENDS Integers

CONSTANTS
  Paid,      \* things that were paid for
  Account,   \* who may receive coins
  Nobody,    \* not granted yet
  Worth      \* coins of a paid thing

VARIABLES
  grantee,   \* who got the coins of a paid thing
  granted    \* coins granted to an account so far

grantVars == <<grantee, granted>>

GrantInit ==
  /\ grantee = [p \in Paid |-> Nobody]
  /\ granted = [a \in Account |-> 0]

Grant(p, a) ==
  /\ grantee[p] = Nobody
  /\ grantee' = [grantee EXCEPT ![p] = a]
  /\ granted' = [granted EXCEPT ![a] = @ + Worth[p]]

GrantNext == \E p \in Paid, a \in Account : Grant(p, a)

GrantSpec == GrantInit /\ [][GrantNext]_grantVars
=============================================================================
