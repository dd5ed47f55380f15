---------------------------- MODULE MCGeneration ----------------------------
(* One user; the sets of calls, kinds, outcomes and deployments are in the   *)
(* configurations.                                                           *)
EXTENDS Generation, TLC

CONSTANTS u1, k1, c1

MCOwnerOf == [j \in Job |-> u1]
NoClientKey == [j \in Job |-> NoKey]
(* Every call but one has the same key.                                      *)
SharedClientKey ==
  LET other == CHOOSE j \in Job : TRUE IN [j \in Job |-> IF j = other THEN NoKey ELSE c1]

PollerOnly == {{"poller"}}
OneDelivery == {{"webhook"}, {"poller"}}
BothDeliveries == {{"webhook", "poller"}}
=============================================================================
