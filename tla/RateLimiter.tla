----------------------------- MODULE RateLimiter -----------------------------
(***************************************************************************)
(* RateLimitMiddleware: one token bucket per bearer token.  dispatch holds *)
(* the lock while it looks up or makes the bucket and consumes, so a       *)
(* request is one step; requests without a token and the skipped paths     *)
(* pass and touch nothing.                                                 *)
(*                                                                         *)
(* Numbers are exact (floats in the code).  The clock ticks TicksPerSecond *)
(* times a second; a bucket counts in units, of which per_minute come with *)
(* every tick and a request costs Cost.                                    *)
(***************************************************************************)
EXTENDS Integers

CONSTANTS
  Key,             \* sha256 of the bearer tokens
  PerMinute,       \* settings.rate_limit_per_minute
  Burst,           \* settings.rate_limit_burst
  TicksPerSecond,  \* resolution of the clock
  MaxNow           \* bound: when observation ends

ASSUME RateAssumption ==
  /\ PerMinute \in Nat \ {0}   \* main.py installs no limiter for the rate 0
  /\ TicksPerSecond \in Nat \ {0}
  /\ Burst \in Nat /\ MaxNow \in Nat

Cost == 60 * TicksPerSecond
gain(ticks) == ticks * PerMinute
capacity == (IF Burst > 1 THEN Burst ELSE 1) * Cost

VARIABLES
  now,        \* time.monotonic()
  buckets,    \* tokens and last_refill; a bucket not made yet is a full one
  admitted,   \* history: requests let through since a moment
  promise     \* history: when a refused token may come again, -1: no refusal

vars == <<now, buckets, admitted, promise>>
Moment == 0 .. MaxNow

Init ==
  /\ now = 0
  /\ buckets = [k \in Key |-> [tokens |-> capacity, last_refill |-> 0]]
  /\ admitted = [k \in Key |-> [s \in Moment |-> 0]]
  /\ promise = [k \in Key |-> -1]

-----------------------------------------------------------------------------
(* Mutant: the bucket fills beyond its capacity.                            *)
overfilled(k) == buckets[k].tokens + gain(now - buckets[k].last_refill)

(* consume: first the tokens of the time gone by, up to the capacity.       *)
refilled(k) ==
  LET grown == buckets[k].tokens + gain(now - buckets[k].last_refill)
  IN IF grown < capacity THEN grown ELSE capacity

(* Mutant: the last tokens are given to whoever comes.                      *)
admitAny(k) ==
  /\ buckets' = [buckets EXCEPT ![k] = [tokens |-> refilled(k) - Cost, last_refill |-> now]]
  /\ admitted' = [admitted EXCEPT ![k] = [s \in Moment |-> IF s <= now THEN @[s] + 1 ELSE @[s]]]
  /\ promise' = [promise EXCEPT ![k] = -1]
  /\ UNCHANGED now

admit(k) ==
  /\ refilled(k) >= Cost
  /\ buckets' = [buckets EXCEPT ![k] = [tokens |-> refilled(k) - Cost, last_refill |-> now]]
  /\ admitted' = [admitted EXCEPT ![k] = [s \in Moment |-> IF s <= now THEN @[s] + 1 ELSE @[s]]]
  /\ promise' = [promise EXCEPT ![k] = -1]
  /\ UNCHANGED now

(* Mutant: Retry-After is rounded down.                                     *)
retryRoundedDown(deficit) == deficit \div gain(TicksPerSecond)

(* Retry-After in whole seconds, rounded up.                                *)
retry_after(deficit) == (deficit + gain(TicksPerSecond) - 1) \div gain(TicksPerSecond)

(* 429: what was refilled is kept; the first refusal's promise stands.      *)
refuse(k) ==
  LET at == now + TicksPerSecond * retry_after(Cost - refilled(k)) IN
  /\ refilled(k) < Cost
  /\ buckets' = [buckets EXCEPT ![k] = [tokens |-> refilled(k), last_refill |-> now]]
  /\ promise' = [promise EXCEPT ![k] = IF @ = -1 THEN at ELSE @]
  /\ UNCHANGED <<now, admitted>>

tick ==
  /\ now < MaxNow
  /\ now' = now + 1
  /\ UNCHANGED <<buckets, admitted, promise>>

Next == tick \/ \E k \in Key : admit(k) \/ refuse(k)

Spec == Init /\ [][Next]_vars

-----------------------------------------------------------------------------
(* A bucket never holds less than nothing nor more than its capacity.       *)
LimiterTypeOK ==
  /\ now \in Moment
  /\ buckets \in [Key -> [tokens : 0 .. capacity, last_refill : 0 .. now]]
  /\ admitted \in [Key -> [Moment -> Nat]]
  /\ promise \in [Key -> Nat \cup {-1}]

(* From any moment on a token gets its burst and what was refilled since,   *)
(* however its requests are spread.                                         *)
BurstBound ==
  \A k \in Key, s \in Moment :
    s <= now => admitted[k][s] * Cost <= capacity + gain(now - s)

(* Retry-After is honest: a refused token that comes back then, or later,   *)
(* is let through, however often it was refused in between.                 *)
PromiseKept ==
  \A k \in Key : promise[k] # -1 /\ now >= promise[k] => refilled(k) >= Cost
=============================================================================
