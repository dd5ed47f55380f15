-------------------------- MODULE RateLimiterProofs --------------------------
(***************************************************************************)
(* The rate limiter for every rate, burst and clock: what a token gets in  *)
(* any stretch of time, and that Retry-After is honest.                    *)
(***************************************************************************)
EXTENDS RateLimiter, TLAPS

-----------------------------------------------------------------------------
(* Arithmetic: the product is kept behind gain, so that what remains is     *)
(* linear.                                                                  *)
LEMMA GainFacts == gain(0) = 0 /\ \A t \in Nat : gain(t) \in Nat
BY RateAssumption, SMT DEF gain

LEMMA GainStep ==
  ASSUME NEW t \in Int
  PROVE  gain(t) \in Int /\ gain(t + 1) = gain(t) + PerMinute
BY RateAssumption, SMT DEF gain

LEMMA GainSum ==
  ASSUME NEW s \in Int, NEW t \in Int
  PROVE  gain(s + t) = gain(s) + gain(t)
BY RateAssumption, SMT DEF gain

LEMMA CostFacts == Cost \in Nat /\ Cost >= 60 /\ capacity \in Nat /\ capacity >= Cost
<1>1. Cost \in Nat /\ Cost >= 60
  BY RateAssumption, SMT DEF Cost
<1>2. CASE Burst > 1
  <2>1. capacity = Burst * Cost
    BY <1>2 DEF capacity
  <2>2. Burst * Cost >= Cost /\ Burst * Cost \in Nat
    BY <1>1, <1>2, RateAssumption, SMT
  <2> QED
    BY <1>1, <2>1, <2>2
<1>3. CASE ~ (Burst > 1)
  BY <1>1, <1>3, RateAssumption, SMT DEF capacity
<1> QED
  BY <1>2, <1>3

(* Rounding up: the seconds of Retry-After refill at least the deficit.     *)
LEMMA RetryRefills ==
  ASSUME NEW d \in Nat
  PROVE  /\ retry_after(d) \in Nat
         /\ gain(TicksPerSecond * retry_after(d)) >= d
<1> DEFINE m == gain(TicksPerSecond)
           q == (d + m - 1) \div m
<1>1. m \in Nat /\ m > 0
  BY RateAssumption, SMT DEF gain
<1>2. q \in Nat /\ m * q >= d
  <2>1. d + m - 1 \in Nat
    BY <1>1
  <2> HIDE DEF m
  <2>2. \A n \in Nat : n \div m \in Nat /\ n < m * (n \div m) + m
    BY <1>1, SMT
  <2>3. q \in Nat /\ d + m - 1 < m * q + m
    BY <2>1, <2>2
  <2>4. m * q \in Nat
    BY <2>3, <1>1, SMT
  <2> QED
    BY <2>3, <2>4, <1>1
<1>3. gain(TicksPerSecond * q) = m * q
  BY <1>2, RateAssumption, SMT DEF gain
<1> QED
  BY <1>2, <1>3 DEF retry_after

LEMMA OneMore == \A n \in Nat : n * Cost \in Nat /\ (n + 1) * Cost = n * Cost + Cost
BY CostFacts, SMT

-----------------------------------------------------------------------------
(* A bucket never holds less than nothing nor more than its capacity.       *)
LEMMA RefilledRange ==
  ASSUME LimiterTypeOK, NEW k \in Key
  PROVE  refilled(k) \in 0 .. capacity
<1>1. /\ buckets[k].tokens \in 0 .. capacity
      /\ now - buckets[k].last_refill \in Nat
  BY DEF LimiterTypeOK, Moment
<1>2. gain(now - buckets[k].last_refill) \in Nat
  BY <1>1, GainFacts
<1> QED
  BY <1>1, <1>2, CostFacts DEF refilled

LEMMA TypeInit == Init => LimiterTypeOK
BY CostFacts, RateAssumption DEF Init, LimiterTypeOK, Moment

LEMMA TypeStep == LimiterTypeOK /\ [Next]_vars => LimiterTypeOK'
<1> SUFFICES ASSUME LimiterTypeOK, [Next]_vars PROVE LimiterTypeOK'
  OBVIOUS
<1>1. CASE tick
  BY <1>1, RateAssumption DEF tick, LimiterTypeOK, Moment
<1>2. ASSUME NEW k \in Key, admit(k) PROVE LimiterTypeOK'
  <2>1. refilled(k) - Cost \in 0 .. capacity
    BY <1>2, RefilledRange, CostFacts DEF admit
  <2>2. admitted' \in [Key -> [Moment -> Nat]]
    BY <1>2 DEF admit, LimiterTypeOK
  <2>3. buckets' \in [Key -> [tokens : 0 .. capacity, last_refill : 0 .. now]]
    BY <1>2, <2>1 DEF admit, LimiterTypeOK, Moment
  <2> QED
    BY <1>2, <2>2, <2>3 DEF admit, LimiterTypeOK
<1>3. ASSUME NEW k \in Key, refuse(k) PROVE LimiterTypeOK'
  <2>1. refilled(k) \in 0 .. capacity
    BY RefilledRange
  <2>2. Cost - refilled(k) \in Nat
    BY <1>3, <2>1, CostFacts DEF refuse
  <2>3. now + TicksPerSecond * retry_after(Cost - refilled(k)) \in Nat
    <3>1. retry_after(Cost - refilled(k)) \in Nat
      BY <2>2, RetryRefills
    <3>2. \A a, b \in Nat : a * b \in Nat
      OBVIOUS
    <3>3. TicksPerSecond * retry_after(Cost - refilled(k)) \in Nat
      BY <3>1, <3>2, RateAssumption
    <3>4. now \in Nat /\ \A a, b \in Nat : a + b \in Nat
      BY RateAssumption DEF LimiterTypeOK, Moment
    <3> QED
      BY <3>3, <3>4, Zenon
  <2> QED
    BY <1>3, <2>1, <2>3 DEF refuse, LimiterTypeOK, Moment
<1>4. CASE UNCHANGED vars
  BY <1>4 DEF vars, LimiterTypeOK
<1> QED
  BY <1>1, <1>2, <1>3, <1>4 DEF Next

(* A bucket never holds less than nothing nor more than its capacity.       *)
THEOREM LimiterTypeCorrect == Spec => []LimiterTypeOK
BY TypeInit, TypeStep, PTL DEF Spec

-----------------------------------------------------------------------------
(* What a step does to the tokens a request would find.                     *)
LEMMA TickRefills ==
  ASSUME LimiterTypeOK, tick, NEW k \in Key
  PROVE  /\ refilled(k)' \in 0 .. capacity
         /\ refilled(k)' <= refilled(k) + PerMinute
         /\ refilled(k)' = refilled(k) + PerMinute \/ refilled(k)' = capacity
<1> DEFINE age == now - buckets[k].last_refill
<1>1. age \in Nat /\ buckets[k].tokens \in 0 .. capacity
  BY DEF LimiterTypeOK, Moment
<1>2. gain(age + 1) = gain(age) + PerMinute /\ gain(age) \in Nat
  BY <1>1, GainFacts, GainStep
<1>3. refilled(k)' = IF buckets[k].tokens + gain(age + 1) < capacity
                       THEN buckets[k].tokens + gain(age + 1) ELSE capacity
  <2>1. buckets' = buckets /\ now' - buckets[k].last_refill = age + 1
    BY <1>1 DEF tick, LimiterTypeOK, Moment
  <2> QED
    BY <2>1 DEF refilled, gain
<1> QED
  BY <1>1, <1>2, <1>3, CostFacts, RateAssumption DEF refilled

LEMMA FreshBucket ==
  ASSUME NEW k \in Key, now' \in Nat, NEW n \in 0 .. capacity,
         buckets'[k] = [tokens |-> n, last_refill |-> now']
  PROVE  refilled(k)' = n
<1>1. buckets'[k].last_refill = now' /\ buckets'[k].tokens = n
  OBVIOUS
<1>2. now' - buckets'[k].last_refill = 0
  <2>1. \A i \in Nat : i - i = 0
    OBVIOUS
  <2> QED
    BY <1>1, <2>1, Zenon
<1>3. gain(now - buckets[k].last_refill)' = 0
  BY <1>2, GainFacts DEF gain
<1>4. refilled(k)' = IF n + 0 < capacity THEN n + 0 ELSE capacity
  BY <1>1, <1>3 DEF refilled
<1> QED
  BY <1>4, CostFacts

LEMMA OtherBucket ==
  ASSUME NEW k \in Key, now' = now, buckets'[k] = buckets[k]
  PROVE  refilled(k)' = refilled(k)
BY DEF refilled, gain

-----------------------------------------------------------------------------
(* The burst bound, strengthened: what a token was given since a moment and *)
(* what it could still be given now stay within the bound.                  *)
Room ==
  \A k \in Key, s \in Moment :
    IF s <= now THEN admitted[k][s] * Cost + refilled(k) <= capacity + gain(now - s)
    ELSE admitted[k][s] = 0

LEMMA RoomInit == Init => Room
<1> SUFFICES ASSUME Init, NEW k \in Key, NEW s \in Moment
             PROVE  IF s <= now THEN admitted[k][s] * Cost + refilled(k) <= capacity + gain(now - s)
                    ELSE admitted[k][s] = 0
  BY DEF Room
<1>1. LimiterTypeOK
  BY TypeInit
<1>2. refilled(k) \in 0 .. capacity
  BY <1>1, RefilledRange
<1>3. admitted[k][s] = 0 /\ now = 0
  BY DEF Init
<1>4. CASE s <= now
  <2>1. now - s \in Nat
    BY <1>3, <1>4 DEF Moment
  <2>2. gain(now - s) \in Nat
    BY <2>1, GainFacts
  <2>3. admitted[k][s] * Cost = 0
    BY <1>3, CostFacts
  <2> QED
    BY <1>2, <1>4, <2>2, <2>3, CostFacts
<1> QED
  BY <1>3, <1>4

(* Time passes: the moment that begins starts from a bucket at most full.   *)
LEMMA RoomTick == ASSUME LimiterTypeOK, Room, tick PROVE Room'
<1> SUFFICES ASSUME NEW k \in Key, NEW s \in Moment
             PROVE  IF s <= now' THEN admitted[k][s] * Cost + refilled(k)' <= capacity + gain(now' - s)
                    ELSE admitted[k][s] = 0
  BY DEF Room, tick, gain, capacity, Cost
<1>1. now \in Nat /\ s \in Nat /\ now' = now + 1 /\ now' \in Moment
  BY RateAssumption DEF LimiterTypeOK, Moment, tick
<1>2. /\ refilled(k) \in 0 .. capacity
      /\ refilled(k)' \in 0 .. capacity
      /\ refilled(k)' <= refilled(k) + PerMinute
  BY RefilledRange, TickRefills
<1>3. admitted[k][s] * Cost \in Nat
  BY OneMore DEF LimiterTypeOK
<1>4. CASE s <= now
  <2>1. gain(now - s) \in Int /\ gain(now - s + 1) = gain(now - s) + PerMinute
    BY <1>1, GainStep
  <2>2. now' - s = now - s + 1
    BY <1>1
  <2>3. admitted[k][s] * Cost + refilled(k) <= capacity + gain(now - s)
    BY <1>4 DEF Room
  <2>4. admitted[k][s] * Cost + refilled(k)' <= capacity + gain(now' - s)
    BY <1>2, <1>3, <2>1, <2>2, <2>3, CostFacts, RateAssumption
  <2> QED
    BY <1>1, <1>4, <2>4
<1>5. CASE s > now
  <2>1. admitted[k][s] = 0
    BY <1>1, <1>5 DEF Room
  <2>2. CASE s = now'
    <3>1. gain(now' - s) = 0
      BY <1>1, <2>2, GainFacts
    <3>2. admitted[k][s] * Cost = 0
      BY <2>1, CostFacts
    <3> QED
      BY <1>1, <1>2, <2>2, <3>1, <3>2, CostFacts
  <2> QED
    BY <1>1, <1>5, <2>1, <2>2
<1> QED
  BY <1>1, <1>4, <1>5

(* A request that is let through takes a request's cost from every stretch  *)
(* of time that reaches to now; one that is refused takes nothing.          *)
LEMMA RoomAdmit == ASSUME LimiterTypeOK, Room, NEW k \in Key, admit(k) PROVE Room'
<1> SUFFICES ASSUME NEW l \in Key, NEW s \in Moment
             PROVE  IF s <= now THEN admitted'[l][s] * Cost + refilled(l)' <= capacity + gain(now - s)
                    ELSE admitted'[l][s] = 0
  BY DEF Room, admit, gain, capacity, Cost
<1>1. now' = now /\ now \in Nat
  BY RateAssumption DEF admit, LimiterTypeOK, Moment
<1>2. CASE l = k
  <2>1. refilled(k)' = refilled(k) - Cost
    <3>1. refilled(k) - Cost \in 0 .. capacity
      BY RefilledRange, CostFacts DEF admit
    <3>2. buckets'[k] = [tokens |-> refilled(k) - Cost, last_refill |-> now']
      BY <1>1 DEF admit, LimiterTypeOK
    <3> QED
      BY <1>1, <3>1, <3>2, FreshBucket
  <2>2. admitted'[k][s] = IF s <= now THEN admitted[k][s] + 1 ELSE admitted[k][s]
    BY DEF admit, LimiterTypeOK
  <2>3. CASE s <= now
    <3>1. /\ admitted[k][s] * Cost \in Nat
          /\ (admitted[k][s] + 1) * Cost = admitted[k][s] * Cost + Cost
      BY OneMore DEF LimiterTypeOK
    <3>2. admitted[k][s] * Cost + refilled(k) <= capacity + gain(now - s)
      BY <2>3 DEF Room
    <3>3. (admitted[k][s] + 1) * Cost + (refilled(k) - Cost) = admitted[k][s] * Cost + refilled(k)
      BY <3>1, RefilledRange, CostFacts
    <3> QED
      BY <1>2, <2>1, <2>2, <2>3, <3>2, <3>3
  <2>4. CASE ~ (s <= now)
    BY <1>2, <2>2, <2>4 DEF Room
  <2> QED
    BY <2>3, <2>4
<1>3. CASE l # k
  <2>1. buckets'[l] = buckets[l] /\ admitted'[l] = admitted[l]
    BY <1>3 DEF admit, LimiterTypeOK
  <2>2. refilled(l)' = refilled(l)
    BY <1>1, <2>1, OtherBucket
  <2> QED
    BY <2>1, <2>2 DEF Room
<1> QED
  BY <1>2, <1>3

LEMMA RoomRefuse == ASSUME LimiterTypeOK, Room, NEW k \in Key, refuse(k) PROVE Room'
<1> SUFFICES ASSUME NEW l \in Key, NEW s \in Moment
             PROVE  IF s <= now THEN admitted[l][s] * Cost + refilled(l)' <= capacity + gain(now - s)
                    ELSE admitted[l][s] = 0
  BY DEF Room, refuse, gain, capacity, Cost
<1>1. now' = now /\ now \in Nat
  BY RateAssumption DEF refuse, LimiterTypeOK, Moment
<1>2. refilled(l)' = refilled(l)
  <2>1. CASE l = k
    <3>1. buckets'[k] = [tokens |-> refilled(k), last_refill |-> now']
      BY <1>1 DEF refuse, LimiterTypeOK
    <3> QED
      BY <1>1, <2>1, <3>1, FreshBucket, RefilledRange
  <2>2. CASE l # k
    <3>1. buckets'[l] = buckets[l]
      BY <2>2 DEF refuse, LimiterTypeOK
    <3> QED
      BY <1>1, <3>1, OtherBucket
  <2> QED
    BY <2>1, <2>2
<1> QED
  BY <1>2 DEF Room

LEMMA RoomStep == LimiterTypeOK /\ Room /\ [Next]_vars => Room'
<1>1. ASSUME UNCHANGED vars, Room PROVE Room'
  BY <1>1 DEF vars, Room, refilled, gain, capacity, Cost
<1> QED
  BY <1>1, RoomTick, RoomAdmit, RoomRefuse DEF Next

LEMMA RoomBounds == LimiterTypeOK /\ Room => BurstBound
<1> SUFFICES ASSUME LimiterTypeOK, Room, NEW k \in Key, NEW s \in Moment, s <= now
             PROVE  admitted[k][s] * Cost <= capacity + gain(now - s)
  BY DEF BurstBound
<1>1. admitted[k][s] * Cost + refilled(k) <= capacity + gain(now - s)
  BY DEF Room
<1>2. admitted[k][s] * Cost \in Nat
  BY OneMore DEF LimiterTypeOK
<1>3. now - s \in Nat
  BY RateAssumption DEF LimiterTypeOK, Moment
<1> QED
  BY <1>1, <1>2, <1>3, RefilledRange, GainFacts, CostFacts

(* From any moment on a token gets its burst and what was refilled since,   *)
(* for every rate and burst and however its requests are spread.            *)
THEOREM BurstBounded == Spec => []BurstBound
BY TypeInit, TypeStep, RoomInit, RoomStep, RoomBounds, PTL DEF Spec

-----------------------------------------------------------------------------
(* The promise, strengthened: what is in the bucket and what comes until    *)
(* the promised moment pay for a request.                                   *)
Paid(k) == refilled(k) >= Cost \/ refilled(k) + gain(promise[k] - now) >= Cost
Promised == \A k \in Key : promise[k] # -1 => Paid(k)

LEMMA NoGainBefore == ASSUME NEW t \in Int, t <= 0 PROVE gain(t) \in Int /\ gain(t) <= 0
BY RateAssumption, SMT DEF gain

LEMMA PromisedTick == ASSUME LimiterTypeOK, Promised, tick PROVE Promised'
<1> SUFFICES ASSUME NEW k \in Key, promise[k] # -1
             PROVE  refilled(k)' >= Cost \/ refilled(k)' + gain(promise[k] - now') >= Cost
  BY DEF Promised, Paid, tick, gain, Cost
<1>1. promise[k] - now \in Int /\ promise[k] - now' \in Int
      /\ promise[k] - now = (promise[k] - now') + 1
  BY RateAssumption DEF LimiterTypeOK, Moment, tick
<1>2. /\ gain(promise[k] - now') \in Int
      /\ gain(promise[k] - now) = gain(promise[k] - now') + PerMinute
  BY <1>1, GainStep
<1>3. /\ refilled(k) \in 0 .. capacity
      /\ refilled(k)' = refilled(k) + PerMinute \/ refilled(k)' = capacity
  BY TickRefills, RefilledRange
<1>4. refilled(k) >= Cost \/ refilled(k) + gain(promise[k] - now) >= Cost
  BY DEF Promised, Paid
<1> QED
  BY <1>2, <1>3, <1>4, CostFacts, RateAssumption

LEMMA PromisedAdmit == ASSUME LimiterTypeOK, Promised, NEW k \in Key, admit(k) PROVE Promised'
<1> SUFFICES ASSUME NEW l \in Key, promise'[l] # -1
             PROVE  refilled(l)' >= Cost \/ refilled(l)' + gain(promise'[l] - now) >= Cost
  BY DEF Promised, Paid, admit, gain, Cost
<1>1. l # k /\ promise'[l] = promise[l] /\ buckets'[l] = buckets[l] /\ now' = now
  BY DEF admit, LimiterTypeOK
<1>2. refilled(l)' = refilled(l)
  BY <1>1, OtherBucket
<1> QED
  BY <1>1, <1>2 DEF Promised, Paid

LEMMA PromisedRefuse == ASSUME LimiterTypeOK, Promised, NEW k \in Key, refuse(k) PROVE Promised'
<1> SUFFICES ASSUME NEW l \in Key, promise'[l] # -1
             PROVE  refilled(l)' >= Cost \/ refilled(l)' + gain(promise'[l] - now) >= Cost
  BY DEF Promised, Paid, refuse, gain, Cost
<1>1. now' = now /\ now \in Nat
  BY RateAssumption DEF refuse, LimiterTypeOK, Moment
<1>2. CASE l # k
  <2>1. promise'[l] = promise[l] /\ buckets'[l] = buckets[l]
    BY <1>2 DEF refuse, LimiterTypeOK
  <2>2. refilled(l)' = refilled(l)
    BY <1>1, <2>1, OtherBucket
  <2> QED
    BY <2>1, <2>2 DEF Promised, Paid
<1>3. CASE l = k
  <2>1. refilled(k)' = refilled(k)
    <3>1. buckets'[k] = [tokens |-> refilled(k), last_refill |-> now']
      BY <1>1 DEF refuse, LimiterTypeOK
    <3> QED
      BY <1>1, <3>1, FreshBucket, RefilledRange
  <2>2. CASE promise[k] # -1
    <3>1. promise'[k] = promise[k]
      BY <2>2 DEF refuse, LimiterTypeOK
    <3> QED
      BY <1>3, <2>1, <2>2, <3>1 DEF Promised, Paid
  <2>3. CASE promise[k] = -1
    <3> DEFINE deficit == Cost - refilled(k)
               wait == TicksPerSecond * retry_after(deficit)
    <3>1. deficit \in Nat /\ refilled(k) \in Nat
      BY RefilledRange, CostFacts DEF refuse
    <3>2. promise'[k] = now + wait
      BY <2>3 DEF refuse, LimiterTypeOK
    <3> HIDE DEF deficit
    <3>3. wait \in Nat /\ gain(wait) >= deficit
      <4>1. retry_after(deficit) \in Nat /\ gain(wait) >= deficit
        BY <3>1, RetryRefills
      <4>2. \A a, b \in Nat : a * b \in Nat
        OBVIOUS
      <4> QED
        BY <4>1, <4>2, RateAssumption
    <3> HIDE DEF wait
    <3>4. promise'[k] - now = wait /\ gain(wait) \in Nat
      BY <1>1, <3>2, <3>3, GainFacts
    <3>5. refilled(k) + gain(wait) >= Cost
      BY <3>1, <3>3, <3>4, CostFacts DEF deficit
    <3> QED
      BY <1>3, <2>1, <3>4, <3>5
  <2> QED
    BY <2>2, <2>3
<1> QED
  BY <1>2, <1>3

LEMMA PromisedStep == LimiterTypeOK /\ Promised /\ [Next]_vars => Promised'
<1>1. ASSUME UNCHANGED vars, Promised PROVE Promised'
  BY <1>1 DEF vars, Promised, Paid, refilled, gain, capacity, Cost
<1> QED
  BY <1>1, PromisedTick, PromisedAdmit, PromisedRefuse DEF Next

LEMMA PromisedKept == LimiterTypeOK /\ Promised => PromiseKept
<1> SUFFICES ASSUME LimiterTypeOK, Promised, NEW k \in Key, promise[k] # -1, now >= promise[k]
             PROVE  refilled(k) >= Cost
  BY DEF PromiseKept
<1>1. promise[k] - now \in Int /\ promise[k] - now <= 0
  BY RateAssumption DEF LimiterTypeOK, Moment
<1>2. gain(promise[k] - now) \in Int /\ gain(promise[k] - now) <= 0
  BY <1>1, NoGainBefore
<1>3. refilled(k) >= Cost \/ refilled(k) + gain(promise[k] - now) >= Cost
  BY DEF Promised, Paid
<1> QED
  BY <1>2, <1>3, RefilledRange, CostFacts

(* Retry-After is honest for every rate and burst: a refused token that     *)
(* comes back then, or later, is let through.                               *)
THEOREM RetryAfterHonest == Spec => []PromiseKept
<1>1. Init => Promised
  BY DEF Init, Promised
<1> QED
  BY <1>1, TypeInit, TypeStep, PromisedStep, PromisedKept, PTL DEF Spec
=============================================================================
