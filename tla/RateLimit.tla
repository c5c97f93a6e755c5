------------------------------ MODULE RateLimit ------------------------------
(***************************************************************************)
(* internal/ratelimit/ratelimit.go: one token bucket per key, refilled     *)
(* lazily.  Tokens are counted in shares: a request costs Cost shares and  *)
(* a tick of the clock brings Rate shares, so that Rate / Cost is the      *)
(* sustained rate (the code's floats, kept exact).                         *)
(***************************************************************************)
EXTENDS Integers, Sequences, FiniteSets

CONSTANTS Keys, Rate, Cost, Burst,
          MaxAge,    \* the age Cleanup is called with
          MaxTime,   \* bound on the clock
          NoBucket

RateAssumption ==
    /\ Rate \in Nat /\ Cost \in Nat \ {0} /\ Burst \in Nat
    /\ MaxAge \in Nat /\ MaxTime \in Nat
    /\ NoBucket \notin [tokens : 0..(Burst * Cost), lastCheck : 0..MaxTime]

\* A bucket as old as MaxAge is full again: forgetting it forgets nothing.
CleanupForgetsFull == Rate * (MaxAge + 1) >= Burst * Cost

VARIABLES buckets,   \* Limiter.buckets
          now,
          admitted   \* history: when requests of each key were let through

vars == <<buckets, now, admitted>>

Full == Burst * Cost
Bucket == [tokens : 0..Full, lastCheck : 0..MaxTime]
Least(m, n) == IF m < n THEN m ELSE n

-----------------------------------------------------------------------------
Init ==
    /\ buckets = [k \in Keys |-> NoBucket]
    /\ now = 0
    /\ admitted = [k \in Keys |-> << >>]

\* Tokens after the refill: a new bucket is full, an old one gains what its
\* age brings, capped at the burst.
Refilled(k) ==
    IF buckets[k] = NoBucket THEN Full
    ELSE Least(Full, buckets[k].tokens + Rate * (now - buckets[k].lastCheck))

AllowStaleClock(k) ==
    LET t == Refilled(k)
        ok == t >= Cost
    IN /\ buckets' = [buckets EXCEPT ![k] =
              [tokens |-> IF ok THEN t - Cost ELSE t,
               lastCheck |-> IF @ = NoBucket THEN now ELSE @.lastCheck]]
       /\ admitted' = [admitted EXCEPT ![k] = IF ok THEN Append(@, now) ELSE @]
       /\ UNCHANGED now

Allow(k) ==
    LET t == Refilled(k)
        ok == t >= Cost
    IN /\ buckets' = [buckets EXCEPT ![k] =
              [tokens |-> IF ok THEN t - Cost ELSE t, lastCheck |-> now]]
       /\ admitted' = [admitted EXCEPT ![k] = IF ok THEN Append(@, now) ELSE @]
       /\ UNCHANGED now

\* Buckets not used for more than MaxAge are dropped.
Cleanup ==
    /\ buckets' = [k \in Keys |->
          IF buckets[k] # NoBucket /\ buckets[k].lastCheck < now - MaxAge
          THEN NoBucket ELSE buckets[k]]
    /\ UNCHANGED <<now, admitted>>

Tick == now < MaxTime /\ now' = now + 1 /\ UNCHANGED <<buckets, admitted>>

Next == (\E k \in Keys : Allow(k)) \/ Cleanup \/ Tick

Spec == Init /\ [][Next]_vars

-----------------------------------------------------------------------------
TypeOK ==
    /\ buckets \in [Keys -> Bucket \cup {NoBucket}]
    /\ now \in 0..MaxTime
    /\ admitted \in [Keys -> Seq(0..MaxTime)]

\* Requests of k let through at time s or later.
Since(k, s) == Cardinality({i \in DOMAIN admitted[k] : admitted[k][i] >= s})

\* However requests, pauses and clean-ups interleave, no stretch of time sees
\* more requests of a key than a full bucket and the refill of that stretch.
RateBound ==
    \A k \in Keys : \A s \in 0..now :
        Since(k, s) * Cost <= Full + Rate * (now - s)

\* A request is refused only if letting it through would have broken that
\* bound for some stretch of time (s = 0 stands for the time before too).
RefusedOnlyAtBound ==
    [][\A k \in Keys :
          buckets'[k] # buckets[k] /\ buckets'[k] # NoBucket /\ admitted'[k] = admitted[k] =>
             \E s \in 0..now : (Since(k, s) + 1) * Cost > Full + Rate * (now - s)]_vars
=============================================================================
