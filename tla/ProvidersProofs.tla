--------------------------- MODULE ProvidersProofs ---------------------------
(***************************************************************************)
(* Proofs about what stands before the model providers, as MCProviders     *)
(* puts it together: the circuit breaker, for every number of callers,     *)
(* every threshold and every timeout; the rate limiter, for every rate,    *)
(* cost and burst; the fallback chain, however long; and the vendors'      *)
(* forms, for every conversation and every answer.                         *)
(***************************************************************************)
EXTENDS MCProviders, FiniteSetTheorems, WellFoundedInduction, TLAPS

-----------------------------------------------------------------------------
\* What a breaker's counters may be, whatever its state.
Fits(br) ==
    /\ br.state = "closed" => br.failures < MaxFailures
    /\ br.state = "half-open" => br.successes < HalfOpenMax

\* Nobody refers to the breaker a caller is about to make, and it is closed:
\* making it closes no breaker.  A caller that is let through has a breaker.
IInv ==
    /\ TypeOK
    /\ \A c \in Callers : Fits(b[c])
    /\ registry = NoBreaker => \A c \in Callers : mine[c] = NoBreaker /\ b[c].state = "closed"
    /\ \A c \in Callers : pc[c] = "create" =>
          registry # c /\ b[c].state = "closed" /\ \A d \in Callers : mine[d] # c
    /\ \A c \in Callers : pc[c] \in {"ready", "calling"} => mine[c] \in Callers

\* Storing into the fields of a breaker.
LEMMA SetFailures ==
    ASSUME NEW br \in Breaker, NEW f \in 0..MaxFailures
    PROVE  LET after == [br EXCEPT !.failures = f]
           IN after \in Breaker /\ after.state = br.state /\ after.failures = f
              /\ after.successes = br.successes
BY DEF Breaker

LEMMA SetStreak ==
    ASSUME NEW br \in Breaker, NEW f \in 0..MaxFailures
    PROVE  LET after == [br EXCEPT !.failures = f, !.sinceFailure = 0]
           IN after \in Breaker /\ after.state = br.state /\ after.failures = f
              /\ after.successes = br.successes
<1>1. 0 \in 0..ResetTimeout
  BY BreakerAssumption
<1>2. QED
  BY <1>1 DEF Breaker

LEMMA SetSuccesses ==
    ASSUME NEW br \in Breaker, NEW n \in 0..HalfOpenMax
    PROVE  LET after == [br EXCEPT !.successes = n]
           IN after \in Breaker /\ after.state = br.state /\ after.successes = n
              /\ after.failures = br.failures
BY DEF Breaker

LEMMA SetState ==
    ASSUME NEW br \in Breaker, NEW s \in States
    PROVE  /\ Into(s, br) \in Breaker /\ Into(s, br).state = s
           /\ Into(s, br).failures = br.failures /\ Into(s, br).successes = br.successes
<1>1. 0 \in 0..ResetTimeout
  BY BreakerAssumption
<1>2. QED
  BY <1>1 DEF Breaker, Into

\* A new breaker has counters that fit, and so has one a result is recorded on.
LEMMA NewBreaker == New \in Breaker /\ New.state = "closed" /\ Fits(New)
BY BreakerAssumption DEF New, Breaker, States, Fits

LEMMA SucceededFits ==
    ASSUME NEW br \in Breaker, Fits(br)
    PROVE  /\ Succeeded(br) \in Breaker /\ Fits(Succeeded(br))
           /\ br.state # "closed" /\ Succeeded(br).state = "closed" =>
                 br.state = "half-open" /\ Succeeded(br).successes = HalfOpenMax
<1> DEFINE cleared == [br EXCEPT !.failures = 0]
           n == br.successes + 1
<1>1. cleared \in Breaker /\ cleared.state = br.state /\ cleared.successes = br.successes
      /\ cleared.failures = 0
  BY BreakerAssumption DEF Breaker
<1>2. CASE br.state # "half-open"
  <2>1. Succeeded(br) = cleared
    BY <1>2 DEF Succeeded
  <2>2. QED
    BY <1>1, <1>2, <2>1, BreakerAssumption DEF Fits
<1>3. CASE br.state = "half-open" /\ n >= HalfOpenMax
  <2>1. n = HalfOpenMax
    BY <1>3, BreakerAssumption DEF Fits, Breaker
  <2>2. Succeeded(br) = Into("closed", [cleared EXCEPT !.successes = n])
    BY <1>3 DEF Succeeded
  <2>3. n \in 0..HalfOpenMax
    BY <2>1, BreakerAssumption
  <2>4. /\ [cleared EXCEPT !.successes = n] \in Breaker
        /\ [cleared EXCEPT !.successes = n].failures = 0
        /\ [cleared EXCEPT !.successes = n].successes = n
    BY <1>1, <2>3, SetSuccesses
  <2>5. /\ Succeeded(br) \in Breaker /\ Succeeded(br).state = "closed"
        /\ Succeeded(br).failures = 0 /\ Succeeded(br).successes = n
    <3> DEFINE counted == [cleared EXCEPT !.successes = n]
    <3> HIDE DEF counted
    <3>1. /\ Into("closed", counted) \in Breaker /\ Into("closed", counted).state = "closed"
          /\ Into("closed", counted).failures = 0 /\ Into("closed", counted).successes = n
      BY <2>4, SetState DEF States, counted
    <3>2. QED
      BY <2>2, <3>1 DEF counted
  <2>6. QED
    BY <1>3, <2>1, <2>5, BreakerAssumption DEF Fits
<1>4. CASE br.state = "half-open" /\ ~(n >= HalfOpenMax)
  <2>1. Succeeded(br) = [cleared EXCEPT !.successes = n]
    BY <1>4 DEF Succeeded
  <2>2. n \in 0..HalfOpenMax /\ n < HalfOpenMax
    BY <1>4, BreakerAssumption DEF Breaker
  <2>3. /\ Succeeded(br) \in Breaker /\ Succeeded(br).state = "half-open"
        /\ Succeeded(br).successes = n
    BY <1>1, <1>4, <2>1, <2>2 DEF Breaker
  <2>4. QED
    BY <2>2, <2>3 DEF Fits
<1>5. QED
  BY <1>2, <1>3, <1>4

LEMMA FailedFits ==
    ASSUME NEW br \in Breaker, Fits(br)
    PROVE  /\ Failed(br) \in Breaker /\ Fits(Failed(br))
           /\ br.state # "closed" => Failed(br).state # "closed"
<1> DEFINE n == Least(br.failures + 1, MaxFailures)
           counted == [br EXCEPT !.failures = n, !.sinceFailure = 0]
<1>0. n \in 0..MaxFailures
  BY BreakerAssumption DEF Breaker, Least
<1>1. /\ counted \in Breaker /\ counted.state = br.state /\ counted.successes = br.successes
      /\ counted.failures = n
  BY <1>0, SetStreak
<1>2. CASE \/ br.state = "closed" /\ counted.failures >= MaxFailures
           \/ br.state = "half-open"
  <2>1. Failed(br) = Into("open", counted)
    BY <1>2 DEF Failed
  <2>2. Into("open", counted) \in Breaker /\ Into("open", counted).state = "open"
    BY <1>1, BreakerAssumption DEF Into, Breaker, States
  <2>3. QED
    BY <2>1, <2>2 DEF Fits
<1>3. CASE ~(\/ br.state = "closed" /\ counted.failures >= MaxFailures
             \/ br.state = "half-open")
  <2>1. Failed(br) = counted
    BY <1>3 DEF Failed
  <2>2. counted.failures \in Nat
    BY <1>0, <1>1, BreakerAssumption
  <2>3. QED
    BY <1>1, <1>3, <2>1, <2>2, BreakerAssumption DEF Fits
<1>4. QED
  BY <1>2, <1>3

\* A call changes the breaker it has to one whose counters fit.
LEMMA Changed ==
    ASSUME IInv, NEW c \in Callers, pc[c] \in {"ready", "calling"},
           NEW br \in Breaker, Fits(br),
           b' = [b EXCEPT ![mine[c]] = br],
           NEW l \in {"idle", "calling"}, pc' = [pc EXCEPT ![c] = l],
           UNCHANGED <<registry, mine, healthy>>
    PROVE  IInv'
<1>1. mine[c] \in Callers
  BY DEF IInv
<1>2. TypeOK'
  BY <1>1 DEF IInv, TypeOK
<1>3. \A d \in Callers : Fits(b'[d])
  BY <1>1 DEF IInv, TypeOK
<1>4. registry # NoBreaker
  BY <1>1, BreakerAssumption DEF IInv
<1>5. \A d \in Callers : pc'[d] = "create" => pc[d] = "create" /\ d # mine[c]
  BY <1>1 DEF IInv, TypeOK
<1>6. \A d \in Callers : pc'[d] = "create" =>
         registry' # d /\ b'[d].state = "closed" /\ \A e \in Callers : mine'[e] # d
  BY <1>1, <1>5 DEF IInv, TypeOK
<1>7. \A d \in Callers : pc'[d] \in {"ready", "calling"} => mine'[d] \in Callers
  BY <1>1 DEF IInv, TypeOK
<1>8. \A d \in Callers : Fits(b[d])'
  BY <1>3 DEF Fits
<1>9. QED
  BY <1>2, <1>4, <1>6, <1>7, <1>8 DEF IInv

LEMMA AllowIInv == ASSUME IInv, NEW c \in Callers, Allow(c) PROVE IInv'
<1> DEFINE old == b[mine[c]]
           probe == old.state = "open" /\ old.sinceFailure >= ResetTimeout
           new == IF probe THEN [Into("half-open", old) EXCEPT !.successes = 0] ELSE old
<1>1. mine[c] \in Callers /\ old \in Breaker /\ Fits(old)
  BY DEF IInv, TypeOK, Allow
<1>2. new \in Breaker /\ Fits(new)
  <2>1. CASE probe
    <3>1. Into("half-open", old) \in Breaker /\ Into("half-open", old).state = "half-open"
      BY <1>1, SetState DEF States
    <3>2. 0 \in 0..HalfOpenMax /\ 0 < HalfOpenMax
      BY BreakerAssumption
    <3>3. new \in Breaker /\ new.state = "half-open" /\ new.successes = 0
      BY <2>1, <3>1, <3>2, SetSuccesses
    <3>4. QED
      BY <3>2, <3>3 DEF Fits
  <2>2. CASE ~probe
    BY <1>1, <2>2
  <2>3. QED
    BY <2>1, <2>2
<1>3. b' = [b EXCEPT ![mine[c]] = new]
  BY <1>1 DEF Allow, IInv, TypeOK
<1>4. \E l \in {"idle", "calling"} : pc' = [pc EXCEPT ![c] = l]
  BY DEF Allow
<1>5. QED
  BY <1>2, <1>3, <1>4, Changed DEF Allow

LEMMA RecordIInv ==
    ASSUME IInv, NEW c \in Callers, RecordSuccess(c) \/ RecordFailure(c) PROVE IInv'
<1>1. mine[c] \in Callers /\ b[mine[c]] \in Breaker /\ Fits(b[mine[c]])
  BY DEF IInv, TypeOK, RecordSuccess, RecordFailure
<1>2. CASE RecordSuccess(c)
  <2>1. b' = [b EXCEPT ![mine[c]] = Succeeded(b[mine[c]])]
    BY <1>2 DEF RecordSuccess
  <2>2. QED
    BY <1>1, <1>2, <2>1, SucceededFits, Changed DEF RecordSuccess
<1>3. CASE RecordFailure(c)
  <2>1. b' = [b EXCEPT ![mine[c]] = Failed(b[mine[c]])]
    BY <1>3 DEF RecordFailure
  <2>2. QED
    BY <1>1, <1>3, <2>1, FailedFits, Changed DEF RecordFailure
<1>4. QED
  BY <1>2, <1>3

LEMMA GetIInv == ASSUME IInv, NEW c \in Callers, Get(c) PROVE IInv'
<1>1. TypeOK'
  BY DEF IInv, TypeOK, Get
<1>2. \A d \in Callers : Fits(b[d])'
  BY DEF IInv, Get, Fits
<1>3. registry' = NoBreaker => \A d \in Callers : mine'[d] = NoBreaker /\ b'[d].state = "closed"
  BY DEF IInv, TypeOK, Get
<1>4. \A d \in Callers : pc'[d] = "create" =>
         registry' # d /\ b'[d].state = "closed" /\ \A e \in Callers : mine'[e] # d
  <2>1. SUFFICES ASSUME NEW d \in Callers, pc'[d] = "create"
                 PROVE  registry' # d /\ b'[d].state = "closed" /\ \A e \in Callers : mine'[e] # d
    OBVIOUS
  <2>2. CASE d = c
    <3>1. registry = NoBreaker
      BY <2>1, <2>2 DEF Get, IInv, TypeOK
    <3>2. QED
      BY <3>1, BreakerAssumption DEF Get, IInv, TypeOK
  <2>3. CASE d # c
    <3>1. pc[d] = "create"
      BY <2>1, <2>3 DEF Get, IInv, TypeOK
    <3>2. QED
      BY <3>1 DEF Get, IInv, TypeOK
  <2>4. QED
    BY <2>2, <2>3
<1>5. \A d \in Callers : pc'[d] \in {"ready", "calling"} => mine'[d] \in Callers
  BY DEF IInv, TypeOK, Get
<1>6. QED
  BY <1>1, <1>2, <1>3, <1>4, <1>5 DEF IInv

LEMMA CreateIInv == ASSUME IInv, NEW c \in Callers, Create(c) PROVE IInv'
<1>1. TypeOK'
  BY NewBreaker DEF IInv, TypeOK, Create
<1>2. \A d \in Callers : Fits(b'[d])
  BY NewBreaker DEF IInv, TypeOK, Create
<1>3. registry' # NoBreaker
  BY BreakerAssumption DEF Create
<1>4. \A d \in Callers : pc'[d] = "create" =>
         registry' # d /\ b'[d].state = "closed" /\ \A e \in Callers : mine'[e] # d
  BY DEF IInv, TypeOK, Create
<1>5. \A d \in Callers : pc'[d] \in {"ready", "calling"} => mine'[d] \in Callers
  BY DEF IInv, TypeOK, Create
<1>6. \A d \in Callers : Fits(b[d])'
  BY <1>2 DEF Fits
<1>7. QED
  BY <1>1, <1>3, <1>4, <1>5, <1>6 DEF IInv

\* Reset and the clock keep every breaker's state, or close it.
LEMMA ResetIInv == ASSUME IInv, NEW c \in Callers, Reset(c) PROVE IInv'
<1> DEFINE new == [Into("closed", b[c]) EXCEPT !.failures = 0, !.successes = 0]
<1>1. /\ Into("closed", b[c]) \in Breaker /\ Into("closed", b[c]).state = "closed"
      /\ 0 \in 0..MaxFailures /\ 0 \in 0..HalfOpenMax /\ 0 < MaxFailures
  BY SetState, BreakerAssumption DEF IInv, TypeOK, States
<1>2. new \in Breaker /\ new.state = "closed" /\ Fits(new)
  BY <1>1 DEF Breaker, Fits
<1>3. TypeOK' /\ \A d \in Callers : Fits(b'[d]) /\ (b[d].state = "closed" => b'[d].state = "closed")
  BY <1>2 DEF IInv, TypeOK, Reset
<1>4. \A d \in Callers : Fits(b[d])'
  BY <1>3 DEF Fits
<1>5. QED
  BY <1>3, <1>4 DEF IInv, Reset

LEMMA TickIInv == ASSUME IInv, Tick PROVE IInv' /\ \A c \in Callers : b'[c].state = b[c].state
<1>1. \A c \in Callers :
         /\ b'[c] \in Breaker /\ b'[c].state = b[c].state
         /\ b'[c].failures = b[c].failures /\ b'[c].successes = b[c].successes
  <2>1. SUFFICES ASSUME NEW c \in Callers
                 PROVE  /\ b'[c] \in Breaker /\ b'[c].state = b[c].state
                        /\ b'[c].failures = b[c].failures /\ b'[c].successes = b[c].successes
    OBVIOUS
  <2>2. b[c] \in Breaker
    BY DEF IInv, TypeOK
  <2>3. /\ Least(b[c].sinceFailure + 1, ResetTimeout) \in 0..ResetTimeout
        /\ Least(b[c].sinceChange + 1, ResetTimeout) \in 0..ResetTimeout
    BY <2>2, BreakerAssumption DEF Breaker, Least
  <2>4. b'[c] = [b[c] EXCEPT !.sinceFailure = Least(b[c].sinceFailure + 1, ResetTimeout),
                            !.sinceChange = Least(b[c].sinceChange + 1, ResetTimeout)]
    BY DEF Tick
  <2>5. QED
    BY <2>2, <2>3, <2>4 DEF Breaker
<1>2. b' \in [Callers -> Breaker]
  BY <1>1 DEF Tick
<1>3. \A c \in Callers : Fits(b[c])'
  BY <1>1 DEF IInv, Fits
<1>4. TypeOK'
  BY <1>2 DEF IInv, TypeOK, Tick
<1>5. UNCHANGED <<registry, mine, pc>>
  BY DEF Tick
<1>6. IInv'
  BY <1>1, <1>3, <1>4, <1>5 DEF IInv
<1>7. QED
  BY <1>1, <1>6

LEMMA InitIInv == Init => IInv
BY NewBreaker DEF Init, IInv, TypeOK, Fits

LEMMA NextIInv == IInv /\ [Next]_vars => IInv'
<1>1. SUFFICES ASSUME IInv, [Next]_vars PROVE IInv'
  OBVIOUS
<1>2. ASSUME NEW c \in Callers, Call(c) PROVE IInv'
  BY <1>1, <1>2, GetIInv, CreateIInv, AllowIInv, RecordIInv DEF Call
<1>3. ASSUME NEW c \in Callers, Reset(c) PROVE IInv'
  BY <1>1, <1>3, ResetIInv
<1>4. CASE Tick
  BY <1>1, <1>4, TickIInv
<1>5. CASE Toggle
  BY <1>1, <1>5 DEF IInv, TypeOK, Fits, Toggle
<1>6. CASE UNCHANGED vars
  BY <1>1, <1>6 DEF IInv, TypeOK, Fits, vars
<1>7. QED
  BY <1>1, <1>2, <1>3, <1>4, <1>5, <1>6 DEF Next

LEMMA SpecIInv == Spec => []IInv
BY InitIInv, NextIInv, PTL DEF Spec

-----------------------------------------------------------------------------
\* Type correctness of the registry, its breakers and their callers.
THEOREM BreakerTypes == Spec => []TypeOK
<1>1. IInv => TypeOK
  BY DEF IInv
<1>2. QED
  BY <1>1, SpecIInv, PTL

\* Late results never leave a breaker closed with a full failure streak, or
\* half-open with enough successes.
THEOREM CountersFit == Spec => []CountersFitState
<1>1. IInv => CountersFitState
  BY DEF IInv, Fits, CountersFitState
<1>2. QED
  BY <1>1, SpecIInv, PTL

\* A breaker that is not closed is closed only by its HalfOpenMax-th success in
\* Half-Open, or by a Reset; a caller that makes a breaker closes none.
THEOREM ClosesOnlyThroughProbes == Spec => ClosesThroughProbes
<1> DEFINE Step ==
        \A c \in Callers :
          b[c].state # "closed" /\ b'[c].state = "closed" =>
             \/ b[c].state = "half-open" /\ b'[c].successes = HalfOpenMax
             \/ pc' = pc
<1>1. ASSUME IInv, Next PROVE Step
  <2>1. SUFFICES ASSUME NEW c \in Callers, b[c].state # "closed", b'[c].state = "closed", pc' # pc
                 PROVE  b[c].state = "half-open" /\ b'[c].successes = HalfOpenMax
    OBVIOUS
  <2>2. PICK d \in Callers : Call(d)
    BY <1>1, <2>1 DEF Next, Reset, Tick, Toggle
  <2>3. ~Get(d)
    BY <2>1 DEF Get
  <2>4. ~Create(d)
    BY <1>1, <2>1 DEF Create, IInv, TypeOK
  <2>5. ~Allow(d)
    <3>1. SUFFICES ASSUME Allow(d) PROVE FALSE
      OBVIOUS
    <3>2. mine[d] \in Callers /\ b[mine[d]] \in Breaker
      BY <1>1, <3>1 DEF Allow, IInv, TypeOK
    <3>3. mine[d] = c
      BY <1>1, <2>1, <3>1, <3>2 DEF Allow, IInv, TypeOK
    <3>4. b'[c] = b[c] \/ b'[c] = [Into("half-open", b[c]) EXCEPT !.successes = 0]
      BY <1>1, <3>1, <3>3 DEF Allow, IInv, TypeOK
    <3>5. [Into("half-open", b[c]) EXCEPT !.successes = 0].state = "half-open"
      BY <3>2, <3>3 DEF Into, Breaker
    <3>6. QED
      BY <2>1, <3>4, <3>5
  <2>6. ~RecordFailure(d)
    <3>1. SUFFICES ASSUME RecordFailure(d) PROVE FALSE
      OBVIOUS
    <3>2. mine[d] \in Callers /\ b[mine[d]] \in Breaker /\ Fits(b[mine[d]])
      BY <1>1, <3>1 DEF RecordFailure, IInv, TypeOK
    <3>3. mine[d] = c /\ b'[c] = Failed(b[c])
      BY <1>1, <2>1, <3>1, <3>2 DEF RecordFailure, IInv, TypeOK
    <3>4. QED
      BY <2>1, <3>2, <3>3, FailedFits
  <2>7. CASE RecordSuccess(d)
    <3>1. mine[d] \in Callers /\ b[mine[d]] \in Breaker /\ Fits(b[mine[d]])
      BY <1>1, <2>7 DEF RecordSuccess, IInv, TypeOK
    <3>2. mine[d] = c /\ b'[c] = Succeeded(b[c])
      BY <1>1, <2>1, <2>7, <3>1 DEF RecordSuccess, IInv, TypeOK
    <3>3. QED
      BY <2>1, <3>1, <3>2, SucceededFits
  <2>8. QED
    BY <2>2, <2>3, <2>4, <2>5, <2>6, <2>7 DEF Call
<1>2. IInv /\ [Next]_vars => [Step]_vars
  BY <1>1
<1>3. QED
  BY <1>2, SpecIInv, PTL DEF Spec, ClosesThroughProbes

-----------------------------------------------------------------------------
(* The rate limiter.  Tight says that its tokens are exact: with what has    *)
(* been admitted since any time s they fit the bound, and there is a time    *)
(* for which they use it up.                                                 *)

Tokens(k) == R!Refilled(k)
Times(k, s) == {i \in DOMAIN admitted[k] : admitted[k][i] >= s}
Allowance(s) == R!Full + Rate * (now - s)

\* A bucket was last looked at in the past.
Clocked(k) == buckets[k] # NoBucket => buckets[k].lastCheck <= now

TightFor(k) ==
    /\ Clocked(k)
    /\ \A i \in DOMAIN admitted[k] : admitted[k][i] <= now
    /\ \A s \in 0..now : R!Since(k, s) * Cost + Tokens(k) <= Allowance(s)
    /\ \E s \in 0..now : R!Since(k, s) * Cost + Tokens(k) >= Allowance(s)

LimiterInv == R!TypeOK /\ \A k \in Keys : TightFor(k)

LEMMA RateTypes ==
    Rate \in Nat /\ Cost \in Nat \ {0} /\ Burst \in Nat /\ MaxAge \in Nat /\ MaxTime \in Nat
    /\ R!Full \in Nat
<1>1. Rate \in Nat /\ Cost \in Nat \ {0} /\ Burst \in Nat /\ MaxAge \in Nat /\ MaxTime \in Nat
  BY LimiterAssumption DEF R!RateAssumption
<1>2. QED
  BY <1>1 DEF R!Full

LEMMA SameCardinality == ASSUME NEW S PROVE R!Cardinality(S) = Cardinality(S)
BY DEF R!Cardinality, Cardinality

\* What is counted is a number.
LEMMA SinceNat ==
    ASSUME R!TypeOK, NEW k \in Keys, NEW s
    PROVE  R!Since(k, s) \in Nat /\ IsFiniteSet(Times(k, s))
<1>1. admitted[k] \in Seq(0..MaxTime)
  BY DEF R!TypeOK
<1>2. IsFiniteSet(DOMAIN admitted[k])
  BY <1>1, FS_Interval
<1>3. Times(k, s) \subseteq DOMAIN admitted[k]
  BY DEF Times
<1>4. IsFiniteSet(Times(k, s)) /\ Cardinality(Times(k, s)) \in Nat
  BY <1>2, <1>3, FS_Subset, FS_CardinalityType
<1>5. R!Since(k, s) = Cardinality(Times(k, s))
  BY SameCardinality DEF R!Since, Times
<1>6. QED
  BY <1>4, <1>5

\* A request that is let through now counts once from every time up to now.
LEMMA OneMoreSince ==
    ASSUME R!TypeOK, NEW k \in Keys, NEW s \in 0..now, R!TypeOK',
           admitted'[k] = Append(admitted[k], now)
    PROVE  R!Since(k, s)' = R!Since(k, s) + 1
<1> DEFINE n == Len(admitted[k])
<1>1. admitted[k] \in Seq(0..MaxTime) /\ now \in Nat /\ n \in Nat
  BY RateTypes DEF R!TypeOK
<1>2. DOMAIN admitted'[k] = 1..(n + 1) /\ DOMAIN admitted[k] = 1..n
  BY <1>1
<1>3. \A i \in 1..n : admitted'[k][i] = admitted[k][i]
  BY <1>1
<1>4. admitted'[k][n + 1] = now
  BY <1>1
<1>5. Times(k, s)' = Times(k, s) \cup {n + 1}
  BY <1>1, <1>2, <1>3, <1>4 DEF Times
<1>6. n + 1 \notin Times(k, s)
  BY <1>1, <1>2 DEF Times
<1>7. Cardinality(Times(k, s) \cup {n + 1}) = Cardinality(Times(k, s)) + 1
  BY <1>6, SinceNat, FS_AddElement
<1>8. R!Since(k, s) = Cardinality(Times(k, s)) /\ R!Since(k, s)' = Cardinality(Times(k, s)')
  BY SameCardinality DEF R!Since, Times
<1>9. QED
  BY <1>5, <1>7, <1>8

\* Rate times a stretch of time.
LEMMA Stretch ==
    ASSUME NEW d \in Nat
    PROVE  Rate * d \in Nat /\ Rate * (d + 1) = Rate * d + Rate /\ Rate * 0 = 0
           /\ \A e \in Nat : e >= d => Rate * e >= Rate * d
<1>1. Rate \in Nat
  BY RateTypes
<1>2. Rate * d \in Nat /\ Rate * (d + 1) = Rate * d + Rate /\ Rate * 0 = 0
  BY <1>1
<1>3. ASSUME NEW e \in Nat, e >= d PROVE Rate * e >= Rate * d
  <2>1. PICK f \in Nat : e = d + f
    <3>1. e - d \in Nat /\ e = d + (e - d)
      BY <1>3
    <3>2. QED
      BY <3>1
  <2>2. Rate * (d + f) = Rate * d + Rate * f /\ Rate * f \in Nat
    BY <1>1
  <2>3. QED
    BY <1>2, <2>1, <2>2
<1>4. QED
  BY <1>2, <1>3

\* The tokens of a key lie between none and a full bucket.
LEMMA TokensNat ==
    ASSUME R!TypeOK, NEW k \in Keys, Clocked(k)
    PROVE  /\ Tokens(k) \in 0..R!Full
           /\ buckets[k] # NoBucket =>
                /\ buckets[k] \in R!Bucket
                /\ now - buckets[k].lastCheck \in Nat
                /\ Tokens(k) = R!Least(R!Full, buckets[k].tokens + Rate * (now - buckets[k].lastCheck))
<1>1. CASE buckets[k] = NoBucket
  BY <1>1, RateTypes DEF Tokens, R!Refilled
<1>2. CASE buckets[k] # NoBucket
  <2>1. buckets[k] \in R!Bucket
    BY <1>2 DEF R!TypeOK
  <2>2. now \in Nat /\ buckets[k].lastCheck \in Nat /\ buckets[k].tokens \in 0..R!Full
    BY <2>1, RateTypes DEF R!TypeOK, R!Bucket
  <2>3. now - buckets[k].lastCheck \in Nat
    BY <1>2, <2>2 DEF Clocked
  <2>4. Rate * (now - buckets[k].lastCheck) \in Nat
    BY <2>3, Stretch
  <2>5. Tokens(k) = R!Least(R!Full, buckets[k].tokens + Rate * (now - buckets[k].lastCheck))
    BY <1>2 DEF Tokens, R!Refilled
  <2>6. Tokens(k) \in 0..R!Full
    BY <2>2, <2>4, <2>5, RateTypes DEF R!Least
  <2>7. QED
    BY <2>1, <2>3, <2>5, <2>6
<1>3. QED
  BY <1>1, <1>2

LEMMA TokensOf ==
    ASSUME R!TypeOK, NEW k \in Keys, TightFor(k)
    PROVE  /\ Tokens(k) \in 0..R!Full
           /\ buckets[k] # NoBucket =>
                /\ buckets[k] \in R!Bucket
                /\ now - buckets[k].lastCheck \in Nat
                /\ Tokens(k) = R!Least(R!Full, buckets[k].tokens + Rate * (now - buckets[k].lastCheck))
BY TokensNat DEF TightFor

LEMMA TickTight ==
    ASSUME R!TypeOK, R!TypeOK', NEW k \in Keys, TightFor(k), R!Tick
    PROVE  TightFor(k)'
<1>1. now \in Nat /\ now' = now + 1 /\ admitted' = admitted /\ buckets' = buckets
  BY RateTypes DEF R!TypeOK, R!Tick
<1>2. \A i \in DOMAIN admitted[k] : admitted[k][i] \in Nat /\ admitted[k][i] <= now
  BY RateTypes DEF R!TypeOK, TightFor
<1>3. \A i \in DOMAIN admitted'[k] : admitted'[k][i] <= now'
  BY <1>1, <1>2
<1>4. buckets'[k] # NoBucket => buckets'[k].lastCheck <= now'
  <2>1. ASSUME buckets[k] # NoBucket PROVE buckets[k].lastCheck \in Nat /\ buckets[k].lastCheck <= now
    BY <2>1, RateTypes DEF R!TypeOK, R!Bucket, TightFor, Clocked
  <2>2. QED
    BY <1>1, <2>1
<1>5. /\ Tokens(k)' <= Tokens(k) + Rate
      /\ Tokens(k)' = R!Full \/ Tokens(k)' = Tokens(k) + Rate
      /\ Tokens(k)' \in 0..R!Full
  <2>1. CASE buckets[k] = NoBucket
    <3>1. Tokens(k)' = R!Full /\ Tokens(k) = R!Full
      BY <1>1, <2>1 DEF Tokens, R!Refilled, R!Full
    <3>2. QED
      BY <3>1, RateTypes
  <2>2. CASE buckets[k] # NoBucket
    <3> DEFINE d == now - buckets[k].lastCheck
    <3>1. d \in Nat /\ buckets[k].tokens \in Nat /\ buckets[k].lastCheck \in Nat
      BY <2>2, TokensOf, RateTypes DEF R!Bucket
    <3>2. Tokens(k) = R!Least(R!Full, buckets[k].tokens + Rate * d)
      BY <2>2, TokensOf
    <3>3. now' - buckets[k].lastCheck = d + 1
      BY <1>1, <3>1
    <3>4. Tokens(k)' = R!Least(R!Full, buckets[k].tokens + Rate * (d + 1))
      BY <1>1, <2>2, <3>3 DEF Tokens, R!Refilled, R!Full, R!Least
    <3>5. Rate * d \in Nat /\ Rate * (d + 1) = Rate * d + Rate
      BY <3>1, Stretch
    <3> HIDE DEF d
    <3>6. QED
      BY <3>1, <3>2, <3>4, <3>5, RateTypes DEF R!Least
  <2>3. QED
    BY <2>1, <2>2
<1>6. \A s : R!Since(k, s)' = R!Since(k, s)
  BY <1>1 DEF R!Since
<1>7. \A s \in 0..now : Allowance(s)' = Allowance(s) + Rate /\ Allowance(s) \in Nat
  <2>1. TAKE s \in 0..now
  <2>2. now - s \in Nat /\ now' - s = (now - s) + 1
    BY <1>1
  <2>3. Allowance(s) = R!Full + Rate * (now - s) /\ Allowance(s)' = R!Full + Rate * ((now - s) + 1)
    BY <2>2 DEF Allowance, R!Full
  <2>4. QED
    BY <2>2, <2>3, Stretch, RateTypes
<1>0. PICK next \in Nat : next = now + 1
  BY <1>1
<1>8. R!Since(k, next) = 0 /\ Allowance(next)' = R!Full
  <2>1. Times(k, next) = {}
    <3>1. \A i \in DOMAIN admitted[k] : ~ (admitted[k][i] >= next)
      BY <1>0, <1>1, <1>2
    <3>2. QED
      BY <3>1 DEF Times
  <2>2. R!Since(k, next) = Cardinality(Times(k, next))
    BY SameCardinality DEF R!Since, Times
  <2>3. now' - next = 0
    BY <1>0, <1>1
  <2>4. Allowance(next)' = R!Full + Rate * 0
    BY <2>3 DEF Allowance, R!Full
  <2>5. QED
    BY <2>1, <2>2, <2>4, Stretch, RateTypes, FS_EmptySet
<1>9. \A s : R!Since(k, s) \in Nat /\ R!Since(k, s) * Cost \in Nat
  BY SinceNat, RateTypes
<1>10. \A s \in 0..now' : R!Since(k, s)' * Cost + Tokens(k)' <= Allowance(s)'
  <2>1. TAKE s \in 0..now'
  <2>2. CASE s \in 0..now
    <3>1. R!Since(k, s) * Cost + Tokens(k) <= Allowance(s)
      BY <2>2 DEF TightFor
    <3>2. QED
      BY <1>5, <1>6, <1>7, <1>9, <2>2, <3>1, RateTypes, TokensOf
  <2>3. CASE s = next
    BY <1>5, <1>6, <1>8, <2>3, RateTypes
  <2>4. QED
    BY <1>0, <1>1, <2>1, <2>2, <2>3
<1>11. \E s \in 0..now' : R!Since(k, s)' * Cost + Tokens(k)' >= Allowance(s)'
  <2>1. CASE Tokens(k)' = R!Full
    <3>1. next \in 0..now' /\ R!Since(k, next)' * Cost + Tokens(k)' >= Allowance(next)'
      BY <1>0, <1>1, <1>6, <1>8, <2>1, RateTypes
    <3>2. QED
      BY <3>1
  <2>2. CASE Tokens(k)' = Tokens(k) + Rate
    <3>1. PICK s \in 0..now : R!Since(k, s) * Cost + Tokens(k) >= Allowance(s)
      BY DEF TightFor
    <3>2. s \in 0..now' /\ R!Since(k, s)' * Cost + Tokens(k)' >= Allowance(s)'
      BY <1>1, <1>6, <1>7, <1>9, <2>2, <3>1, RateTypes, TokensOf
    <3>3. QED
      BY <3>2
  <2>3. QED
    BY <1>5, <2>1, <2>2
<1>12. QED
  BY <1>3, <1>4, <1>10, <1>11 DEF TightFor, Clocked

\* A request costs its key tokens if it is let through, and is otherwise one
\* for which there were none left.
LEMMA AllowTight ==
    ASSUME R!TypeOK, R!TypeOK', NEW j \in Keys, TightFor(j), R!Allow(j)
    PROVE  /\ TightFor(j)'
           /\ \A k \in Keys \ {j} : buckets'[k] = buckets[k] /\ admitted'[k] = admitted[k]
           /\ admitted'[j] = admitted[j] => Tokens(j) < Cost
<1> DEFINE t == Tokens(j)
           ok == t >= Cost
           left == IF ok THEN t - Cost ELSE t
<1>1. now' = now /\ now \in Nat /\ t \in 0..R!Full /\ left \in 0..R!Full
  BY TokensOf, RateTypes DEF R!Allow, R!TypeOK
<1>2. buckets'[j] = [tokens |-> left, lastCheck |-> now]
  BY DEF R!Allow, R!TypeOK, Tokens
<1>3. admitted'[j] = IF ok THEN Append(admitted[j], now) ELSE admitted[j]
  BY DEF R!Allow, R!TypeOK, Tokens
<1>4. \A k \in Keys \ {j} : buckets'[k] = buckets[k] /\ admitted'[k] = admitted[k]
  BY DEF R!Allow, R!TypeOK
<1>5. buckets'[j] # NoBucket /\ buckets'[j].lastCheck = now /\ buckets'[j].tokens = left
  <2>1. now \in 0..MaxTime
    BY DEF R!TypeOK
  <2>2. [tokens |-> left, lastCheck |-> now] \in R!Bucket
    BY <1>1, <2>1 DEF R!Bucket
  <2>3. NoBucket \notin R!Bucket
    BY LimiterAssumption DEF R!RateAssumption, R!Bucket, R!Full
  <2>4. QED
    BY <1>2, <2>2, <2>3
<1>6. Tokens(j)' = left
  <2>1. now' - buckets'[j].lastCheck = 0
    BY <1>1, <1>5
  <2>2. Tokens(j)' = R!Least(R!Full, left + Rate * 0)
    BY <1>5, <2>1 DEF Tokens, R!Refilled, R!Full, R!Least
  <2>3. QED
    BY <1>1, <2>2, Stretch, RateTypes DEF R!Least
<1>7. admitted[j] \in Seq(0..MaxTime) /\ Len(admitted[j]) \in Nat
      /\ \A i \in DOMAIN admitted[j] : admitted[j][i] \in Nat /\ admitted[j][i] <= now
  <2>1. admitted[j] \in Seq(0..MaxTime)
    BY DEF R!TypeOK
  <2>2. QED
    BY <2>1, RateTypes DEF TightFor
<1>8. admitted'[j] = admitted[j] => ~ ok
  <2>1. Len(Append(admitted[j], now)) = Len(admitted[j]) + 1
    BY <1>7
  <2>2. Append(admitted[j], now) # admitted[j]
    BY <1>7, <2>1
  <2>3. QED
    BY <1>3, <2>2
<1>9. \A i \in DOMAIN admitted'[j] : admitted'[j][i] <= now'
  BY <1>1, <1>3, <1>7
<1>10. \A s \in 0..now : Allowance(s)' = Allowance(s) /\ Allowance(s) \in Nat
  <2>1. TAKE s \in 0..now
  <2>2. now - s \in Nat
    BY <1>1
  <2>3. Allowance(s)' = Allowance(s)
    BY <1>1 DEF Allowance, R!Full
  <2>4. QED
    BY <2>2, <2>3, Stretch, RateTypes DEF Allowance
<1>11. \A s \in 0..now : R!Since(j, s)' * Cost + left = R!Since(j, s) * Cost + t
  <2>1. TAKE s \in 0..now
  <2>2. R!Since(j, s) \in Nat
    BY SinceNat
  <2>3. CASE ok
    <3>1. R!Since(j, s)' = R!Since(j, s) + 1
      BY <1>3, <2>3, OneMoreSince
    <3>2. (R!Since(j, s) + 1) * Cost = R!Since(j, s) * Cost + Cost /\ R!Since(j, s) * Cost \in Nat
      BY <2>2, RateTypes
    <3>3. left = t - Cost
      BY <2>3
    <3> HIDE DEF left, t, ok
    <3>4. QED
      BY <1>1, <3>1, <3>2, <3>3, RateTypes
  <2>4. CASE ~ ok
    <3>1. R!Since(j, s)' = R!Since(j, s)
      BY <1>3, <2>4 DEF R!Since
    <3>2. QED
      BY <2>4, <3>1
  <2>5. QED
    BY <2>3, <2>4
<1>12. \A s \in 0..now' : R!Since(j, s)' * Cost + Tokens(j)' <= Allowance(s)'
  BY <1>1, <1>6, <1>10, <1>11 DEF TightFor
<1>13. \E s \in 0..now' : R!Since(j, s)' * Cost + Tokens(j)' >= Allowance(s)'
  <2>1. PICK s \in 0..now : R!Since(j, s) * Cost + Tokens(j) >= Allowance(s)
    BY DEF TightFor
  <2>2. R!Since(j, s)' * Cost + Tokens(j)' >= Allowance(s)'
    BY <1>6, <1>10, <1>11, <2>1
  <2>3. QED
    BY <1>1, <2>2
<1>14. TightFor(j)'
  BY <1>1, <1>5, <1>9, <1>12, <1>13 DEF TightFor, Clocked
<1>15. admitted'[j] = admitted[j] => Tokens(j) < Cost
  BY <1>1, <1>8, RateTypes
<1>16. QED
  BY <1>4, <1>14, <1>15

\* A key whose own state stays the same keeps its bound.
LEMMA SameTight ==
    ASSUME R!TypeOK, NEW k \in Keys, TightFor(k),
           now' = now, Tokens(k)' = Tokens(k), admitted'[k] = admitted[k],
           buckets'[k] = buckets[k] \/ buckets'[k] = NoBucket
    PROVE  TightFor(k)'
<1>1. \A s : R!Since(k, s)' = R!Since(k, s) /\ Allowance(s)' = Allowance(s)
  BY DEF R!Since, Allowance, R!Full
<1>2. QED
  BY <1>1 DEF TightFor, Clocked

LEMMA CleanupTight ==
    ASSUME R!TypeOK, R!CleanupForgetsFull, NEW k \in Keys, TightFor(k), R!Cleanup
    PROVE  TightFor(k)'
<1>1. now' = now /\ admitted' = admitted /\ buckets'[k] \in {buckets[k], NoBucket}
  BY DEF R!Cleanup
<1>2. CASE buckets'[k] = buckets[k]
  <2>1. Tokens(k)' = Tokens(k)
    BY <1>1, <1>2 DEF Tokens, R!Refilled, R!Full, R!Least
  <2>2. QED
    BY <1>1, <1>2, <2>1, SameTight
<1>3. CASE buckets'[k] = NoBucket /\ buckets[k] # NoBucket
  <2> DEFINE d == now - buckets[k].lastCheck
  <2>1. buckets[k].lastCheck < now - MaxAge
    BY <1>3 DEF R!Cleanup
  <2>2. buckets[k].lastCheck \in Nat /\ buckets[k].tokens \in 0..R!Full /\ d \in Nat /\ now \in Nat
    BY <1>3, TokensOf, RateTypes DEF R!Bucket, R!TypeOK
  <2>3. d >= MaxAge + 1
    BY <2>1, <2>2, RateTypes
  <2>4. Rate * d >= R!Full /\ Rate * d \in Nat
    <3>1. MaxAge + 1 \in Nat
      BY RateTypes
    <3>2. Rate * (MaxAge + 1) >= R!Full /\ Rate * (MaxAge + 1) \in Nat
      BY <3>1, Stretch DEF R!CleanupForgetsFull, R!Full
    <3>3. Rate * d >= Rate * (MaxAge + 1) /\ Rate * d \in Nat
      BY <2>2, <2>3, <3>1, Stretch
    <3> HIDE DEF d
    <3>4. QED
      BY <3>2, <3>3, RateTypes
  <2>5. Tokens(k) = R!Least(R!Full, buckets[k].tokens + Rate * d)
    BY <1>3, TokensOf
  <2>6. Tokens(k) = R!Full
    <3> HIDE DEF d
    <3>1. QED
      BY <2>2, <2>4, <2>5, RateTypes DEF R!Least
  <2>7. Tokens(k)' = R!Full
    BY <1>3 DEF Tokens, R!Refilled, R!Full
  <2>8. QED
    BY <1>1, <1>3, <2>6, <2>7, SameTight
<1>4. QED
  BY <1>1, <1>2, <1>3

\* The whole limiter: what every step keeps.
LEMMA LimiterInit == R!Init => LimiterInv
<1> SUFFICES ASSUME R!Init PROVE LimiterInv
  OBVIOUS
<1>1. R!TypeOK
  BY RateTypes DEF R!Init, R!TypeOK
<1>2. ASSUME NEW k \in Keys PROVE TightFor(k)
  <2>1. now = 0 /\ admitted[k] = << >> /\ buckets[k] = NoBucket /\ Tokens(k) = R!Full
    BY DEF R!Init, Tokens, R!Refilled
  <2>2. R!Since(k, 0) = 0
    <3>1. Times(k, 0) = {}
      BY <2>1 DEF Times
    <3>2. R!Since(k, 0) = Cardinality(Times(k, 0))
      BY SameCardinality DEF R!Since, Times
    <3>3. QED
      BY <3>1, <3>2, FS_EmptySet
  <2>3. Allowance(0) = R!Full
    <3>1. Allowance(0) = R!Full + Rate * 0
      BY <2>1 DEF Allowance
    <3>2. QED
      BY <3>1, Stretch, RateTypes
  <2>4. 0..now = {0}
    BY <2>1
  <2>5. QED
    BY <2>1, <2>2, <2>3, <2>4, RateTypes DEF TightFor, Clocked
<1>3. QED
  BY <1>1, <1>2 DEF LimiterInv

LEMMA LimiterType ==
    ASSUME R!TypeOK, \A k \in Keys : Clocked(k), [R!Next]_rVars
    PROVE  R!TypeOK' /\ \A k \in Keys : Clocked(k)'
<1> DEFINE Clock == \A k \in Keys : Clocked(k)
<1>1. CASE UNCHANGED rVars
  BY <1>1 DEF Clocked, rVars, R!TypeOK, R!Bucket, R!Full
<1>2. ASSUME NEW j \in Keys, R!Allow(j) PROVE R!TypeOK' /\ Clock'
  <2>1. Clocked(j) /\ R!TypeOK
    OBVIOUS
  <2>2. now \in 0..MaxTime /\ now' = now
    BY <1>2, <2>1 DEF R!Allow, R!TypeOK
  <2>3. Tokens(j) \in 0..R!Full
    BY <2>1, TokensNat
  <2>4. PICK left \in 0..R!Full : buckets' = [buckets EXCEPT ![j] = [tokens |-> left, lastCheck |-> now]]
    <3>1. buckets' = [buckets EXCEPT ![j] =
              [tokens |-> IF Tokens(j) >= Cost THEN Tokens(j) - Cost ELSE Tokens(j), lastCheck |-> now]]
      BY <1>2 DEF R!Allow, Tokens
    <3>2. (IF Tokens(j) >= Cost THEN Tokens(j) - Cost ELSE Tokens(j)) \in 0..R!Full
      BY <2>3, RateTypes
    <3>3. QED
      BY <3>1, <3>2
  <2>5. buckets' \in [Keys -> R!Bucket \cup {NoBucket}]
    <3>1. [tokens |-> left, lastCheck |-> now] \in R!Bucket
      BY <2>2 DEF R!Bucket
    <3>2. QED
      BY <2>1, <2>4, <3>1 DEF R!TypeOK
  <2>6. admitted' \in [Keys -> Seq(0..MaxTime)]
    <3>1. Append(admitted[j], now) \in Seq(0..MaxTime)
      BY <2>1, <2>2 DEF R!TypeOK
    <3>2. QED
      BY <1>2, <2>1, <3>1 DEF R!Allow, R!TypeOK
  <2>7. Clock'
    <3>1. [tokens |-> left, lastCheck |-> now].lastCheck = now
      OBVIOUS
    <3>2. \A k \in Keys : k = j \/ buckets'[k] = buckets[k]
      BY <2>1, <2>4 DEF R!TypeOK
    <3>3. buckets'[j] = [tokens |-> left, lastCheck |-> now]
      BY <2>1, <2>4 DEF R!TypeOK
    <3>4. QED
      BY <2>2, <3>1, <3>2, <3>3 DEF Clocked
  <2>8. QED
    BY <2>2, <2>5, <2>6, <2>7 DEF R!TypeOK, R!Bucket, R!Full
<1>3. CASE R!Cleanup
  <2>1. \A k \in Keys : buckets'[k] \in R!Bucket \cup {NoBucket}
    BY <1>3 DEF R!Cleanup, R!TypeOK
  <2>2. buckets' \in [Keys -> R!Bucket \cup {NoBucket}]
    BY <1>3, <2>1 DEF R!Cleanup
  <2>3. Clock'
    BY <1>3 DEF R!Cleanup, Clocked
  <2>4. QED
    BY <1>3, <2>2, <2>3 DEF R!Cleanup, R!TypeOK, R!Bucket, R!Full
<1>4. CASE R!Tick
  <2>1. R!TypeOK'
    BY <1>4, RateTypes DEF R!Tick, R!TypeOK, R!Bucket, R!Full
  <2>2. \A k \in Keys : buckets[k] # NoBucket => buckets[k].lastCheck \in Nat
    BY DEF R!TypeOK, R!Bucket
  <2>3. Clock'
    BY <1>4, <2>2, RateTypes DEF R!Tick, R!TypeOK, Clocked
  <2>4. QED
    BY <2>1, <2>3
<1>5. QED
  BY <1>1, <1>2, <1>3, <1>4 DEF R!Next

LEMMA LimiterStep == ASSUME R!CleanupForgetsFull, LimiterInv, [R!Next]_rVars PROVE LimiterInv'
<1>1. R!TypeOK /\ R!TypeOK'
  BY LimiterType DEF LimiterInv, TightFor
<1>2. ASSUME NEW k \in Keys PROVE TightFor(k)'
  <2>1. TightFor(k)
    BY DEF LimiterInv
  <2>2. CASE UNCHANGED rVars
    <3>1. Tokens(k)' = Tokens(k)
      BY <2>2 DEF rVars, Tokens, R!Refilled, R!Full, R!Least
    <3>2. QED
      BY <1>1, <2>1, <2>2, <3>1, SameTight DEF rVars
  <2>3. CASE R!Allow(k)
    BY <1>1, <2>1, <2>3, AllowTight
  <2>4. ASSUME NEW j \in Keys \ {k}, R!Allow(j) PROVE TightFor(k)'
    <3>1. now' = now /\ buckets'[k] = buckets[k] /\ admitted'[k] = admitted[k]
      BY <1>1, <2>4 DEF R!Allow, R!TypeOK
    <3>2. Tokens(k)' = Tokens(k)
      BY <3>1 DEF Tokens, R!Refilled, R!Full, R!Least
    <3>3. QED
      BY <1>1, <2>1, <3>1, <3>2, SameTight
  <2>5. CASE R!Cleanup
    BY <1>1, <2>1, <2>5, CleanupTight
  <2>6. CASE R!Tick
    BY <1>1, <2>1, <2>6, TickTight
  <2>7. QED
    BY <2>2, <2>3, <2>4, <2>5, <2>6 DEF R!Next
<1>3. QED
  BY <1>1, <1>2 DEF LimiterInv

\* A refusal happens only where one more request would exceed the bound.
LEMMA RefusedAtBound ==
    ASSUME LimiterInv, LimiterInv', [R!Next]_rVars, NEW k \in Keys,
           buckets'[k] # buckets[k], buckets'[k] # NoBucket, admitted'[k] = admitted[k]
    PROVE  \E s \in 0..now : (R!Since(k, s) + 1) * Cost > R!Full + Rate * (now - s)
<1>1. R!TypeOK /\ R!TypeOK' /\ TightFor(k)
  BY DEF LimiterInv
<1>2. R!Allow(k)
  BY <1>1 DEF R!Next, R!Allow, R!Cleanup, R!Tick, rVars, R!TypeOK
<1>3. Tokens(k) < Cost /\ Tokens(k) \in Nat
  BY <1>1, <1>2, AllowTight, TokensOf, RateTypes
<1>4. PICK s \in 0..now : R!Since(k, s) * Cost + Tokens(k) >= Allowance(s)
  BY <1>1 DEF TightFor
<1>5. R!Since(k, s) \in Nat /\ now - s \in Nat /\ now \in Nat
  BY <1>1, SinceNat, RateTypes DEF R!TypeOK
<1>6. (R!Since(k, s) + 1) * Cost = R!Since(k, s) * Cost + Cost /\ R!Since(k, s) * Cost \in Nat
  BY <1>5, RateTypes
<1>7. Allowance(s) = R!Full + Rate * (now - s) /\ Allowance(s) \in Nat
  BY <1>5, Stretch, RateTypes DEF Allowance
<1>8. (R!Since(k, s) + 1) * Cost > R!Full + Rate * (now - s)
  BY <1>3, <1>4, <1>6, <1>7, RateTypes
<1>9. QED
  BY <1>8

LEMMA InvBounds == ASSUME LimiterInv PROVE R!RateBound
<1> SUFFICES ASSUME NEW k \in Keys, NEW s \in 0..now
             PROVE R!Since(k, s) * Cost <= R!Full + Rate * (now - s)
  BY DEF R!RateBound
<1>1. R!TypeOK /\ TightFor(k)
  BY DEF LimiterInv
<1>2. R!Since(k, s) * Cost + Tokens(k) <= Allowance(s)
  BY <1>1 DEF TightFor
<1>3. R!Since(k, s) * Cost \in Nat /\ Tokens(k) \in Nat /\ Allowance(s) \in Nat
  <2>1. now - s \in Nat
    BY <1>1, RateTypes DEF R!TypeOK
  <2>2. QED
    BY <1>1, <2>1, SinceNat, TokensOf, Stretch, RateTypes DEF Allowance
<1>4. QED
  BY <1>2, <1>3 DEF Allowance

\* The components, each on its own.
LEMMA GuardsApart == GuardsSpec => Spec /\ R!Spec /\ F!Spec /\ W!Spec
<1>1. GuardsInit => Init /\ R!Init /\ F!Init /\ W!Init
  BY DEF GuardsInit
<1>2. [GuardsNext]_guards =>
        [Next]_vars /\ [R!Next]_R!vars /\ [F!Next]_F!vars /\ [W!Next]_W!vars
  BY DEF GuardsNext, guards, rVars, fVars, wVars, R!vars, F!vars, W!vars
<1>3. QED
  BY <1>1, <1>2, PTL DEF GuardsSpec, Spec, R!Spec, F!Spec, W!Spec

\* RateExact (Limiter.Allow, ratelimit.go:32-61): no stretch of time sees more
\* requests of a key than a full bucket and its refill, and none is refused
\* that the bound would have allowed, provided that Cleanup is called with an
\* age at which a bucket is full again.
THEOREM RateIsExact == R!CleanupForgetsFull /\ GuardsSpec => RateExact
<1> DEFINE Step == \A k \in Keys :
        buckets'[k] # buckets[k] /\ buckets'[k] # NoBucket /\ admitted'[k] = admitted[k] =>
           \E s \in 0..now : (R!Since(k, s) + 1) * Cost > R!Full + Rate * (now - s)
<1> SUFFICES ASSUME R!CleanupForgetsFull PROVE GuardsSpec => RateExact
  OBVIOUS
<1>1. [R!Next]_R!vars => [R!Next]_rVars
  BY DEF R!vars, rVars
<1>2. LimiterInv /\ [R!Next]_rVars => LimiterInv'
  BY LimiterStep
<1>3. LimiterInv => R!RateBound
  BY InvBounds
<1>4. LimiterInv /\ LimiterInv' /\ [R!Next]_rVars => [Step]_R!vars
  BY RefusedAtBound
<1>5. QED
  BY <1>1, <1>2, <1>3, <1>4, LimiterInit, GuardsApart, PTL DEF R!Spec, RateExact, R!RefusedOnlyAtBound

-----------------------------------------------------------------------------
(* Types of all four.                                                        *)

\* While the chain waits for a provider, it has asked one.
ChainInv == F!TypeOK /\ (status = "wait" => asked # << >>)

LEMMA ChainTypes == F!Spec => []F!TypeOK
<1> USE ChainAssumption DEF F!FallbackAssumption
<1>1. F!Init => ChainInv
  BY DEF ChainInv, F!Init, F!TypeOK, F!At
<1>2. ChainInv /\ [F!Next]_F!vars => ChainInv'
  <2> SUFFICES ASSUME ChainInv, [F!Next]_F!vars PROVE ChainInv'
    OBVIOUS
  <2> USE DEF ChainInv, F!TypeOK, F!At
  <2>1. CASE F!Ask
    <3>1. Len(asked) + 1 \in DOMAIN Chain
      BY <2>1 DEF F!Ask
    <3>2. ModelMap[Chain[Len(asked) + 1]][original] \in Models
      BY <3>1
    <3>3. asked' \in Seq(Models) /\ Len(asked') = Len(asked) + 1 /\ model' \in Models
      BY <2>1, <3>2 DEF F!Ask
    <3>4. asked' # << >>
      BY <3>3
    <3>5. QED
      BY <2>1, <3>1, <3>3, <3>4 DEF F!Ask
  <2>2. CASE F!StreamDelta
    <3>1. Len(asked) \in DOMAIN Chain
      BY <2>2 DEF F!StreamDelta
    <3>2. QED
      BY <2>2, <3>1 DEF F!StreamDelta
  <2>3. CASE F!Succeed \/ F!RetriableError \/ F!FatalError
    BY <2>3 DEF F!Succeed, F!RetriableError, F!FatalError
  <2>4. CASE UNCHANGED F!vars
    BY <2>4 DEF F!vars
  <2>5. QED
    BY <2>1, <2>2, <2>3, <2>4 DEF F!Next
<1>3. ChainInv => F!TypeOK
  BY DEF ChainInv
<1>4. QED
  BY <1>1, <1>2, <1>3, PTL DEF F!Spec

\* A request that may be tried again has an attempt left.
WireInv ==
    /\ W!TypeOK
    /\ at = "idle" => attempts = 0
    /\ at = "asking" => attempts < MaxAttempts
    /\ at = "streaming" => attempts < MaxAttempts

\* The constants of an answer.
LEMMA AnswerConstants ==
    /\ MaxEvents \in Nat /\ MaxCalls \in Nat /\ MaxIndex \in Nat /\ MaxAttempts \in Nat \ {0}
    /\ W!Indexes \subseteq Nat /\ W!MadeCalls \subseteq W!Indexes /\ 0 \in W!Indexes
    /\ IsFiniteSet(W!Indexes)
    /\ \A S : W!Cardinality(S) = Cardinality(S)
<1>1. MaxEvents \in Nat /\ MaxCalls \in Nat /\ MaxIndex \in Nat /\ MaxAttempts \in Nat \ {0} /\ MaxCalls <= MaxIndex + 1
  BY WireAssumption DEF W!WireAssumption
<1>2. IsFiniteSet(W!Indexes)
  BY <1>1, FS_Interval DEF W!Indexes
<1>3. \A S : W!Cardinality(S) = Cardinality(S)
  BY DEF W!Cardinality, Cardinality
<1>4. QED
  BY <1>1, <1>2, <1>3 DEF W!Indexes, W!MadeCalls

LEMMA EventFacts ==
    ASSUME NEW kind \in {"text", "thinking", "call"}, NEW c \in W!MadeCalls \cup {0}, NEW i \in W!Indexes,
           NEW read \in BOOLEAN
    PROVE  /\ W!Event(kind, c, i, read) \in W!Events
           /\ W!Event(kind, c, i, read).kind = kind /\ W!Event(kind, c, i, read).call = c
           /\ W!Event(kind, c, i, read).index = i /\ W!Event(kind, c, i, read).read = read
BY DEF W!Event, W!Events

\* What Comes adds to the answer.
LEMMA ComesFacts ==
    ASSUME W!TypeOK, NEW e \in W!Events, W!Comes(e)
    PROVE  /\ at = "streaming" /\ at' = at /\ UNCHANGED <<vendor, request, ended, toolCalls, attempts, cancelled>>
           /\ W!Number \in 1..MaxEvents /\ events' \in Seq(W!Events) /\ Len(events') <= MaxEvents
           /\ DOMAIN events' = DOMAIN events \cup {W!Number} /\ events'[W!Number] = e
           /\ \A p \in DOMAIN events : p \in 1..MaxEvents /\ p < W!Number /\ events'[p] = events[p]
<1>1. events \in Seq(W!Events) /\ Len(events) \in Nat /\ DOMAIN events = 1..Len(events)
  BY DEF W!TypeOK
<1>2. Len(events) < MaxEvents /\ events' = Append(events, e) /\ at = "streaming"
      /\ UNCHANGED <<vendor, request, ended, toolCalls, attempts, cancelled, at>>
  BY DEF W!Comes, W!input
<1>3. events' \in Seq(W!Events) /\ Len(events') = Len(events) + 1
  BY <1>1, <1>2
<1>4. QED
  BY <1>1, <1>2, <1>3, AnswerConstants DEF W!Number

LEMMA AppendKind ==
    ASSUME NEW S, NEW s \in Seq(S), NEW x \in S
    PROVE  Append(s, x) \in Seq(S)
OBVIOUS

\* What Finish returns is made of what was collected.
LEMMA CollectedKind ==
    ASSUME W!TypeOK, NEW cs \in W!Collected
    PROVE  /\ Cardinality(W!Found) \in Nat /\ W!Found \subseteq W!Present /\ W!Present \subseteq W!Indexes
           /\ cs \in Seq(Seq(1..MaxEvents)) /\ DOMAIN cs = 1..Cardinality(W!Found)
           /\ \E f \in [1..Cardinality(W!Found) -> W!Found] :
                /\ \A j, k \in 1..Cardinality(W!Found) : j < k => f[j] < f[k]
                /\ \A j \in 1..Cardinality(W!Found) : cs[j] = toolMap[f[j]]
<1> DEFINE n == Cardinality(W!Found)
<1>1. W!Found \subseteq W!Present /\ W!Present \subseteq W!Indexes
  BY DEF W!Found, W!Present
<1>2. n \in Nat
  BY <1>1, AnswerConstants, FS_Subset, FS_CardinalityType
<1>3. PICK f \in [1..n -> W!Found] : (\A j, k \in 1..n : j < k => f[j] < f[k]) /\ cs = [j \in 1..n |-> toolMap[f[j]]]
  BY AnswerConstants DEF W!Collected
<1>4. \A j \in 1..n : cs[j] = toolMap[f[j]] /\ toolMap[f[j]] \in Seq(1..MaxEvents)
  BY <1>1, <1>3 DEF W!TypeOK
<1>5. cs \in [1..n -> Seq(1..MaxEvents)]
  BY <1>3, <1>4
<1>6. cs \in Seq(Seq(1..MaxEvents)) /\ DOMAIN cs = 1..n
  BY <1>2, <1>3, <1>5
<1>7. \E g \in [1..n -> W!Found] : (\A j, k \in 1..n : j < k => g[j] < g[k]) /\ \A j \in 1..n : cs[j] = toolMap[g[j]]
  BY <1>3, <1>4
<1>8. QED
  BY <1>1, <1>2, <1>6, <1>7

LEMMA FinishKind ==
    ASSUME WireInv, NEW whole \in BOOLEAN, W!Finish(whole), at = "streaming"
    PROVE  WireInv'
<1>1. shown \in Seq(0..MaxEvents) /\ 0 \in 0..MaxEvents
  BY AnswerConstants DEF WireInv, W!TypeOK
<1>2. shown' \in Seq(0..MaxEvents)
  BY <1>1, AppendKind DEF W!Finish, W!Done
<1>3. toolCalls' \in Seq(Seq(1..MaxEvents))
  BY CollectedKind DEF W!Finish, WireInv
<1>4. QED
  BY <1>2, <1>3 DEF W!Finish, W!input, WireInv, W!TypeOK

\* A whole answer of n texts and k calls.
LEMMA WholeAnswer ==
    ASSUME NEW n \in 0..MaxEvents, NEW k \in 0..MaxCalls, n + k <= MaxEvents, NEW thoughts \in SUBSET (1..n),
           W!parseResponse(n, thoughts, k)
    PROVE  /\ n \in Nat /\ k \in Nat
           /\ events' \in Seq(W!Events) /\ Len(events') = n + k /\ DOMAIN events' = 1..(n + k)
           /\ \A p \in 1..n : events'[p].kind \in {"text", "thinking"} /\ events'[p].read
           /\ \A p \in (n + 1)..(n + k) :
                events'[p].kind = "call" /\ events'[p].read /\ events'[p].call = p - n - 1 /\ events'[p].index = p - n - 1
           /\ ended' = TRUE
           /\ content' \in Seq(1..MaxEvents) /\ DOMAIN content' = 1..n /\ \A p \in 1..n : content'[p] = p
           /\ toolCalls' \in Seq(Seq(1..MaxEvents)) /\ DOMAIN toolCalls' = 1..k
           /\ \A p \in 1..k : toolCalls'[p] = <<n + p>>
<1>1. n \in Nat /\ k \in Nat /\ MaxEvents \in Nat /\ n <= MaxEvents /\ k <= MaxCalls
  BY AnswerConstants
<1>2. /\ events' = [i \in 1..(n + k) |->
                     IF i > n THEN W!Event("call", i - n - 1, i - n - 1, TRUE)
                     ELSE W!Event(IF i \in thoughts THEN "thinking" ELSE "text", 0, 0, TRUE)]
      /\ ended' = TRUE
      /\ content' = [i \in 1..n |-> i]
      /\ toolCalls' = [i \in 1..k |-> <<n + i>>]
  BY DEF W!parseResponse
<1>3. ASSUME NEW p \in 1..(n + k), p > n
      PROVE  /\ events'[p] \in W!Events /\ events'[p].kind = "call" /\ events'[p].read
             /\ events'[p].call = p - n - 1 /\ events'[p].index = p - n - 1
  <2>1. p - n - 1 \in W!MadeCalls
    BY <1>1, <1>3, AnswerConstants DEF W!MadeCalls
  <2>2. p - n - 1 \in W!Indexes
    BY <2>1, AnswerConstants
  <2>3. events'[p] = W!Event("call", p - n - 1, p - n - 1, TRUE)
    BY <1>2, <1>3
  <2> DEFINE c == p - n - 1
  <2>4. c \in W!MadeCalls \cup {0} /\ c \in W!Indexes
    BY <2>1, <2>2
  <2> HIDE DEF c
  <2>5. /\ W!Event("call", c, c, TRUE) \in W!Events /\ W!Event("call", c, c, TRUE).kind = "call"
        /\ W!Event("call", c, c, TRUE).call = c /\ W!Event("call", c, c, TRUE).index = c
        /\ W!Event("call", c, c, TRUE).read = TRUE
    BY <2>4 DEF W!Event, W!Events
  <2>6. QED
    BY <2>3, <2>5 DEF c
<1>4. ASSUME NEW p \in 1..(n + k), ~ p > n
      PROVE  events'[p] \in W!Events /\ events'[p].kind \in {"text", "thinking"} /\ events'[p].read
  <2>1. PICK kind \in {"text", "thinking"} : events'[p] = W!Event(kind, 0, 0, TRUE)
    BY <1>2, <1>4
  <2>2. QED
    BY <2>1, AnswerConstants DEF W!Event, W!Events
<1>5. events' \in Seq(W!Events) /\ Len(events') = n + k /\ DOMAIN events' = 1..(n + k)
  <2>1. events' \in [1..(n + k) -> W!Events]
    BY <1>2, <1>3, <1>4
  <2>2. QED
    BY <1>1, <2>1
<1>6. content' \in Seq(1..MaxEvents) /\ DOMAIN content' = 1..n /\ \A p \in 1..n : content'[p] = p
  <2>1. content' \in [1..n -> 1..MaxEvents]
    BY <1>1, <1>2
  <2>2. QED
    BY <1>1, <1>2, <2>1
<1>7. toolCalls' \in Seq(Seq(1..MaxEvents)) /\ DOMAIN toolCalls' = 1..k
  <2>1. ASSUME NEW i \in 1..k PROVE <<n + i>> \in Seq(1..MaxEvents)
    <3>1. n + i \in 1..MaxEvents
      BY <1>1
    <3>2. QED
      BY <3>1
  <2>2. toolCalls' \in [1..k -> Seq(1..MaxEvents)]
    BY <1>2, <2>1
  <2>3. QED
    BY <1>1, <1>2, <2>2
<1>8. ASSUME NEW p \in 1..n PROVE p \in 1..(n + k) /\ ~ p > n
  BY <1>1
<1>9. ASSUME NEW p \in (n + 1)..(n + k) PROVE p \in 1..(n + k) /\ p > n
  BY <1>1
<1>10. \A p \in 1..n : events'[p].kind \in {"text", "thinking"} /\ events'[p].read
  BY <1>4, <1>8
<1>11. \A p \in (n + 1)..(n + k) :
         events'[p].kind = "call" /\ events'[p].read /\ events'[p].call = p - n - 1 /\ events'[p].index = p - n - 1
  BY <1>3, <1>9
<1>12. QED
  BY <1>1, <1>2, <1>5, <1>6, <1>7, <1>10, <1>11

LEMMA WireOpens == W!Init => WireInv
<1> SUFFICES ASSUME W!Init PROVE WireInv
  OBVIOUS
<1>1. cancelled \in BOOLEAN /\ ended \in BOOLEAN /\ Len(<< >>) = 0
  BY DEF W!Init
<1>2. toolMap \in [W!Indexes -> Seq(1..MaxEvents)] /\ attempts \in 0..MaxAttempts
  BY AnswerConstants DEF W!Init
<1>3. QED
  BY <1>1, <1>2, AnswerConstants DEF W!Init, W!TypeOK, WireInv

LEMMA WireTypes == W!Spec => []W!TypeOK
<1>1. W!Init => WireInv
  BY WireOpens
<1>2. WireInv /\ [W!Next]_W!vars => WireInv'
  <2> SUFFICES ASSUME WireInv, [W!Next]_W!vars PROVE WireInv'
    OBVIOUS
  <2>1. CASE W!Chat \/ W!ChatStream
    BY <2>1, AnswerConstants DEF W!Chat, W!ChatStream, W!Begin, WireInv, W!TypeOK, W!input, W!answer
  <2>2. CASE W!Cancel
    BY <2>2 DEF W!Cancel, WireInv, W!TypeOK, W!input, W!answer
  <2>3. CASE W!Respond
    <3>1. PICK n \in 0..MaxEvents, k \in 0..MaxCalls :
            n + k <= MaxEvents /\ \E thoughts \in SUBSET (1..n) : W!parseResponse(n, thoughts, k)
      BY <2>3 DEF W!Respond
    <3>2. /\ events' \in Seq(W!Events) /\ Len(events') <= MaxEvents /\ ended' \in BOOLEAN
          /\ content' \in Seq(1..MaxEvents) /\ toolCalls' \in Seq(Seq(1..MaxEvents))
      BY <3>1, WholeAnswer
    <3>3. /\ UNCHANGED <<vendor, toolMap, shown, cancelled>> /\ attempts' = attempts + 1 /\ at = "asking"
          /\ at' \in {"ok", "error"}
      BY <2>3 DEF W!Respond, W!input
    <3>4. attempts' \in 0..MaxAttempts
      BY <3>3, AnswerConstants DEF WireInv, W!TypeOK
    <3>5. QED
      BY <3>2, <3>3, <3>4 DEF WireInv, W!TypeOK
  <2>4. CASE W!FailChat
    BY <2>4, AnswerConstants DEF W!FailChat, WireInv, W!TypeOK, W!input, W!answer
  <2>5. ASSUME NEW read \in BOOLEAN, W!TextDelta(read) \/ W!ThinkingDelta(read) PROVE WireInv'
    <3>1. PICK e \in W!Events : W!Comes(e)
      BY <2>5, EventFacts, AnswerConstants DEF W!TextDelta, W!ThinkingDelta
    <3>2. W!Number \in 1..MaxEvents /\ W!Number \in 0..MaxEvents
      BY <3>1, ComesFacts DEF WireInv
    <3>3. content' \in {content, Append(content, W!Number)} /\ shown' \in {shown, Append(shown, W!Number)}
          /\ toolMap' = toolMap
      BY <2>5 DEF W!TextDelta, W!ThinkingDelta
    <3>4. content' \in Seq(1..MaxEvents) /\ shown' \in Seq(0..MaxEvents)
      BY <3>2, <3>3, AppendKind DEF WireInv, W!TypeOK
    <3>5. QED
      BY <3>1, <3>3, <3>4, ComesFacts DEF WireInv, W!TypeOK
  <2>6. ASSUME NEW c \in W!MadeCalls, NEW i \in W!Indexes, NEW read \in BOOLEAN, W!CallDelta(c, i, read)
        PROVE  WireInv'
    <3>1. PICK e \in W!Events : W!Comes(e)
      BY <2>6, EventFacts DEF W!CallDelta
    <3>2. W!Number \in 1..MaxEvents
      BY <3>1, ComesFacts DEF WireInv
    <3>3. /\ toolMap' \in {toolMap, [toolMap EXCEPT ![i] = Append(toolMap[i], W!Number)]}
          /\ content' = content /\ shown' = shown
      BY <2>6 DEF W!CallDelta
    <3>4. Append(toolMap[i], W!Number) \in Seq(1..MaxEvents)
      BY <3>2, AppendKind DEF WireInv, W!TypeOK
    <3>5. toolMap' \in [W!Indexes -> Seq(1..MaxEvents)]
      BY <3>3, <3>4 DEF WireInv, W!TypeOK
    <3>6. QED
      BY <3>1, <3>3, <3>5, ComesFacts DEF WireInv, W!TypeOK
  <2>7. CASE W!StreamEnds \/ W!StreamBreaks \/ W!StreamRefused
    <3>1. at = "streaming"
      BY <2>7 DEF W!StreamEnds, W!StreamBreaks, W!StreamRefused
    <3>2. CASE W!Finish(TRUE) \/ W!Finish(FALSE)
      BY <3>1, <3>2, FinishKind
    <3>3. CASE at' = "error" /\ UNCHANGED <<W!input, sent, W!answer, attempts, cancelled>>
      BY <3>1, <3>3 DEF WireInv, W!TypeOK, W!input, W!answer
    <3>4. QED
      BY <2>7, <3>2, <3>3 DEF W!StreamEnds, W!StreamBreaks, W!StreamRefused
  <2>8. CASE UNCHANGED W!vars
    BY <2>8 DEF W!vars, WireInv, W!TypeOK, W!input
  <2>9. QED
    BY <2>1, <2>2, <2>3, <2>4, <2>5, <2>6, <2>7, <2>8 DEF W!Next
<1>3. WireInv => W!TypeOK
  BY DEF WireInv
<1>4. QED
  BY <1>1, <1>2, <1>3, PTL DEF W!Spec

\* TypesOK: every variable of the four components keeps its type; no request is
\* tried more than MaxAttempts times (OpenAICompat.Chat, openai_compat.go), no
\* chain asks more providers than it has (Chain.Chat, fallback.go).
THEOREM ProvidersTypes == GuardsSpec => []TypesOK
<1> DEFINE ClockInv == R!TypeOK /\ \A k \in Keys : Clocked(k)
<1>1. R!Init => ClockInv
  BY LimiterInit DEF LimiterInv, TightFor
<1>2. ClockInv /\ [R!Next]_R!vars => ClockInv'
  BY LimiterType DEF R!vars, rVars
<1>3. ClockInv => R!TypeOK
  OBVIOUS
<1>4. TypeOK /\ R!TypeOK /\ F!TypeOK /\ W!TypeOK => TypesOK
  BY DEF TypesOK
<1> HIDE DEF ClockInv
<1>5. QED
  BY <1>1, <1>2, <1>3, <1>4, GuardsApart, BreakerTypes, ChainTypes, WireTypes, PTL DEF R!Spec

-----------------------------------------------------------------------------
(* The wire.  A loop that appends is a run: what it has appended after each  *)
(* of its rounds.                                                            *)

LEMMA LeastNumber == ASSUME NEW T \in SUBSET Nat, T # {} PROVE \E x \in T : \A y \in T : x <= y
<1> DEFINE Below == {ss \in Nat \X Nat : ss[1] < ss[2]}
<1>1. Below = OpToRel(<, Nat)
  BY DEF OpToRel
<1>2. IsWellFoundedOn(Below, Nat)
  BY <1>1, NatLessThanWellFounded
<1>3. \A x, y \in Nat : <<y, x>> \in Below <=> y < x
  OBVIOUS
<1> HIDE DEF Below
<1>4. PICK x \in T : \A y \in T : ~ (<<y, x>> \in Below)
  BY <1>2, WFMin
<1>5. ASSUME NEW y \in T PROVE x <= y
  <2>1. x \in Nat /\ y \in Nat
    OBVIOUS
  <2>2. ~ (y < x)
    BY <1>3, <1>4, <2>1, Zenon
  <2>3. QED
    BY <2>1, <2>2
<1>6. QED
  BY <1>5

LEMMA UpTo ==
    ASSUME NEW n \in Nat, NEW S, 0 \in S, \A k \in 1..n : k - 1 \in S => k \in S
    PROVE  \A k \in 0..n : k \in S
<1> DEFINE Bad == {k \in Nat : k \in 0..n /\ k \notin S}
<1>1. CASE Bad # {}
  <2>1. PICK m \in Bad : \A k \in Bad : m <= k
    <3>1. Bad \in SUBSET Nat
      OBVIOUS
    <3>2. QED
      BY <1>1, <3>1, LeastNumber
  <2>2. m # 0 /\ m \in 1..n /\ m - 1 \in Nat /\ m - 1 \in 0..n /\ ~ (m <= m - 1)
    BY <2>1
  <2>3. m - 1 \in S
    BY <2>1, <2>2
  <2>4. QED
    BY <2>1, <2>2, <2>3
<1>2. QED
  BY <1>1

Joins(h, fs, S, n) ==
    h \in [0..n -> Seq(S)] /\ h[0] = << >> /\ \A k \in 1..n : h[k] = h[k - 1] \o fs[k]

LEMMA JoinsExist ==
    ASSUME NEW S, NEW n \in Nat, NEW fs, \A k \in 1..n : fs[k] \in Seq(S)
    PROVE  \E h : Joins(h, fs, S, n)
<1> DEFINE T == {k \in 0..n : \E h : Joins(h, fs, S, k)}
<1>1. 0 \in T
  <2>1. PICK h : h = [k \in 0..0 |-> << >>]
    OBVIOUS
  <2>2. Joins(h, fs, S, 0)
    BY <2>1 DEF Joins
  <2>3. QED
    BY <2>2
<1>2. ASSUME NEW k \in 1..n, k - 1 \in T PROVE k \in T
  <2>1. PICK g : Joins(g, fs, S, k - 1)
    BY <1>2
  <2>2. PICK x : x = g[k - 1] \o fs[k]
    OBVIOUS
  <2>3. g[k - 1] \in Seq(S) /\ k - 1 \in 0..(k - 1)
    BY <2>1 DEF Joins
  <2>4. x \in Seq(S)
    <3>1. PICK y \in Seq(S), z \in Seq(S) : y = g[k - 1] /\ z = fs[k]
      BY <2>3
    <3>2. y \o z \in Seq(S)
      OBVIOUS
    <3>3. QED
      BY <2>2, <3>1, <3>2
  <2>5. PICK h : h = [i \in 0..k |-> IF i = k THEN x ELSE g[i]]
    OBVIOUS
  <2>6. h \in [0..k -> Seq(S)] /\ h[0] = << >>
    BY <2>1, <2>4, <2>5 DEF Joins
  <2>7. ASSUME NEW i \in 1..k PROVE h[i] = h[i - 1] \o fs[i]
    <3>1. CASE i = k
      <4>1. h[i] = x /\ h[i - 1] = g[k - 1]
        BY <2>5, <3>1
      <4>2. QED
        BY <2>2, <3>1, <4>1
    <3>2. CASE i # k
      <4>1. i \in 1..(k - 1) /\ h[i] = g[i] /\ h[i - 1] = g[i - 1]
        BY <2>5, <3>2
      <4>2. QED
        BY <2>1, <4>1 DEF Joins
    <3>3. QED
      BY <3>1, <3>2
  <2>8. Joins(h, fs, S, k)
    BY <2>6, <2>7 DEF Joins
  <2>9. QED
    BY <2>8
<1>3. n \in T
  <2>1. \A k \in 1..n : k - 1 \in T => k \in T
    BY <1>2
  <2> HIDE DEF T
  <2>2. \A k \in 0..n : k \in T
    BY <1>1, <2>1, UpTo
  <2>3. QED
    BY <2>2
<1> HIDE DEF T
<1>4. QED
  BY <1>3 DEF T

LEMMA SameJoins ==
    ASSUME NEW S, NEW n \in Nat, NEW m \in Nat, m <= n, NEW fs, NEW gs, \A k \in 1..m : fs[k] = gs[k],
           NEW g, NEW h, Joins(g, fs, S, m), Joins(h, gs, S, n)
    PROVE  g[m] = h[m]
<1> DEFINE T == {k \in 0..m : g[k] = h[k]}
<1>1. 0 \in T
  BY DEF Joins
<1>2. ASSUME NEW k \in 1..m, k - 1 \in T PROVE k \in T
  <2>1. k \in 1..n /\ k \in 0..m /\ g[k - 1] = h[k - 1]
    BY <1>2
  <2>2. g[k] = g[k - 1] \o fs[k] /\ h[k] = h[k - 1] \o gs[k]
    BY <2>1 DEF Joins
  <2>3. QED
    BY <2>1, <2>2
<1> HIDE DEF T
<1>3. m \in T
  BY <1>1, <1>2, UpTo
<1>4. QED
  BY <1>3 DEF T

LEMMA FlatJoins ==
    ASSUME NEW S, NEW fs \in Seq(Seq(S)), NEW n \in Nat, n = Len(fs)
    PROVE  \E h : Joins(h, fs, S, n) /\ W!FlattenSeq(fs) = h[n]
<1> DEFINE Is(f) == f = [i \in 1..Len(fs) |-> IF i = 1 THEN fs[i] ELSE f[i - 1] \o fs[i]]
           flat == CHOOSE f : Is(f)
<1>1. \A k \in 1..n : fs[k] \in Seq(S)
  OBVIOUS
<1>2. PICK h : Joins(h, fs, S, n)
  BY <1>1, JoinsExist
<1>3. h[0] = << >> /\ \A k \in 1..n : h[k] = h[k - 1] \o fs[k]
  BY <1>2 DEF Joins
<1>4. CASE n = 0
  <2>1. Len(fs) = 0 /\ fs = << >>
    <3>1. Len(fs) = 0
      BY <1>4
    <3>2. QED
      BY <3>1
  <2>2. W!FlattenSeq(fs) = fs
    BY <2>1 DEF W!FlattenSeq
  <2>3. QED
    BY <1>2, <1>3, <1>4, <2>1, <2>2
<1>5. CASE n # 0
  <2>1. ASSUME NEW k \in 1..n, k = 1 PROVE h[k] = fs[k]
    <3>1. h[k] = h[0] \o fs[k] /\ fs[k] \in Seq(S)
      <4>1. h[k] = h[k - 1] \o fs[k] /\ fs[k] \in Seq(S)
        BY <1>1, <1>3
      <4>2. k - 1 = 0
        BY <2>1
      <4>3. QED
        BY <4>1, <4>2
    <3>2. PICK x \in Seq(S) : x = fs[k]
      BY <3>1
    <3>3. << >> \o x = x
      OBVIOUS
    <3>4. QED
      BY <1>3, <3>1, <3>2, <3>3
  <2>2. PICK f : f = [i \in 1..n |-> h[i]]
    OBVIOUS
  <2>3. ASSUME NEW i \in 1..n PROVE f[i] = IF i = 1 THEN fs[i] ELSE f[i - 1] \o fs[i]
    <3>1. CASE i = 1
      BY <2>1, <2>2, <3>1
    <3>2. CASE i # 1
      <4>1. f[i] = h[i] /\ f[i - 1] = h[i - 1]
        BY <2>2, <3>2
      <4>2. h[i] = h[i - 1] \o fs[i]
        BY <1>3
      <4>3. QED
        BY <3>2, <4>1, <4>2
    <3>3. QED
      BY <3>1, <3>2
  <2>4. Is(f)
    BY <2>2, <2>3
  <2>5. Is(flat)
    BY <2>4
  <2>6. W!FlattenSeq(fs) = flat[n]
    BY <1>5 DEF W!FlattenSeq
  <2> HIDE DEF flat
  <2>7. \A i \in 1..n : flat[i] = IF i = 1 THEN fs[i] ELSE flat[i - 1] \o fs[i]
    BY <2>5
  <2> DEFINE T == {k \in 0..n : k # 0 => flat[k] = h[k]}
  <2>8. 0 \in T
    OBVIOUS
  <2>9. ASSUME NEW k \in 1..n, k - 1 \in T PROVE k \in T
    <3>1. CASE k = 1
      BY <2>1, <2>7, <3>1
    <3>2. CASE k # 1
      <4>1. flat[k] = flat[k - 1] \o fs[k] /\ h[k] = h[k - 1] \o fs[k]
        BY <1>3, <2>7, <3>2
      <4>2. flat[k - 1] = h[k - 1] /\ k \in 0..n
        BY <2>9, <3>2
      <4>3. flat[k] = h[k]
        BY <4>1, <4>2
      <4>4. QED
        BY <4>2, <4>3
    <3>3. QED
      BY <3>1, <3>2
  <2> HIDE DEF T
  <2>10. n \in T
    <3>1. \A k \in 1..n : k - 1 \in T => k \in T
      BY <2>9
    <3>2. \A k \in 0..n : k \in T
      BY <2>8, <3>1, UpTo
    <3>3. QED
      BY <3>2
  <2>11. flat[n] = h[n]
    BY <1>5, <2>10 DEF T
  <2>12. QED
    BY <1>2, <2>6, <2>11
<1>6. QED
  BY <1>4, <1>5

LEMMA FlatKind == ASSUME NEW S, NEW fs \in Seq(Seq(S)) PROVE W!FlattenSeq(fs) \in Seq(S)
<1>1. PICK n \in Nat : n = Len(fs)
  OBVIOUS
<1>2. PICK h : Joins(h, fs, S, n) /\ W!FlattenSeq(fs) = h[n]
  BY <1>1, FlatJoins
<1>3. QED
  BY <1>2 DEF Joins

LEMMA FlatGrows ==
    ASSUME NEW S, NEW fs \in Seq(Seq(S)), NEW x \in Seq(S)
    PROVE  W!FlattenSeq(Append(fs, x)) = W!FlattenSeq(fs) \o x
<1>1. PICK gs : gs = Append(fs, x)
  OBVIOUS
<1>2. PICK n \in Nat : n = Len(fs)
  OBVIOUS
<1>3. PICK m \in Nat : m = n + 1
  OBVIOUS
<1>4. gs \in Seq(Seq(S)) /\ m = Len(gs) /\ gs[m] = x /\ \A k \in 1..n : fs[k] = gs[k]
  BY <1>1, <1>2, <1>3
<1>5. n <= m /\ m \in 1..m /\ m - 1 = n
  BY <1>3
<1>6. PICK h : Joins(h, fs, S, n) /\ W!FlattenSeq(fs) = h[n]
  BY <1>2, FlatJoins
<1>7. PICK g : Joins(g, gs, S, m) /\ W!FlattenSeq(gs) = g[m]
  BY <1>4, FlatJoins
<1>8. h[n] = g[n]
  BY <1>4, <1>5, <1>6, <1>7, SameJoins
<1>9. g[m] = g[n] \o gs[m]
  BY <1>5, <1>7 DEF Joins
<1>10. QED
  BY <1>1, <1>4, <1>6, <1>7, <1>8, <1>9

-----------------------------------------------------------------------------
(* A request in a vendor's form: what has been appended for the first k      *)
(* messages holds their calls, and their results behind them.                *)

AnyPart == [kind : {"text", "image_base64", "image_url", "call", "result"}, key : STRING]
Plain == {p \in AnyPart : p.kind # "result"}
Roles == {"system", "user", "assistant", "tool", "model", "function"}
InForm(S) == [role : Roles, parts : Seq(S)]
PartsOf(ws) == [i \in DOMAIN ws |-> ws[i].parts]
All(ws) == W!FlattenSeq(PartsOf(ws))
Results(ps) == {i \in DOMAIN ps : ps[i].kind = "result"}

\* Google's form ties the two by the function's name, the others by an identifier.
CallKey(c, byName) == IF byName THEN c.name ELSE c.id
ResultKey(m, byName) == IF byName THEN m.name ELSE m.callID
HasCall(ps, c, byName) == \E x \in DOMAIN ps : ps[x] = W!Part("call", CallKey(c, byName))

Says(m, ps, byName) ==
    /\ ps \in Seq(AnyPart)
    /\ \A c \in DOMAIN m.calls : HasCall(ps, m.calls[c], byName)
    /\ Results(ps) = IF m.role = "tool" THEN {1} ELSE {}
    /\ m.role = "tool" => ps[1] = W!Part("result", ResultKey(m, byName))

Tied(ps) == \A r \in Results(ps) : \E c \in 1..(r - 1) : ps[c] = W!Part("call", ps[r].key)
GivenBy(ms, k) == {j \in 1..k : ms[j].role = "tool"}
Kept(ps, ms, k, byName) ==
    /\ ps \in Seq(AnyPart) /\ Tied(ps)
    /\ \A j \in 1..k : \A c \in DOMAIN ms[j].calls : HasCall(ps, ms[j].calls[c], byName)
    /\ Cardinality(Results(ps)) = Cardinality(GivenBy(ms, k))

LEMMA PartsKind ==
    ASSUME NEW S, NEW ws \in Seq(InForm(S))
    PROVE  PartsOf(ws) \in Seq(Seq(S)) /\ All(ws) \in Seq(S)
<1>1. PICK E : E = InForm(S)
  OBVIOUS
<1>2. PICK n \in Nat : n = Len(ws) /\ DOMAIN ws = 1..n /\ \A k \in 1..n : ws[k] \in E
  BY <1>1
<1>3. \A k \in 1..n : ws[k].parts \in Seq(S)
  BY <1>1, <1>2 DEF InForm
<1>4. PartsOf(ws) \in Seq(Seq(S))
  BY <1>2, <1>3 DEF PartsOf
<1>5. QED
  BY <1>4, FlatKind DEF All

LEMMA PartsGrow ==
    ASSUME NEW S, NEW ws \in Seq(InForm(S)), NEW w \in InForm(S)
    PROVE  All(Append(ws, w)) = All(ws) \o w.parts
<1>1. PICK E : E = InForm(S)
  OBVIOUS
<1>2. PICK n \in Nat : n = Len(ws) /\ DOMAIN ws = 1..n /\ \A k \in 1..n : ws[k] \in E
  BY <1>1
<1>3. PICK ds : ds = Append(ws, w)
  OBVIOUS
<1>4. DOMAIN ds = 1..(n + 1) /\ ds[n + 1] = w /\ \A k \in 1..n : ds[k] = ws[k]
  BY <1>1, <1>2, <1>3
<1>5. PICK fs : fs = PartsOf(ws)
  OBVIOUS
<1>6. fs \in Seq(Seq(S)) /\ fs = [k \in 1..n |-> ws[k].parts]
  BY <1>2, <1>5, PartsKind DEF PartsOf
<1>7. PICK x : x = w.parts
  OBVIOUS
<1>8. x \in Seq(S)
  BY <1>7 DEF InForm
<1>9. PartsOf(ds) = [k \in 1..(n + 1) |-> ds[k].parts]
  BY <1>4 DEF PartsOf
<1>10. PartsOf(ds) = Append(fs, x)
  <2>1. PICK gs : gs = Append(fs, x)
    OBVIOUS
  <2>2. Len(fs) = n
    BY <1>6
  <2>3. gs = [k \in 1..(n + 1) |-> gs[k]] /\ gs[n + 1] = x /\ \A k \in 1..n : gs[k] = fs[k]
    BY <1>6, <1>8, <2>1, <2>2
  <2>4. \A k \in 1..(n + 1) : gs[k] = ds[k].parts
    <3>1. ASSUME NEW k \in 1..(n + 1) PROVE gs[k] = ds[k].parts
      <4>1. CASE k = n + 1
        BY <1>4, <1>7, <2>3, <4>1
      <4>2. CASE k # n + 1
        <5>1. k \in 1..n
          BY <4>2
        <5>2. gs[k] = fs[k] /\ ds[k] = ws[k] /\ fs[k] = ws[k].parts
          BY <1>4, <1>6, <2>3, <5>1
        <5>3. QED
          BY <5>2
      <4>3. QED
        BY <4>1, <4>2
    <3>2. QED
      BY <3>1
  <2>5. gs = PartsOf(ds)
    BY <1>9, <2>3, <2>4
  <2>6. QED
    BY <2>1, <2>5
<1>11. QED
  BY <1>3, <1>5, <1>6, <1>7, <1>8, <1>10, FlatGrows DEF All

\* Where the elements of two sequences are when one is put behind the other.
LEMMA Behind ==
    ASSUME NEW S, NEW ps \in Seq(S), NEW qs \in Seq(S), NEW n \in Nat, n = Len(ps), NEW m \in Nat, m = Len(qs)
    PROVE  /\ ps \o qs \in Seq(S) /\ DOMAIN (ps \o qs) = 1..(n + m) /\ DOMAIN ps = 1..n /\ DOMAIN qs = 1..m
           /\ \A i \in 1..n : (ps \o qs)[i] = ps[i] /\ i \in 1..(n + m)
           /\ \A i \in 1..m : (ps \o qs)[n + i] = qs[i] /\ n + i \in 1..(n + m)
           /\ \A i \in 1..(n + m) : i \in 1..n \/ (i - n \in 1..m /\ i = n + (i - n))
OBVIOUS

LEMMA KeptGrows ==
    ASSUME NEW ms \in Requests, NEW k \in DOMAIN ms, NEW byName,
           NEW ps, NEW qs, Kept(ps, ms, k - 1, byName), Says(ms[k], qs, byName)
    PROVE  Kept(ps \o qs, ms, k, byName)
<1>1. PICK all : all = ps \o qs
  OBVIOUS
<1>2. PICK n \in Nat, m \in Nat : n = Len(ps) /\ m = Len(qs)
  BY DEF Kept, Says
<1>3. /\ all \in Seq(AnyPart) /\ DOMAIN all = 1..(n + m) /\ DOMAIN ps = 1..n /\ DOMAIN qs = 1..m
      /\ \A i \in 1..n : all[i] = ps[i] /\ i \in 1..(n + m)
      /\ \A i \in 1..m : all[n + i] = qs[i] /\ n + i \in 1..(n + m)
      /\ \A i \in 1..(n + m) : i \in 1..n \/ (i - n \in 1..m /\ i = n + (i - n))
  <2>1. PICK S : S = AnyPart
    OBVIOUS
  <2>2. ps \in Seq(S) /\ qs \in Seq(S)
    BY <2>1 DEF Kept, Says
  <2>3. QED
    BY <1>1, <1>2, <2>1, <2>2, Behind
<1>4. k \in Nat \ {0} /\ k \in 1..k /\ 1..k = 1..(k - 1) \cup {k} /\ \A j \in 1..(k - 1) : j \in 1..k
  <2>1. PICK E : E = W!Message
    OBVIOUS
  <2>2. ms \in Seq(E)
    BY <2>1, WireAssumption DEF W!WireAssumption
  <2>3. k \in Nat \ {0}
    BY <2>2
  <2>4. QED
    BY <2>3
<1>5. ASSUME NEW j \in 1..k, NEW c \in DOMAIN ms[j].calls PROVE HasCall(all, ms[j].calls[c], byName)
  <2>1. CASE j = k
    <3>1. PICK x \in 1..m : qs[x] = W!Part("call", CallKey(ms[j].calls[c], byName))
      BY <1>3, <1>5, <2>1 DEF Says, HasCall
    <3>2. n + x \in DOMAIN all /\ all[n + x] = qs[x]
      BY <1>3
    <3>3. QED
      BY <3>1, <3>2 DEF HasCall
  <2>2. CASE j # k
    <3>1. j \in 1..(k - 1)
      BY <1>4, <2>2
    <3>2. PICK x \in 1..n : ps[x] = W!Part("call", CallKey(ms[j].calls[c], byName))
      BY <1>3, <3>1 DEF Kept, HasCall
    <3>3. x \in DOMAIN all /\ all[x] = ps[x]
      BY <1>3
    <3>4. QED
      BY <3>2, <3>3 DEF HasCall
  <2>3. QED
    BY <2>1, <2>2
<1>6. Results(all) = Results(ps) \cup IF ms[k].role = "tool" THEN {n + 1} ELSE {}
  <2>1. \A i \in 1..n : i \in Results(all) <=> i \in Results(ps)
    BY <1>3 DEF Results
  <2>2. \A i \in 1..m : n + i \in Results(all) <=> i \in Results(qs)
    BY <1>3 DEF Results
  <2>3. Results(ps) \subseteq 1..n /\ Results(qs) \subseteq 1..m /\ Results(all) \subseteq 1..(n + m)
    BY <1>3 DEF Results
  <2>4. Results(qs) = IF ms[k].role = "tool" THEN {1} ELSE {}
    BY DEF Says
  <2>5. ASSUME NEW i \in Results(all) PROVE i \in Results(ps) \/ (ms[k].role = "tool" /\ i = n + 1)
    <3>1. i \in 1..(n + m)
      BY <2>3
    <3>2. CASE i \in 1..n
      BY <2>1, <3>2
    <3>3. CASE i - n \in 1..m /\ i = n + (i - n)
      <4>1. i - n \in Results(qs)
        BY <2>2, <3>3
      <4>2. ms[k].role = "tool" /\ i - n = 1
        BY <2>4, <4>1
      <4>3. QED
        BY <3>3, <4>2
    <3>4. QED
      BY <1>3, <3>1, <3>2, <3>3
  <2>6. ms[k].role = "tool" => n + 1 \in Results(all)
    BY <2>2, <2>3, <2>4
  <2>7. Results(ps) \subseteq Results(all)
    BY <2>1, <2>3
  <2>8. QED
    BY <2>5, <2>6, <2>7
<1>7. Cardinality(Results(all)) = Cardinality(GivenBy(ms, k))
  <2>1. IsFiniteSet(Results(ps)) /\ n + 1 \notin Results(ps)
    <3>1. Results(ps) \subseteq 1..n /\ IsFiniteSet(1..n) /\ n + 1 \notin 1..n
      BY <1>3, FS_Interval DEF Results
    <3>2. QED
      BY <3>1, FS_Subset
  <2>2. IsFiniteSet(GivenBy(ms, k - 1)) /\ k \notin GivenBy(ms, k - 1)
    <3>1. GivenBy(ms, k - 1) \subseteq 1..(k - 1) /\ IsFiniteSet(1..(k - 1)) /\ k \notin 1..(k - 1)
      BY <1>4, FS_Interval DEF GivenBy
    <3>2. QED
      BY <3>1, FS_Subset
  <2>3. GivenBy(ms, k) = GivenBy(ms, k - 1) \cup IF ms[k].role = "tool" THEN {k} ELSE {}
    BY <1>4 DEF GivenBy
  <2>4. Cardinality(Results(ps)) = Cardinality(GivenBy(ms, k - 1))
    BY DEF Kept
  <2>5. CASE ms[k].role = "tool"
    <3>1. Results(all) = Results(ps) \cup {n + 1} /\ GivenBy(ms, k) = GivenBy(ms, k - 1) \cup {k}
      BY <1>6, <2>3, <2>5
    <3>2. /\ Cardinality(Results(ps) \cup {n + 1}) = Cardinality(Results(ps)) + 1
          /\ Cardinality(GivenBy(ms, k - 1) \cup {k}) = Cardinality(GivenBy(ms, k - 1)) + 1
      BY <2>1, <2>2, FS_AddElement
    <3>3. QED
      BY <2>4, <3>1, <3>2
  <2>6. CASE ms[k].role # "tool"
    <3>1. Results(all) = Results(ps) /\ GivenBy(ms, k) = GivenBy(ms, k - 1)
      BY <1>6, <2>3, <2>6
    <3>2. QED
      BY <2>4, <3>1
  <2>7. QED
    BY <2>5, <2>6
<1>8. ASSUME NEW r \in Results(all) PROVE \E c \in 1..(r - 1) : all[c] = W!Part("call", all[r].key)
  <2>1. CASE r \in Results(ps)
    <3>1. PICK c \in 1..(r - 1) : ps[c] = W!Part("call", ps[r].key)
      BY <2>1 DEF Kept, Tied
    <3>2. r \in 1..n
      BY <1>3, <2>1 DEF Results
    <3>3. c \in 1..n
      BY <3>2
    <3>4. all[c] = ps[c] /\ all[r] = ps[r]
      BY <1>3, <3>2, <3>3
    <3>5. QED
      BY <3>1, <3>4
  <2>2. CASE r \notin Results(ps)
    <3>1. ms[k].role = "tool" /\ r = n + 1
      BY <1>6, <2>2
    <3>2. 1 \in Results(qs) /\ qs[1] = W!Part("result", ResultKey(ms[k], byName))
      BY <3>1 DEF Says
    <3>3. 1 \in 1..m
      BY <1>3, <3>2 DEF Results
    <3>4. all[r] = qs[1]
      BY <1>3, <3>1, <3>3
    <3>5. PICK j \in 1..(k - 1) : \E c \in DOMAIN ms[j].calls : W!Answers(ms[k], ms[j].calls[c])
      BY <3>1, WireAssumption DEF W!WireAssumption
    <3>6. PICK c \in DOMAIN ms[j].calls : W!Answers(ms[k], ms[j].calls[c])
      BY <3>5
    <3>7. CallKey(ms[j].calls[c], byName) = ResultKey(ms[k], byName)
      BY <3>6 DEF W!Answers, CallKey, ResultKey
    <3>8. PICK x \in 1..n : ps[x] = W!Part("call", CallKey(ms[j].calls[c], byName))
      BY <1>3 DEF Kept, HasCall
    <3>9. all[r].key = ResultKey(ms[k], byName)
      BY <3>2, <3>4 DEF W!Part
    <3>10. x \in 1..(r - 1) /\ all[x] = ps[x]
      BY <1>3, <3>1
    <3>11. QED
      BY <3>7, <3>8, <3>9, <3>10
  <2>3. QED
    BY <2>1, <2>2
<1>9. QED
  BY <1>1, <1>3, <1>5, <1>7, <1>8 DEF Kept, Tied

LEMMA MessageFacts ==
    ASSUME NEW ms \in Requests, NEW k \in DOMAIN ms
    PROVE  /\ ms[k] \in W!Message /\ ms[k].parts \in Seq(Plain) /\ W!Text(ms[k]) \in Seq(Plain)
           /\ W!Part("text", ms[k].content) \in Plain
           /\ ms[k].calls \in Seq(W!ToolCall) /\ (ms[k].calls # << >> => ms[k].role = "assistant")
<1>1. PICK E : E = W!Message
  OBVIOUS
<1>2. ms \in Seq(E) /\ (ms[k].calls # << >> => ms[k].role = "assistant")
  BY <1>1, WireAssumption DEF W!WireAssumption
<1>3. PICK m \in W!Message : m = ms[k]
  <2>1. ms[k] \in E
    BY <1>2
  <2>2. QED
    BY <1>1, <2>1
<1>4. m.parts \in Seq(W!ContentPart) /\ m.content \in STRING /\ m.calls \in Seq(W!ToolCall)
  BY DEF W!Message
<1>5. W!ContentPart \subseteq Plain
  BY DEF W!ContentPart, Plain, AnyPart
<1>6. m.parts \in Seq(Plain)
  BY <1>4, <1>5
<1>7. W!Part("text", m.content) \in Plain
  BY <1>4 DEF W!Part, Plain, AnyPart
<1>8. W!Text(m) \in Seq(Plain)
  <2>1. PICK p \in Plain : p = W!Part("text", m.content)
    BY <1>7
  <2>2. << >> \in Seq(Plain) /\ <<p>> \in Seq(Plain)
    OBVIOUS
  <2>3. QED
    BY <2>1, <2>2 DEF W!Text
<1>9. QED
  BY <1>2, <1>3, <1>4, <1>6, <1>7, <1>8

LEMMA PlainSaysNothing == ASSUME NEW ps \in Seq(Plain) PROVE ps \in Seq(AnyPart) /\ Results(ps) = {}
<1>1. Plain \subseteq AnyPart /\ \A p \in Plain : p.kind # "result"
  BY DEF Plain
<1>2. \A i \in DOMAIN ps : ps[i] \in Plain
  OBVIOUS
<1>3. QED
  BY <1>1, <1>2 DEF Results

LEMMA SaysPlain ==
    ASSUME NEW m, m.calls = << >>, m.role # "tool", NEW ps \in Seq(Plain), NEW byName
    PROVE  Says(m, ps, byName)
<1>1. DOMAIN m.calls = {}
  OBVIOUS
<1>2. QED
  BY <1>1, PlainSaysNothing DEF Says

LEMMA SaysCalls ==
    ASSUME NEW m, m.calls \in Seq(W!ToolCall), m.role # "tool", NEW ps \in Seq(Plain), NEW byName,
           NEW qs, qs = [i \in DOMAIN m.calls |-> W!Part("call", CallKey(m.calls[i], byName))]
    PROVE  Says(m, ps \o qs, byName)
<1>1. PICK C, cs : C = W!ToolCall /\ cs = m.calls
  OBVIOUS
<1>2. cs \in Seq(C)
  BY <1>1
<1>3. PICK k \in Nat, n \in Nat : k = Len(cs) /\ DOMAIN cs = 1..k /\ n = Len(ps) /\ \A i \in 1..k : cs[i] \in C
  BY <1>2
<1>4. \A i \in 1..k : cs[i].id \in STRING /\ cs[i].name \in STRING
  BY <1>1, <1>3 DEF W!ToolCall
<1>5. \A i \in 1..k : W!Part("call", CallKey(cs[i], byName)) \in Plain
  BY <1>4 DEF W!Part, CallKey, Plain, AnyPart
<1>6. qs \in Seq(Plain) /\ Len(qs) = k
  BY <1>1, <1>3, <1>5
<1>7. PICK all : all = ps \o qs
  OBVIOUS
<1>8. all \in Seq(Plain) /\ \A i \in 1..k : all[n + i] = qs[i] /\ n + i \in DOMAIN all
  BY <1>3, <1>6, <1>7, Behind
<1>9. \A c \in DOMAIN m.calls : HasCall(all, m.calls[c], byName)
  BY <1>1, <1>3, <1>8 DEF HasCall
<1>10. QED
  BY <1>7, <1>8, <1>9, PlainSaysNothing DEF Says

LEMMA SaysResult ==
    ASSUME NEW m, m.calls = << >>, m.role = "tool", NEW byName, ResultKey(m, byName) \in STRING, NEW ps \in Seq(Plain)
    PROVE  Says(m, <<W!Part("result", ResultKey(m, byName))>> \o ps, byName)
<1>1. PICK p : p = W!Part("result", ResultKey(m, byName))
  OBVIOUS
<1>2. p \in AnyPart /\ p.kind = "result"
  BY <1>1 DEF W!Part, AnyPart
<1>3. PICK S : S = AnyPart
  OBVIOUS
<1>4. ps \in Seq(S) /\ <<p>> \in Seq(S) /\ Results(ps) = {}
  BY <1>2, <1>3, PlainSaysNothing
<1>5. PICK n \in Nat : n = Len(ps) /\ DOMAIN ps = 1..n
  BY <1>4
<1>6. PICK all : all = <<p>> \o ps
  OBVIOUS
<1>7. /\ all \in Seq(S) /\ DOMAIN all = 1..(1 + n) /\ all[1] = p
      /\ \A i \in 1..(1 + n) : i = 1 \/ (i - 1 \in 1..n /\ all[i] = ps[i - 1])
  <2>1. Len(<<p>>) = 1 /\ 1 \in Nat /\ <<p>>[1] = p /\ 1 \in 1..1
    OBVIOUS
  <2>2. /\ all \in Seq(S) /\ DOMAIN all = 1..(1 + n)
        /\ \A i \in 1..1 : all[i] = <<p>>[i]
        /\ \A i \in 1..n : all[1 + i] = ps[i]
        /\ \A i \in 1..(1 + n) : i \in 1..1 \/ (i - 1 \in 1..n /\ i = 1 + (i - 1))
    BY <1>4, <1>5, <1>6, <2>1, Behind
  <2>3. all[1] = p
    BY <2>1, <2>2
  <2>4. ASSUME NEW i \in 1..(1 + n), i # 1 PROVE i - 1 \in 1..n /\ all[i] = ps[i - 1]
    <3>1. i - 1 \in 1..n /\ i = 1 + (i - 1)
      BY <2>2, <2>4
    <3>2. all[1 + (i - 1)] = ps[i - 1]
      BY <2>2, <3>1
    <3>3. QED
      BY <3>1, <3>2
  <2>5. QED
    BY <2>2, <2>3, <2>4
<1>8. Results(all) = {1}
  <2>1. 1 \in DOMAIN all
    BY <1>7
  <2>2. \A i \in 1..n : ps[i].kind # "result"
    BY <1>4, <1>5 DEF Results
  <2>3. \A i \in DOMAIN all : all[i].kind = "result" => i = 1
    BY <1>7, <2>2
  <2>4. QED
    BY <1>2, <1>7, <2>1, <2>3 DEF Results
<1>9. DOMAIN m.calls = {}
  OBVIOUS
<1>10. QED
  BY <1>1, <1>3, <1>6, <1>7, <1>8, <1>9 DEF Says

LEMMA OnePart == ASSUME NEW S, NEW p \in S PROVE <<p>> \in Seq(S) /\ <<p>> \o << >> = <<p>>
OBVIOUS

LEMMA SaysForm ==
    ASSUME NEW m, NEW byName, NEW r \in Roles, NEW ps, Says(m, ps, byName), NEW w, w = [role |-> r, parts |-> ps]
    PROVE  w \in InForm(AnyPart) /\ Says(m, w.parts, byName)
<1>1. ps \in Seq(AnyPart)
  BY DEF Says
<1>2. w.parts = ps
  OBVIOUS
<1>3. w \in InForm(AnyPart)
  BY <1>1 DEF InForm
<1>4. QED
  BY <1>2, <1>3

LEMMA OpenAISays ==
    ASSUME NEW ms \in Requests, NEW k \in DOMAIN ms
    PROVE  W!openAIMessage(ms[k]) \in InForm(AnyPart) /\ Says(ms[k], W!openAIMessage(ms[k]).parts, FALSE)
<1>1. PICK m : m = ms[k]
  OBVIOUS
<1>2. /\ m \in W!Message /\ m.parts \in Seq(Plain) /\ W!Text(m) \in Seq(Plain)
      /\ m.calls \in Seq(W!ToolCall) /\ (m.calls # << >> => m.role = "assistant")
  BY <1>1, MessageFacts
<1>3. m.role \in Roles /\ m.callID \in STRING
  BY <1>2 DEF W!Message, Roles
<1>4. PICK said : said = IF m.parts # << >> THEN m.parts ELSE IF m.role = "tool" THEN << >> ELSE W!Text(m)
  OBVIOUS
<1>5. said \in Seq(Plain)
  BY <1>2, <1>4
<1>6. PICK called : called = [i \in DOMAIN m.calls |-> W!Part("call", CallKey(m.calls[i], FALSE))]
  OBVIOUS
<1>7. PICK all : all = (IF m.role = "tool" THEN <<W!Part("result", m.callID)>> ELSE << >>) \o said \o called
  OBVIOUS
<1>8. W!openAIMessage(m) = [role |-> m.role, parts |-> all]
  BY <1>4, <1>6, <1>7 DEF W!openAIMessage, W!Wired, W!Each, W!ById, CallKey
<1>9. Says(m, all, FALSE)
  <2>1. CASE m.role # "tool"
    <3>1. << >> \o said = said
      BY <1>5
    <3>2. all = said \o called
      BY <1>7, <2>1, <3>1
    <3>3. QED
      BY <1>2, <1>5, <1>6, <2>1, <3>2, SaysCalls
  <2>2. CASE m.role = "tool"
    <3>1. m.calls = << >>
      BY <1>2, <2>2
    <3>2. called = << >>
      BY <1>6, <3>1
    <3>3. PICK p : p = W!Part("result", m.callID)
      OBVIOUS
    <3>4. ResultKey(m, FALSE) = m.callID
      BY DEF ResultKey
    <3>5. Says(m, <<p>> \o said, FALSE)
      BY <1>3, <1>5, <2>2, <3>1, <3>3, <3>4, SaysResult
    <3>6. PICK S, ps : S = AnyPart /\ ps = <<p>> \o said
      OBVIOUS
    <3>7. ps \in Seq(S)
      BY <3>5, <3>6 DEF Says
    <3>8. ps \o << >> = ps
      BY <3>7
    <3>9. QED
      BY <1>7, <2>2, <3>2, <3>3, <3>5, <3>6, <3>8
  <2>3. QED
    BY <2>1, <2>2
<1>10. QED
  BY <1>1, <1>3, <1>8, <1>9, SaysForm

LEMMA AnthropicSays ==
    ASSUME NEW ms \in Requests, NEW k \in DOMAIN ms, ms[k].role # "system"
    PROVE  W!anthropicMessage(ms[k]) \in InForm(AnyPart) /\ Says(ms[k], W!anthropicMessage(ms[k]).parts, FALSE)
<1>1. PICK m : m = ms[k]
  OBVIOUS
<1>2. /\ m \in W!Message /\ m.parts \in Seq(Plain) /\ W!Text(m) \in Seq(Plain)
      /\ W!Part("text", m.content) \in Plain
      /\ m.calls \in Seq(W!ToolCall) /\ (m.calls # << >> => m.role = "assistant")
  BY <1>1, MessageFacts
<1>3. m.role \in {"user", "assistant", "tool"} /\ m.callID \in STRING
  BY <1>1, <1>2 DEF W!Message
<1>4. <<W!Part("text", m.content)>> \in Seq(Plain)
  BY <1>2, OnePart
<1>5. PICK called : called = [i \in DOMAIN m.calls |-> W!Part("call", CallKey(m.calls[i], FALSE))]
  OBVIOUS
<1>6. "user" \in Roles /\ "assistant" \in Roles /\ "function" \in Roles
  BY DEF Roles
<1>7. CASE m.role = "user"
  <2>1. PICK ps : ps = IF m.parts # << >> THEN m.parts ELSE <<W!Part("text", m.content)>>
    OBVIOUS
  <2>2. ps \in Seq(Plain) /\ m.calls = << >>
    BY <1>2, <1>4, <1>7, <2>1
  <2>3. Says(m, ps, FALSE)
    BY <1>7, <2>2, SaysPlain
  <2>4. W!anthropicMessage(m) = [role |-> "user", parts |-> ps]
    BY <1>7, <2>1 DEF W!anthropicMessage, W!Wired
  <2>5. QED
    BY <1>1, <1>6, SaysForm, <2>3, <2>4
<1>8. CASE m.role = "assistant"
  <2>1. PICK ps : ps = IF m.calls # << >> THEN W!Text(m) \o called ELSE <<W!Part("text", m.content)>>
    OBVIOUS
  <2>2. W!anthropicMessage(m) = [role |-> "assistant", parts |-> ps]
    BY <1>5, <1>8, <2>1 DEF W!anthropicMessage, W!Wired, W!Each, W!ById, CallKey
  <2>3. Says(m, ps, FALSE)
    BY <1>2, <1>4, <1>5, <1>8, <2>1, SaysCalls, SaysPlain
  <2>4. QED
    BY <1>1, <1>6, SaysForm, <2>2, <2>3
<1>9. CASE m.role = "tool"
  <2>1. PICK p : p = W!Part("result", ResultKey(m, FALSE))
    OBVIOUS
  <2>2. ResultKey(m, FALSE) = m.callID /\ m.calls = << >>
    BY <1>2, <1>9 DEF ResultKey
  <2>3. << >> \in Seq(Plain) /\ <<p>> \o << >> = <<p>>
    BY OnePart
  <2>4. Says(m, <<p>>, FALSE)
    BY <1>3, <1>9, <2>1, <2>2, <2>3, SaysResult
  <2>5. W!anthropicMessage(m) = [role |-> "user", parts |-> <<p>>]
    BY <1>9, <2>1, <2>2 DEF W!anthropicMessage, W!Wired
  <2>6. QED
    BY <1>1, <1>6, SaysForm, <2>4, <2>5
<1>10. QED
  BY <1>3, <1>7, <1>8, <1>9

LEMMA GatherKind ==
    ASSUME NEW S, NEW fs, NEW n \in Nat, DOMAIN fs = 1..n, fs = [k \in 1..n |-> fs[k]], \A k \in 1..n : fs[k] \in Seq(S)
    PROVE  fs \in Seq(Seq(S)) /\ Len(fs) = n /\ W!FlattenSeq(fs) \in Seq(S)
<1>1. fs \in Seq(Seq(S)) /\ Len(fs) = n
  OBVIOUS
<1>2. QED
  BY <1>1, FlatKind

LEMMA GoogleSays ==
    ASSUME NEW ms \in Requests, NEW k \in DOMAIN ms
    PROVE  W!googleContent(ms[k]) \in InForm(AnyPart) /\ Says(ms[k], W!googleContent(ms[k]).parts, TRUE)
<1>1. PICK m : m = ms[k]
  OBVIOUS
<1>2. /\ m \in W!Message /\ m.parts \in Seq(Plain) /\ W!Text(m) \in Seq(Plain)
      /\ m.calls \in Seq(W!ToolCall) /\ (m.calls # << >> => m.role = "assistant")
  BY <1>1, MessageFacts
<1>3. m.name \in STRING
  BY <1>2 DEF W!Message
<1>4. "user" \in Roles /\ "assistant" \in Roles /\ "function" \in Roles
  BY DEF Roles
<1>5. CASE m.role = "tool"
  <2>1. PICK p : p = W!Part("result", ResultKey(m, TRUE))
    OBVIOUS
  <2>2. ResultKey(m, TRUE) = m.name /\ m.calls = << >>
    BY <1>2, <1>5 DEF ResultKey
  <2>3. << >> \in Seq(Plain) /\ <<p>> \o << >> = <<p>>
    BY OnePart
  <2>4. Says(m, <<p>>, TRUE)
    BY <1>3, <1>5, <2>1, <2>2, <2>3, SaysResult
  <2>5. W!googleContent(m) = [role |-> "function", parts |-> <<p>>]
    BY <1>5, <2>1, <2>2 DEF W!googleContent, W!Wired
  <2>6. QED
    BY <1>1, <1>4, SaysForm, <2>4, <2>5
<1>6. CASE m.role # "tool"
  <2>1. PICK fs : fs = [i \in DOMAIN m.parts |-> IF m.parts[i].kind = "image_url" THEN << >> ELSE <<m.parts[i]>>]
    OBVIOUS
  <2>2. PICK n \in Nat : n = Len(m.parts) /\ DOMAIN m.parts = 1..n /\ \A i \in 1..n : m.parts[i] \in Plain
    BY <1>2
  <2>3. ASSUME NEW i \in 1..n PROVE fs[i] \in Seq(Plain)
    <3>1. fs[i] = << >> \/ fs[i] = <<m.parts[i]>>
      BY <2>1, <2>2
    <3>2. << >> \in Seq(Plain) /\ <<m.parts[i]>> \in Seq(Plain)
      BY <2>2, OnePart
    <3>3. QED
      BY <3>1, <3>2
  <2>4. W!FlattenSeq(fs) \in Seq(Plain)
    <3>1. DOMAIN fs = 1..n /\ fs = [i \in 1..n |-> fs[i]]
      BY <2>1, <2>2
    <3>2. QED
      BY <2>3, <3>1, GatherKind
  <2>5. PICK said : said = W!Text(m) \o W!FlattenSeq(fs)
    OBVIOUS
  <2>6. said \in Seq(Plain)
    <3>1. PICK a \in Seq(Plain), z \in Seq(Plain) : a = W!Text(m) /\ z = W!FlattenSeq(fs)
      BY <1>2, <2>4
    <3>2. a \o z \in Seq(Plain)
      OBVIOUS
    <3>3. QED
      BY <2>5, <3>1, <3>2
  <2>7. PICK called : called = [i \in DOMAIN m.calls |-> W!Part("call", CallKey(m.calls[i], TRUE))]
    OBVIOUS
  <2>8. Says(m, said \o called, TRUE)
    BY <1>2, <1>6, <2>6, <2>7, SaysCalls
  <2>9. PICK r \in Roles : r = IF m.role = "assistant" THEN "model" ELSE "user"
    BY DEF Roles
  <2>10. W!googleContent(m) = [role |-> r, parts |-> said \o called]
    BY <1>6, <2>1, <2>5, <2>7, <2>9 DEF W!googleContent, W!Wired, W!Gather, W!Each, W!ByName, CallKey
  <2>11. QED
    BY <1>1, <1>4, SaysForm, <2>8, <2>10
<1>7. QED
  BY <1>5, <1>6

\* What comes first holds no result; each message then adds what it says.
LEMMA Conversation ==
    ASSUME NEW ms \in Requests, NEW byName, NEW first \in Seq(InForm(Plain)), NEW n \in Nat, n = Len(ms),
           NEW fs, fs = [k \in 1..n |-> fs[k]],
           \A k \in 1..n : \/ fs[k] = << >> /\ ms[k].role = "system"
                           \/ \E w \in InForm(AnyPart) : fs[k] = <<w>> /\ Says(ms[k], w.parts, byName)
    PROVE  Kept(All(first \o W!FlattenSeq(fs)), ms, n, byName)
<1>1. PICK E : E = InForm(AnyPart)
  OBVIOUS
<1>2. DOMAIN ms = 1..n /\ 0 \in 0..n
  <2>1. PICK M : M = W!Message
    OBVIOUS
  <2>2. ms \in Seq(M)
    BY <2>1, WireAssumption DEF W!WireAssumption
  <2>3. QED
    BY <2>2
<1>3. \A k \in 1..n : fs[k] \in Seq(E)
  <2>1. ASSUME NEW k \in 1..n PROVE fs[k] \in Seq(E)
    <3>1. << >> \in Seq(E) /\ \A w \in E : <<w>> \in Seq(E)
      BY OnePart
    <3>2. QED
      BY <1>1, <3>1
  <2>2. QED
    BY <2>1
<1>4. fs \in Seq(Seq(E)) /\ n = Len(fs)
  BY <1>3, GatherKind
<1>5. PICK g : Joins(g, fs, E, n) /\ W!FlattenSeq(fs) = g[n]
  BY <1>4, FlatJoins
<1>6. g[0] = << >> /\ (\A k \in 0..n : g[k] \in Seq(E)) /\ \A k \in 1..n : g[k] = g[k - 1] \o fs[k]
  BY <1>5 DEF Joins
<1>7. first \in Seq(E)
  <2>1. InForm(Plain) \subseteq E
    <3>1. Plain \subseteq AnyPart
      BY DEF Plain
    <3>2. QED
      BY <1>1, <3>1 DEF InForm
  <2>2. QED
    BY <2>1
<1> DEFINE T == {k \in 0..n : Kept(All(first \o g[k]), ms, k, byName)}
<1>8. 0 \in T
  <2>1. first \o g[0] = first
    BY <1>6, <1>7
  <2>2. All(first) \in Seq(Plain)
    BY PartsKind
  <2>3. All(first) \in Seq(AnyPart) /\ Results(All(first)) = {}
    BY <2>2, PlainSaysNothing
  <2>4. GivenBy(ms, 0) = {}
    BY DEF GivenBy
  <2>5. Kept(All(first), ms, 0, byName)
    <3>1. Tied(All(first)) /\ 1..0 = {}
      BY <2>3 DEF Tied
    <3>2. QED
      BY <2>3, <2>4, <3>1 DEF Kept
  <2>6. Kept(All(first \o g[0]), ms, 0, byName)
    BY <2>1, <2>5
  <2>7. QED
    BY <1>2, <2>6
<1>9. ASSUME NEW k \in 1..n, k - 1 \in T PROVE k \in T
  <2>1. PICK ws : ws = g[k - 1]
    OBVIOUS
  <2>2. ws \in Seq(E) /\ g[k] = ws \o fs[k] /\ k \in DOMAIN ms /\ k \in 0..n
    <3>1. k - 1 \in 0..n /\ k \in 0..n
      OBVIOUS
    <3>2. QED
      BY <1>2, <1>6, <2>1, <3>1
  <2>3. Kept(All(first \o ws), ms, k - 1, byName)
    BY <1>9, <2>1
  <2>4. CASE fs[k] = << >> /\ ms[k].role = "system"
    <3>1. g[k] = ws
      BY <2>2, <2>4
    <3>2. ms[k].calls = << >>
      BY <2>2, <2>4, MessageFacts
    <3>3. DOMAIN ms[k].calls = {} /\ 1..k = 1..(k - 1) \cup {k}
      BY <3>2
    <3>4. GivenBy(ms, k) = GivenBy(ms, k - 1)
      BY <2>4, <3>3 DEF GivenBy
    <3>5. Kept(All(first \o ws), ms, k, byName)
      BY <2>3, <3>3, <3>4 DEF Kept
    <3>6. QED
      BY <2>2, <3>1, <3>5
  <2>5. CASE \E w \in InForm(AnyPart) : fs[k] = <<w>> /\ Says(ms[k], w.parts, byName)
    <3>1. PICK w \in E : fs[k] = <<w>> /\ Says(ms[k], w.parts, byName)
      BY <1>1, <2>5
    <3>2. first \o g[k] = Append(first \o ws, w) /\ first \o ws \in Seq(E)
      <4>1. first \o (ws \o <<w>>) = Append(first \o ws, w) /\ first \o ws \in Seq(E)
        BY <1>7, <2>2
      <4>2. QED
        BY <2>2, <3>1, <4>1
    <3>3. All(first \o g[k]) = All(first \o ws) \o w.parts
      BY <1>1, <3>2, PartsGrow
    <3>4. Kept(All(first \o g[k]), ms, k, byName)
      BY <2>2, <2>3, <3>1, <3>3, KeptGrows
    <3>5. QED
      BY <2>2, <3>4
  <2>6. QED
    BY <2>4, <2>5
<1>10. n \in T
  <2>1. \A k \in 1..n : k - 1 \in T => k \in T
    BY <1>9
  <2> HIDE DEF T
  <2>2. \A k \in 0..n : k \in T
    BY <1>8, <2>1, UpTo
  <2>3. QED
    BY <2>2
<1>11. QED
  BY <1>5, <1>10

LEMMA ApartKind == ASSUME NEW ms \in Requests PROVE W!Apart(ms) \in Seq(InForm(Plain))
<1>1. PICK E : E = W!Message
  OBVIOUS
<1>2. ms \in Seq(E)
  BY <1>1, WireAssumption DEF W!WireAssumption
<1>3. PICK n \in Nat : n = Len(ms) /\ DOMAIN ms = 1..n
  BY <1>2
<1>4. PICK Z : Z = InForm(Plain)
  OBVIOUS
<1>5. PICK fs : fs = [k \in 1..n |-> IF ms[k].role = "system" THEN <<W!Wired("system", <<W!Part("text", ms[k].content)>>)>> ELSE << >>]
  OBVIOUS
<1>6. W!Apart(ms) = W!FlattenSeq(fs)
  BY <1>3, <1>5 DEF W!Apart, W!Gather, W!Each
<1>7. ASSUME NEW k \in 1..n PROVE fs[k] \in Seq(Z)
  <2>1. PICK ps : ps = <<W!Part("text", ms[k].content)>>
    OBVIOUS
  <2>2. ps \in Seq(Plain)
    BY <1>3, <2>1, MessageFacts, OnePart
  <2>3. PICK w : w = [role |-> "system", parts |-> ps]
    OBVIOUS
  <2>4. w \in Z
    BY <1>4, <2>2, <2>3 DEF InForm, Roles
  <2>5. << >> \in Seq(Z) /\ <<w>> \in Seq(Z)
    BY <2>4, OnePart
  <2>6. fs[k] = << >> \/ fs[k] = <<w>>
    BY <1>5, <2>1, <2>3 DEF W!Wired
  <2>7. QED
    BY <2>5, <2>6
<1>8. DOMAIN fs = 1..n /\ fs = [k \in 1..n |-> fs[k]]
  BY <1>5
<1>9. W!FlattenSeq(fs) \in Seq(Z)
  BY <1>7, <1>8, GatherKind
<1>10. QED
  BY <1>4, <1>6, <1>9

\* Whoever the vendor is, except for Ollama, the request in its form keeps every
\* call and every result of the conversation.
LEMMA ConvertedKept ==
    ASSUME request \in Requests, vendor \in {"openai", "anthropic", "google"}
    PROVE  Kept(All(W!Converted), request, Len(request), vendor = "google")
<1>1. PICK ms \in Requests : ms = request
  OBVIOUS
<1>2. PICK n \in Nat : n = Len(ms) /\ DOMAIN ms = 1..n
  <2>1. PICK E : E = W!Message
    OBVIOUS
  <2>2. ms \in Seq(E)
    BY <2>1, WireAssumption DEF W!WireAssumption
  <2>3. QED
    BY <2>2
<1>3. PICK Z : Z = InForm(Plain)
  OBVIOUS
<1>4. CASE vendor = "openai"
  <2>1. PICK fs : fs = [k \in 1..n |-> <<W!openAIMessage(ms[k])>>]
    OBVIOUS
  <2>2. W!Converted = W!FlattenSeq(fs)
    BY <1>1, <1>2, <1>4, <2>1 DEF W!Converted, W!convertMessages, W!Gather, W!Each
  <2>3. \A k \in 1..n : \E w \in InForm(AnyPart) : fs[k] = <<w>> /\ Says(ms[k], w.parts, FALSE)
    BY <1>2, <2>1, OpenAISays
  <2>4. W!FlattenSeq(fs) \in Seq(InForm(AnyPart))
    <3>1. PICK G : G = InForm(AnyPart)
      OBVIOUS
    <3>2. \A k \in 1..n : fs[k] \in Seq(G)
      BY <2>3, <3>1, OnePart
    <3>3. DOMAIN fs = 1..n /\ fs = [k \in 1..n |-> fs[k]]
      BY <2>1
    <3>4. QED
      BY <3>1, <3>2, <3>3, GatherKind
  <2>5. << >> \o W!FlattenSeq(fs) = W!FlattenSeq(fs)
    <3>1. PICK G, ws : G = InForm(AnyPart) /\ ws = W!FlattenSeq(fs)
      OBVIOUS
    <3>2. ws \in Seq(G)
      BY <2>4, <3>1
    <3>3. << >> \o ws = ws
      BY <3>2
    <3>4. QED
      BY <3>1, <3>3
  <2>6. << >> \in Seq(InForm(Plain)) /\ fs = [k \in 1..n |-> fs[k]]
    BY <2>1
  <2>7. Kept(All(<< >> \o W!FlattenSeq(fs)), ms, n, FALSE)
    BY <1>2, <2>3, <2>6, Conversation
  <2>8. (vendor = "google") = FALSE
    BY <1>4
  <2>9. QED
    BY <1>1, <1>2, <2>2, <2>5, <2>7, <2>8
<1>5. CASE vendor = "anthropic"
  <2>1. PICK fs : fs = [k \in 1..n |-> IF ms[k].role = "system" THEN << >> ELSE <<W!anthropicMessage(ms[k])>>]
    OBVIOUS
  <2>2. W!Converted = W!Apart(ms) \o W!FlattenSeq(fs)
    BY <1>1, <1>2, <1>5, <2>1 DEF W!Converted, W!buildParams, W!Gather, W!Each
  <2>3. \A k \in 1..n : \/ fs[k] = << >> /\ ms[k].role = "system"
                        \/ \E w \in InForm(AnyPart) : fs[k] = <<w>> /\ Says(ms[k], w.parts, FALSE)
    BY <1>2, <2>1, AnthropicSays
  <2>4. W!Apart(ms) \in Seq(InForm(Plain)) /\ fs = [k \in 1..n |-> fs[k]]
    BY <2>1, ApartKind
  <2>5. Kept(All(W!Apart(ms) \o W!FlattenSeq(fs)), ms, n, FALSE)
    BY <1>2, <2>3, <2>4, Conversation
  <2>6. (vendor = "google") = FALSE
    BY <1>5
  <2>7. QED
    BY <1>1, <1>2, <2>2, <2>5, <2>6
<1>6. CASE vendor = "google"
  <2>1. PICK fs : fs = [k \in 1..n |-> IF ms[k].role = "system" THEN << >> ELSE <<W!googleContent(ms[k])>>]
    OBVIOUS
  <2>2. PICK first : first = IF W!Apart(ms) = << >> THEN << >> ELSE <<W!Last(W!Apart(ms))>>
    OBVIOUS
  <2>3. W!Converted = first \o W!FlattenSeq(fs)
    BY <1>1, <1>2, <1>6, <2>1, <2>2 DEF W!Converted, W!googleRequest, W!Gather, W!Each
  <2>4. \A k \in 1..n : \/ fs[k] = << >> /\ ms[k].role = "system"
                        \/ \E w \in InForm(AnyPart) : fs[k] = <<w>> /\ Says(ms[k], w.parts, TRUE)
    BY <1>2, <2>1, GoogleSays
  <2>5. first \in Seq(Z)
    <3>1. PICK ws : ws = W!Apart(ms)
      OBVIOUS
    <3>2. ws \in Seq(Z)
      BY <1>3, <3>1, ApartKind
    <3>3. ws # << >> => ws[Len(ws)] \in Z
      BY <3>2
    <3>4. << >> \in Seq(Z) /\ (ws # << >> => <<ws[Len(ws)]>> \in Seq(Z))
      BY <3>3, OnePart
    <3>5. QED
      BY <2>2, <3>1, <3>4 DEF W!Last
  <2>6. fs = [k \in 1..n |-> fs[k]]
    BY <2>1
  <2>7. Kept(All(first \o W!FlattenSeq(fs)), ms, n, TRUE)
    BY <1>2, <1>3, <2>4, <2>5, <2>6, Conversation
  <2>8. (vendor = "google") = TRUE
    BY <1>6
  <2>9. QED
    BY <1>1, <1>2, <2>3, <2>7, <2>8
<1>7. QED
  BY <1>4, <1>5, <1>6

\* What was sent is the request in the vendor's form.
RequestInv ==
    /\ vendor \in Vendors /\ request \in Requests
    /\ at # "idle" => sent = W!Converted

LEMMA RequestHolds == W!Spec => []RequestInv
<1>1. W!Init => RequestInv
  BY DEF W!Init, RequestInv
<1>2. RequestInv /\ [W!Next]_W!vars => RequestInv'
  <2> SUFFICES ASSUME RequestInv, [W!Next]_W!vars PROVE RequestInv'
    OBVIOUS
  <2>1. CASE W!Chat \/ W!ChatStream
    <3>1. vendor' = vendor /\ request' = request /\ sent' = W!Converted
      BY <2>1 DEF W!Chat, W!ChatStream, W!Begin, W!input
    <3>2. W!Converted' = W!Converted
      BY <3>1 DEF W!Converted
    <3>3. QED
      BY <3>1, <3>2 DEF RequestInv
  <2>2. CASE ~ (W!Chat \/ W!ChatStream)
    <3>1. vendor' = vendor /\ request' = request /\ sent' = sent /\ (at' # "idle" => at # "idle")
      BY <2>2 DEF W!Next, W!vars, W!input, W!Cancel, W!Respond, W!FailChat, W!TextDelta, W!ThinkingDelta,
             W!CallDelta, W!Comes, W!StreamEnds, W!StreamBreaks, W!StreamRefused, W!Finish
    <3>2. W!Converted' = W!Converted
      BY <3>1 DEF W!Converted
    <3>3. QED
      BY <3>1, <3>2 DEF RequestInv
  <2>3. QED
    BY <2>1, <2>2
<1>3. QED
  BY <1>1, <1>2, PTL DEF W!Spec

LEMMA RequestKeeps == ASSUME RequestInv PROVE W!ResultsKeepTheirCalls
<1> SUFFICES ASSUME at # "idle", vendor # "ollama" PROVE W!ResultsKeepTheirCalls
  BY DEF W!ResultsKeepTheirCalls
<1>1. request \in Requests /\ vendor \in {"openai", "anthropic", "google"} /\ sent = W!Converted
  BY WireAssumption DEF RequestInv, W!WireAssumption
<1>2. PICK all : all = All(sent)
  OBVIOUS
<1>3. Kept(all, request, Len(request), vendor = "google")
  BY <1>1, <1>2, ConvertedKept
<1>4. DOMAIN request = 1..Len(request)
  <2>1. PICK E : E = W!Message
    OBVIOUS
  <2>2. request \in Seq(E)
    BY <1>1, <2>1, WireAssumption DEF W!WireAssumption
  <2>3. QED
    BY <2>2
<1>5. GivenBy(request, Len(request)) = {i \in DOMAIN request : request[i].role = "tool"}
  BY <1>4 DEF GivenBy
<1>6. all = W!FlattenSeq([i \in DOMAIN sent |-> sent[i].parts])
  BY <1>2 DEF All, PartsOf
<1>7. W!Cardinality(Results(all)) = W!Cardinality({i \in DOMAIN request : request[i].role = "tool"})
  <2>1. \A S : W!Cardinality(S) = Cardinality(S)
    BY DEF W!Cardinality, Cardinality
  <2>2. QED
    BY <1>3, <1>5, <2>1 DEF Kept
<1>8. \A r \in Results(all) : \E c \in 1..(r - 1) : all[c] = W!Part("call", all[r].key)
  BY <1>3 DEF Kept, Tied
<1>9. QED
  BY <1>6, <1>7, <1>8 DEF W!ResultsKeepTheirCalls, Results

-----------------------------------------------------------------------------
(* Answers. *)

TextsRead == {p \in DOMAIN events : events[p].kind \in {"text", "thinking"} /\ events[p].read}
Heard == {p \in DOMAIN events : events[p].kind = "text" /\ (events[p].read \/ vendor = "anthropic")}
Under(i) == {p \in DOMAIN events :
               events[p].kind = "call" /\ events[p].read /\ events[p].index = i /\ vendor # "ollama"}

\* What a stream has collected is what has come, in order.
Streamed ==
    /\ W!Lists(content, TextsRead)
    /\ W!Lists(shown, Heard)
    /\ \A i \in W!Indexes : W!Lists(toolMap[i], Under(i))

ResponseInv ==
    /\ W!TypeOK
    /\ at = "idle" => events = << >> /\ content = << >> /\ \A i \in W!Indexes : toolMap[i] = << >>
    /\ at \in {"idle", "asking"} => shown = << >>
    /\ at = "streaming" => Streamed
    /\ W!ResponseIsWhole

LEMMA NothingListed == W!Lists(<< >>, {})
BY DEF W!Lists, W!Range

LEMMA OneMoreListed ==
    ASSUME NEW s \in Seq(Nat), NEW ps, W!Lists(s, ps), NEW x \in Nat, \A p \in ps : p < x
    PROVE  W!Lists(Append(s, x), ps \cup {x})
<1> DEFINE t == Append(s, x)
<1>1. DOMAIN s = 1..Len(s) /\ Len(s) \in Nat /\ ps = {s[i] : i \in DOMAIN s}
  BY DEF W!Lists, W!Range
<1>2. DOMAIN t = 1..(Len(s) + 1) /\ t[Len(s) + 1] = x /\ \A i \in 1..Len(s) : t[i] = s[i]
  BY <1>1
<1> HIDE DEF t
<1>3. {t[i] : i \in DOMAIN t} = ps \cup {x}
  <2>1. ASSUME NEW i \in DOMAIN t PROVE t[i] \in ps \cup {x}
    BY <1>1, <1>2, <2>1
  <2>2. ASSUME NEW p \in ps PROVE \E i \in DOMAIN t : t[i] = p
    <3>1. PICK i \in DOMAIN s : s[i] = p
      BY <1>1, <2>2
    <3>2. i \in DOMAIN t /\ t[i] = p
      BY <1>1, <1>2, <3>1
    <3>3. QED
      BY <3>2
  <2>3. Len(s) + 1 \in DOMAIN t
    BY <1>1, <1>2
  <2>4. QED
    BY <1>2, <2>1, <2>2, <2>3
<1>4. ASSUME NEW i \in DOMAIN t, NEW j \in DOMAIN t, i < j PROVE t[i] < t[j]
  <2>1. i \in 1..Len(s) /\ t[i] = s[i] /\ s[i] \in ps
    BY <1>1, <1>2, <1>4
  <2>2. CASE j = Len(s) + 1
    BY <1>2, <2>1, <2>2
  <2>3. CASE j # Len(s) + 1
    <3>1. j \in DOMAIN s /\ t[j] = s[j]
      BY <1>1, <1>2, <2>3
    <3>2. QED
      BY <1>1, <1>4, <2>1, <3>1 DEF W!Lists
  <2>4. QED
    BY <2>2, <2>3
<1>5. QED
  BY <1>3, <1>4 DEF W!Lists, W!Range, t

\* What an event adds to what has come.
LEMMA OneMoreEvent ==
    ASSUME W!TypeOK, NEW e \in W!Events, W!Comes(e)
    PROVE  /\ W!Number \in Nat
           /\ \A p \in TextsRead \cup Heard \cup UNION {Under(i) : i \in W!Indexes} : p < W!Number
           /\ TextsRead' = TextsRead \cup (IF e.kind \in {"text", "thinking"} /\ e.read THEN {W!Number} ELSE {})
           /\ Heard' = Heard \cup (IF e.kind = "text" /\ (e.read \/ vendor = "anthropic") THEN {W!Number} ELSE {})
           /\ \A i \in W!Indexes :
                Under(i)' = Under(i) \cup (IF e.kind = "call" /\ e.read /\ e.index = i /\ vendor # "ollama"
                                           THEN {W!Number} ELSE {})
<1> DEFINE x == W!Number
           es == events'
<1>1. /\ x \in 1..MaxEvents /\ vendor' = vendor
      /\ DOMAIN es = DOMAIN events \cup {x} /\ es[x] = e
      /\ \A p \in DOMAIN events : p < x /\ es[p] = events[p]
  BY ComesFacts
<1>2. x \in Nat /\ x \notin DOMAIN events
  BY <1>1, AnswerConstants
<1>3. TextsRead' = {p \in DOMAIN es : es[p].kind \in {"text", "thinking"} /\ es[p].read}
      /\ Heard' = {p \in DOMAIN es : es[p].kind = "text" /\ (es[p].read \/ vendor = "anthropic")}
  BY <1>1 DEF TextsRead, Heard
<1>4. \A i \in W!Indexes :
        Under(i)' = {p \in DOMAIN es : es[p].kind = "call" /\ es[p].read /\ es[p].index = i /\ vendor # "ollama"}
  BY <1>1 DEF Under
<1> HIDE DEF x, es
<1>5. TextsRead' = TextsRead \cup (IF e.kind \in {"text", "thinking"} /\ e.read THEN {x} ELSE {})
  BY <1>1, <1>2, <1>3 DEF TextsRead
<1>6. Heard' = Heard \cup (IF e.kind = "text" /\ (e.read \/ vendor = "anthropic") THEN {x} ELSE {})
  BY <1>1, <1>2, <1>3 DEF Heard
<1>7. ASSUME NEW i \in W!Indexes
      PROVE  Under(i)' = Under(i) \cup (IF e.kind = "call" /\ e.read /\ e.index = i /\ vendor # "ollama" THEN {x} ELSE {})
  BY <1>1, <1>2, <1>4 DEF Under
<1>8. \A p \in TextsRead \cup Heard \cup UNION {Under(i) : i \in W!Indexes} : p < x
  <2>1. TextsRead \subseteq DOMAIN events /\ Heard \subseteq DOMAIN events /\ \A i \in W!Indexes : Under(i) \subseteq DOMAIN events
    BY DEF TextsRead, Heard, Under
  <2>2. QED
    BY <1>1, <2>1
<1>9. QED
  BY <1>2, <1>5, <1>6, <1>7, <1>8 DEF x

\* A rising function from 1..n to the n numbers from 0 on takes each in its turn.
LEMMA Climbs ==
    ASSUME NEW n \in Nat, NEW f \in [1..n -> 0..(n - 1)], \A j, k \in 1..n : j < k => f[j] < f[k]
    PROVE  \A j \in 1..n : f[j] = j - 1
<1>1. \A j \in 1..n : f[j] \in Nat /\ f[j] <= n - 1
  OBVIOUS
<1>2. \A j \in 1..n : f[j] >= j - 1
  <2> SUFFICES ASSUME NEW m \in 1..n, f[m] < m - 1 PROVE FALSE
    BY <1>1
  <2> DEFINE low == {j \in 1..n : f[j] < j - 1}
  <2>1. low \in SUBSET Nat /\ low # {}
    <3>1. m \in low
      OBVIOUS
    <3>2. low \subseteq 1..n
      OBVIOUS
    <3>3. 1..n \subseteq Nat
      OBVIOUS
    <3> HIDE DEF low
    <3>4. QED
      BY <3>1, <3>2, <3>3
  <2>2. PICK j \in low : \A k \in low : j <= k
    BY <2>1, LeastNumber
  <2>3. j - 1 \in 1..n /\ ~ (f[j - 1] < j - 2)
    BY <1>1, <2>2
  <2>4. f[j - 1] < f[j]
    BY <2>2, <2>3
  <2>5. QED
    BY <1>1, <2>2, <2>3, <2>4
<1>3. \A j \in 1..n : f[j] <= j - 1
  <2> DEFINE high == {k \in 0..(n - 1) : f[n - k] > n - k - 1}
  <2>1. ASSUME NEW j \in 1..n, f[j] > j - 1 PROVE n - j \in high
    <3>1. n - (n - j) = j
      OBVIOUS
    <3>2. QED
      BY <2>1, <3>1
  <2> SUFFICES ASSUME NEW m \in 1..n, f[m] > m - 1 PROVE FALSE
    BY <1>1
  <2>2. high \in SUBSET Nat /\ high # {}
    <3>1. n - m \in high
      BY <2>1
    <3>2. high \subseteq 0..(n - 1) /\ 0..(n - 1) \subseteq Nat
      OBVIOUS
    <3>3. QED
      BY <3>1, <3>2
  <2>3. PICK k \in high : \A l \in high : k <= l
    BY <2>2, LeastNumber
  <2>4. k \in 0..(n - 1) /\ f[n - k] > n - k - 1 /\ n - k \in 1..n
    BY <2>3
  <2>5. k # 0
    BY <1>1, <2>4
  <2>6. k - 1 \in 0..(n - 1) /\ n - (k - 1) = n - k + 1 /\ n - k + 1 \in 1..n
    BY <2>4, <2>5
  <2>7. f[n - k + 1] <= n - k
    <3>1. k - 1 \notin high
      <4>1. k - 1 \in high => k <= k - 1
        BY <2>3
      <4>2. ~ (k <= k - 1)
        BY <2>4
      <4>3. QED
        BY <4>1, <4>2
    <3>2. ~ (f[n - (k - 1)] > n - (k - 1) - 1)
      BY <2>6, <3>1
    <3>3. QED
      BY <1>1, <2>6, <3>2
  <2>8. f[n - k] < f[n - k + 1]
    BY <2>4, <2>6
  <2>9. QED
    BY <1>1, <2>4, <2>6, <2>7, <2>8
<1>4. QED
  BY <1>1, <1>2, <1>3

\* Under the numbers the API gives, each index holds one call.
LEMMA NumberedFound ==
    ASSUME W!TypeOK, Streamed, W!Numbered, W!Read(DOMAIN events) = DOMAIN events, vendor # "ollama"
    PROVE  /\ W!Present = W!Begun /\ W!Found = W!Begun
           /\ W!Begun = 0..(Cardinality(W!Begun) - 1)
           /\ \A i \in W!Begun : Under(i) = W!FragmentsOf(i)
<1>1. \A p \in DOMAIN events : events[p] \in W!Events /\ events[p].read /\ events[p].index \in W!Indexes
  <2>1. \A p \in DOMAIN events : events[p] \in W!Events
    BY DEF W!TypeOK
  <2>2. \A e \in W!Events : e.index \in W!Indexes
    BY DEF W!Events
  <2>3. QED
    BY <2>1, <2>2 DEF W!Read
<1>2. \A p \in DOMAIN events : events[p].kind = "call" => events[p].index = events[p].call
  BY DEF W!Numbered, W!Come
<1>3. \A i : Under(i) = W!FragmentsOf(i)
  BY <1>1, <1>2 DEF Under, W!FragmentsOf, W!Come
<1>4. W!Begun \subseteq W!Indexes
  BY <1>1, <1>2 DEF W!Begun
<1>5. \A i \in W!Indexes : i \in W!Begun <=> Under(i) # {}
  BY <1>1, <1>2 DEF W!Begun, Under
<1>6. \A i \in W!Indexes : toolMap[i] # << >> <=> Under(i) # {}
  <2>1. ASSUME NEW i \in W!Indexes PROVE toolMap[i] # << >> <=> Under(i) # {}
    <3>1. toolMap[i] \in Seq(1..MaxEvents) /\ Under(i) = {toolMap[i][k] : k \in DOMAIN toolMap[i]}
      BY <2>1 DEF Streamed, W!Lists, W!Range, W!TypeOK
    <3>2. toolMap[i] # << >> <=> DOMAIN toolMap[i] # {}
      BY <3>1
    <3>3. QED
      BY <3>1, <3>2
  <2>2. QED
    BY <2>1
<1>7. W!Present = W!Begun
  BY <1>4, <1>5, <1>6 DEF W!Present
<1>8. W!Begun = 0..(Cardinality(W!Begun) - 1)
  BY AnswerConstants DEF W!Numbered
<1>9. W!Found = W!Present
  <2>1. Cardinality(W!Present) \in Nat
    BY <1>4, <1>7, AnswerConstants, FS_Subset, FS_CardinalityType
  <2>2. QED
    BY <1>7, <1>8, <2>1, AnswerConstants DEF W!Found
<1>10. QED
  BY <1>3, <1>7, <1>8, <1>9

LEMMA FinishedIsWhole ==
    ASSUME ResponseInv, at = "streaming", NEW whole \in BOOLEAN, W!Finish(whole),
           vendor \in {"openai", "anthropic"} => whole
    PROVE  W!ResponseIsWhole'
<1>1. W!TypeOK /\ Streamed
  BY DEF ResponseInv
<1>2. /\ vendor' = vendor /\ events' = events /\ content' = content /\ ended' = whole /\ at' = "ok"
      /\ shown' = Append(shown, 0) /\ toolCalls' \in W!Collected
  BY DEF W!Finish, W!input, W!Done
<1>3. /\ W!Read(W!Come({"text", "thinking"}))' = TextsRead
      /\ (IF vendor = "anthropic" THEN W!Come({"text"}) ELSE W!Read(W!Come({"text"})))' = Heard
  BY <1>2 DEF TextsRead, Heard, W!Read, W!Come
<1>4. W!Lists(content', TextsRead)
  BY <1>1, <1>2 DEF Streamed
<1>5. shown' # << >> /\ W!Last(shown') = W!Done /\ W!Front(shown') = shown
  <2>1. shown \in Seq(0..MaxEvents)
    BY <1>1 DEF W!TypeOK
  <2>2. /\ shown' # << >> /\ Len(shown') = Len(shown) + 1 /\ shown'[Len(shown) + 1] = 0
        /\ SubSeq(shown', 1, Len(shown)) = shown /\ Len(shown) \in Nat
    BY <1>2, <2>1, AnswerConstants
  <2>3. QED
    BY <2>2 DEF W!Last, W!Front, W!Done
<1>6. PICK n, f :
        /\ n = Cardinality(W!Found) /\ n \in Nat /\ W!Found \subseteq W!Present /\ W!Present \subseteq W!Indexes
        /\ DOMAIN toolCalls' = 1..n
        /\ f \in [1..n -> W!Found] /\ (\A j, k \in 1..n : j < k => f[j] < f[k])
        /\ \A j \in 1..n : toolCalls'[j] = toolMap[f[j]]
  BY <1>1, <1>2, CollectedKind
<1>7. ASSUME NEW j \in 1..n
      PROVE  /\ f[j] \in W!Indexes /\ W!Lists(toolCalls'[j], Under(f[j])) /\ Under(f[j]) # {}
             /\ Under(f[j]) \subseteq W!Read(W!Come({"call"}))
  <2>1. f[j] \in W!Found /\ f[j] \in W!Indexes /\ toolMap[f[j]] # << >> /\ toolCalls'[j] = toolMap[f[j]]
    BY <1>6, <1>7 DEF W!Present
  <2>2. toolMap[f[j]] \in Seq(1..MaxEvents) /\ W!Lists(toolMap[f[j]], Under(f[j]))
    BY <1>1, <2>1 DEF Streamed, W!TypeOK
  <2>3. Under(f[j]) # {}
    <3>1. PICK s \in Seq(1..MaxEvents) : s = toolMap[f[j]] /\ s # << >>
      BY <2>1, <2>2
    <3>2. 1 \in DOMAIN s /\ Under(f[j]) = {s[k] : k \in DOMAIN s}
      BY <2>2, <3>1 DEF W!Lists, W!Range
    <3>3. QED
      BY <3>2
  <2>4. Under(f[j]) \subseteq W!Read(W!Come({"call"}))
    BY DEF Under, W!Read, W!Come
  <2>5. QED
    BY <2>1, <2>2, <2>3, <2>4
<1>8. \A j, k \in 1..n : j # k => Under(f[j]) \cap Under(f[k]) = {}
  <2>1. ASSUME NEW j \in 1..n, NEW k \in 1..n, j # k PROVE f[j] # f[k]
    <3>1. f[j] \in Nat /\ f[k] \in Nat
      BY <1>7, AnswerConstants
    <3>2. j < k \/ k < j
      BY <1>6, <2>1
    <3>3. QED
      BY <1>6, <3>1, <3>2
  <2>2. QED
    BY <2>1 DEF Under
<1>9. W!Read(W!Come({"call"}))' = W!Read(W!Come({"call"})) /\ (W!Numbered' <=> W!Numbered)
      /\ (W!Read(DOMAIN events))' = W!Read(DOMAIN events) /\ W!Begun' = W!Begun
      /\ \A c : W!FragmentsOf(c)' = W!FragmentsOf(c)
  BY <1>2 DEF W!Read, W!Come, W!Numbered, W!Begun, W!FragmentsOf
<1>10. \A i, j \in DOMAIN toolCalls' :
         /\ \A k, l \in DOMAIN toolCalls'[i] : k < l => toolCalls'[i][k] < toolCalls'[i][l]
         /\ i # j => W!Range(toolCalls'[i]) \cap W!Range(toolCalls'[j]) = {}
         /\ W!Range(toolCalls'[i]) # {} /\ W!Range(toolCalls'[i]) \subseteq W!Read(W!Come({"call"}))'
  <2>1. ASSUME NEW i \in 1..n
        PROVE  /\ W!Range(toolCalls'[i]) = Under(f[i])
               /\ \A k, l \in DOMAIN toolCalls'[i] : k < l => toolCalls'[i][k] < toolCalls'[i][l]
    BY <1>7, <2>1 DEF W!Lists
  <2>2. QED
    BY <1>6, <1>7, <1>8, <1>9, <2>1
<1>11. ASSUME W!Numbered, W!Read(DOMAIN events) = DOMAIN events, vendor # "ollama"
       PROVE  /\ DOMAIN toolCalls' = 1..Cardinality(W!Begun)
              /\ \A i \in DOMAIN toolCalls' : W!Lists(toolCalls'[i], W!FragmentsOf(i - 1))
  <2>1. /\ W!Found = W!Begun /\ W!Begun = 0..(n - 1) /\ n = Cardinality(W!Begun)
        /\ \A i \in W!Begun : Under(i) = W!FragmentsOf(i)
    BY <1>1, <1>6, <1>11, NumberedFound
  <2>2. \A j \in 1..n : f[j] = j - 1
    BY <1>6, <2>1, Climbs
  <2>3. ASSUME NEW j \in 1..n PROVE W!Lists(toolCalls'[j], W!FragmentsOf(j - 1))
    <3>1. j - 1 \in W!Begun
      BY <1>6, <2>1, <2>3
    <3>2. QED
      BY <1>7, <2>1, <2>2, <3>1
  <2>4. QED
    BY <1>6, <2>1, <2>3
<1>12. /\ W!Last(shown') = W!Done
       /\ W!Lists(W!Front(shown'), IF vendor' = "anthropic" THEN W!Come({"text"})' ELSE W!Read(W!Come({"text"}))')
  <2>1. W!Lists(shown, Heard)
    BY <1>1 DEF Streamed
  <2>2. QED
    BY <1>3, <1>5, <2>1
<1>13. QED
  <2>1. vendor' \in {"openai", "anthropic"} => ended'
    BY <1>2
  <2>2. W!Lists(content', W!Read(W!Come({"text", "thinking"}))')
    BY <1>3, <1>4
  <2>3. W!Numbered' /\ (W!Read(DOMAIN events))' = DOMAIN events' /\ (vendor' = "ollama" => shown' = << >>) =>
          /\ DOMAIN toolCalls' = 1..W!Cardinality(W!Begun')
          /\ \A i \in DOMAIN toolCalls' : W!Lists(toolCalls'[i], W!FragmentsOf(i - 1)')
    BY <1>2, <1>5, <1>9, <1>11, AnswerConstants
  <2>4. QED
    BY <1>5, <1>10, <1>12, <2>1, <2>2, <2>3 DEF W!ResponseIsWhole

LEMMA ResponseStays ==
    ASSUME ResponseInv, W!TypeOK',
           UNCHANGED <<vendor, events, ended, content, toolMap, toolCalls, shown, at>>
    PROVE  ResponseInv'
<1>1. TextsRead' = TextsRead /\ Heard' = Heard /\ \A i \in W!Indexes : Under(i)' = Under(i)
  BY DEF TextsRead, Heard, Under
<1>2. Streamed => Streamed'
  BY <1>1 DEF Streamed
<1>3. /\ W!Read(W!Come({"text", "thinking"}))' = W!Read(W!Come({"text", "thinking"}))
      /\ W!Come({"text"})' = W!Come({"text"}) /\ W!Read(W!Come({"text"}))' = W!Read(W!Come({"text"}))
      /\ W!Read(W!Come({"call"}))' = W!Read(W!Come({"call"})) /\ (W!Numbered' <=> W!Numbered)
      /\ (W!Read(DOMAIN events))' = W!Read(DOMAIN events) /\ W!Begun' = W!Begun
      /\ \A c : W!FragmentsOf(c)' = W!FragmentsOf(c)
  BY DEF W!Read, W!Come, W!Numbered, W!Begun, W!FragmentsOf
<1>4. W!ResponseIsWhole'
  BY <1>3 DEF ResponseInv, W!ResponseIsWhole
<1>5. QED
  BY <1>2, <1>4 DEF ResponseInv

LEMMA ResponseOpens ==
    ASSUME ResponseInv, at = "idle", W!TypeOK', at' \in {"asking", "streaming"},
           UNCHANGED <<W!input, W!answer>>
    PROVE  ResponseInv'
<1>1. /\ vendor' = vendor /\ events' = events /\ content' = content /\ shown' = shown /\ toolMap' = toolMap
      /\ events = << >> /\ content = << >> /\ shown = << >> /\ \A i \in W!Indexes : toolMap[i] = << >>
  BY DEF ResponseInv, W!input, W!answer
<1>2. TextsRead' = {} /\ Heard' = {} /\ \A i \in W!Indexes : Under(i)' = {}
  BY <1>1 DEF TextsRead, Heard, Under
<1>3. Streamed'
  BY <1>1, <1>2, NothingListed DEF Streamed
<1>4. QED
  BY <1>1, <1>3 DEF ResponseInv, W!ResponseIsWhole

LEMMA WiderSeq == ASSUME NEW S, NEW T, S \subseteq T, NEW s \in Seq(S) PROVE s \in Seq(T)
<1>1. s \in [1..Len(s) -> S] /\ Len(s) \in Nat
  OBVIOUS
<1>2. s \in [1..Len(s) -> T]
  BY <1>1
<1>3. QED
  BY <1>1, <1>2

LEMMA ResponseGrows ==
    ASSUME ResponseInv, W!TypeOK', NEW e \in W!Events, W!Comes(e),
           content' = IF e.kind \in {"text", "thinking"} /\ e.read THEN Append(content, W!Number) ELSE content,
           shown' = IF e.kind = "text" /\ (e.read \/ vendor = "anthropic") THEN Append(shown, W!Number) ELSE shown,
           \A i \in W!Indexes :
             toolMap'[i] = IF e.kind = "call" /\ e.read /\ e.index = i /\ vendor # "ollama"
                           THEN Append(toolMap[i], W!Number) ELSE toolMap[i]
    PROVE  ResponseInv'
<1>1. W!TypeOK /\ at = "streaming" /\ at' = "streaming" /\ Streamed /\ vendor' = vendor
  BY ComesFacts DEF ResponseInv
<1>2. /\ W!Number \in Nat
      /\ \A p \in TextsRead \cup Heard \cup UNION {Under(i) : i \in W!Indexes} : p < W!Number
      /\ TextsRead' = TextsRead \cup (IF e.kind \in {"text", "thinking"} /\ e.read THEN {W!Number} ELSE {})
      /\ Heard' = Heard \cup (IF e.kind = "text" /\ (e.read \/ vendor = "anthropic") THEN {W!Number} ELSE {})
      /\ \A i \in W!Indexes :
           Under(i)' = Under(i) \cup (IF e.kind = "call" /\ e.read /\ e.index = i /\ vendor # "ollama"
                                      THEN {W!Number} ELSE {})
  BY <1>1, OneMoreEvent
<1>3. content \in Seq(Nat) /\ shown \in Seq(Nat) /\ \A i \in W!Indexes : toolMap[i] \in Seq(Nat)
  <2>1. 1..MaxEvents \subseteq Nat /\ 0..MaxEvents \subseteq Nat
    BY AnswerConstants
  <2>2. QED
    BY <1>1, <2>1, WiderSeq DEF W!TypeOK
<1>4. W!Lists(content', TextsRead')
  <2>1. CASE e.kind \in {"text", "thinking"} /\ e.read
    <3>1. W!Lists(content, TextsRead) /\ \A p \in TextsRead : p < W!Number
      BY <1>1, <1>2 DEF Streamed
    <3>2. W!Lists(Append(content, W!Number), TextsRead \cup {W!Number})
      BY <1>2, <1>3, <3>1, OneMoreListed
    <3>3. content' = Append(content, W!Number) /\ TextsRead' = TextsRead \cup {W!Number}
      BY <1>2, <2>1
    <3>4. QED
      BY <3>2, <3>3
  <2>2. CASE ~ (e.kind \in {"text", "thinking"} /\ e.read)
    <3>1. content' = content /\ TextsRead' = TextsRead
      BY <1>2, <2>2
    <3>2. QED
      BY <1>1, <3>1 DEF Streamed
  <2>3. QED
    BY <2>1, <2>2
<1>5. W!Lists(shown', Heard')
  <2>1. CASE e.kind = "text" /\ (e.read \/ vendor = "anthropic")
    <3>1. W!Lists(shown, Heard) /\ \A p \in Heard : p < W!Number
      BY <1>1, <1>2 DEF Streamed
    <3>2. W!Lists(Append(shown, W!Number), Heard \cup {W!Number})
      BY <1>2, <1>3, <3>1, OneMoreListed
    <3>3. shown' = Append(shown, W!Number) /\ Heard' = Heard \cup {W!Number}
      BY <1>2, <2>1
    <3>4. QED
      BY <3>2, <3>3
  <2>2. CASE ~ (e.kind = "text" /\ (e.read \/ vendor = "anthropic"))
    <3>1. shown' = shown /\ Heard' = Heard
      BY <1>2, <2>2
    <3>2. QED
      BY <1>1, <3>1 DEF Streamed
  <2>3. QED
    BY <2>1, <2>2
<1>6. ASSUME NEW i \in W!Indexes PROVE W!Lists(toolMap'[i], Under(i)')
  <2>1. CASE e.kind = "call" /\ e.read /\ e.index = i /\ vendor # "ollama"
    <3>1. W!Lists(toolMap[i], Under(i)) /\ \A p \in Under(i) : p < W!Number
      BY <1>1, <1>2, <1>6 DEF Streamed
    <3>2. W!Lists(Append(toolMap[i], W!Number), Under(i) \cup {W!Number})
      BY <1>2, <1>3, <3>1, OneMoreListed
    <3>3. toolMap'[i] = Append(toolMap[i], W!Number) /\ Under(i)' = Under(i) \cup {W!Number}
      BY <1>2, <2>1
    <3>4. QED
      BY <3>2, <3>3
  <2>2. CASE ~ (e.kind = "call" /\ e.read /\ e.index = i /\ vendor # "ollama")
    <3>1. toolMap'[i] = toolMap[i] /\ Under(i)' = Under(i)
      BY <1>2, <2>2
    <3>2. QED
      BY <1>1, <3>1 DEF Streamed
  <2>3. QED
    BY <2>1, <2>2
<1>7. Streamed'
  BY <1>4, <1>5, <1>6 DEF Streamed
<1>8. QED
  BY <1>1, <1>7 DEF ResponseInv, W!ResponseIsWhole

LEMMA RespondedIsWhole ==
    ASSUME ResponseInv, W!Respond
    PROVE  W!ResponseIsWhole'
<1>1. PICK n \in 0..MaxEvents, k \in 0..MaxCalls :
        n + k <= MaxEvents /\ \E thoughts \in SUBSET (1..n) : W!parseResponse(n, thoughts, k)
  BY DEF W!Respond
<1>2. /\ n \in Nat /\ k \in Nat
      /\ events' \in Seq(W!Events) /\ Len(events') = n + k /\ DOMAIN events' = 1..(n + k)
      /\ \A p \in 1..n : events'[p].kind \in {"text", "thinking"} /\ events'[p].read
      /\ \A p \in (n + 1)..(n + k) :
           events'[p].kind = "call" /\ events'[p].read /\ events'[p].call = p - n - 1 /\ events'[p].index = p - n - 1
      /\ ended' = TRUE
      /\ content' \in Seq(1..MaxEvents) /\ DOMAIN content' = 1..n /\ \A p \in 1..n : content'[p] = p
      /\ toolCalls' \in Seq(Seq(1..MaxEvents)) /\ DOMAIN toolCalls' = 1..k
      /\ \A p \in 1..k : toolCalls'[p] = <<n + p>>
  <2>1. PICK thoughts \in SUBSET (1..n) : W!parseResponse(n, thoughts, k)
    BY <1>1
  <2>2. QED
    BY <1>1, <2>1, WholeAnswer
<1>3. shown' = << >>
  BY DEF W!Respond, ResponseInv
<1>4. /\ \A p \in DOMAIN events' : p \in 1..n \/ p \in (n + 1)..(n + k)
      /\ \A p \in 1..n : p \in DOMAIN events'
      /\ \A p \in (n + 1)..(n + k) : p \in DOMAIN events'
  BY <1>2
<1>5. W!Read(W!Come({"text", "thinking"}))' = 1..n
  BY <1>2, <1>4 DEF W!Read, W!Come
<1>6. W!Read(W!Come({"call"}))' = (n + 1)..(n + k)
  BY <1>2, <1>4 DEF W!Read, W!Come
<1>7. W!Lists(content', 1..n)
  BY <1>2 DEF W!Lists, W!Range
<1>8. ASSUME NEW i \in 1..k
      PROVE  /\ DOMAIN toolCalls'[i] = {1} /\ toolCalls'[i][1] = n + i /\ n + i \in (n + 1)..(n + k)
             /\ W!Range(toolCalls'[i]) = {n + i}
  <2>1. toolCalls'[i] = <<n + i>>
    BY <1>2
  <2>2. DOMAIN <<n + i>> = {1}
    OBVIOUS
  <2>3. QED
    BY <1>2, <2>1, <2>2 DEF W!Range
<1>9. \A i, j \in DOMAIN toolCalls' :
        /\ \A p, q \in DOMAIN toolCalls'[i] : p < q => toolCalls'[i][p] < toolCalls'[i][q]
        /\ i # j => W!Range(toolCalls'[i]) \cap W!Range(toolCalls'[j]) = {}
        /\ W!Range(toolCalls'[i]) # {} /\ W!Range(toolCalls'[i]) \subseteq W!Read(W!Come({"call"}))'
  <2>1. ASSUME NEW i \in 1..k, NEW j \in 1..k, i # j PROVE n + i # n + j
    BY <1>2, <2>1
  <2>2. ASSUME NEW i \in 1..k, NEW j \in 1..k, i # j PROVE W!Range(toolCalls'[i]) \cap W!Range(toolCalls'[j]) = {}
    BY <1>8, <2>1, <2>2
  <2>3. ASSUME NEW i \in 1..k
        PROVE  /\ \A p, q \in DOMAIN toolCalls'[i] : p < q => toolCalls'[i][p] < toolCalls'[i][q]
               /\ W!Range(toolCalls'[i]) # {} /\ W!Range(toolCalls'[i]) \subseteq W!Read(W!Come({"call"}))'
    <3>1. \A p, q \in DOMAIN toolCalls'[i] : ~ (p < q)
      BY <1>8
    <3>2. QED
      BY <1>6, <1>8, <3>1
  <2>4. QED
    BY <1>2, <2>2, <2>3
<1>10. W!Begun' = 0..(k - 1)
  <2>1. W!Begun' = {events'[p].call : p \in (n + 1)..(n + k)}
    <3>1. {q \in DOMAIN events' : events'[q].kind = "call"} = (n + 1)..(n + k)
      BY <1>2, <1>4
    <3>2. QED
      BY <3>1 DEF W!Begun
  <2>2. ASSUME NEW p \in (n + 1)..(n + k) PROVE events'[p].call \in 0..(k - 1)
    BY <1>2
  <2>3. ASSUME NEW c \in 0..(k - 1) PROVE \E p \in (n + 1)..(n + k) : events'[p].call = c
    <3>1. n + 1 + c \in (n + 1)..(n + k) /\ (n + 1 + c) - n - 1 = c
      BY <1>2
    <3>2. QED
      BY <1>2, <3>1
  <2>4. QED
    BY <2>1, <2>2, <2>3
<1>11. W!Cardinality(W!Begun') = k
  <2>1. Cardinality(0..(k - 1)) = k
    <3>1. k - 1 \in Int /\ 0 \in Int /\ (IF 0 > k - 1 THEN 0 ELSE k - 1 - 0 + 1) = k
      BY <1>2
    <3>2. Cardinality(0..(k - 1)) = IF 0 > k - 1 THEN 0 ELSE k - 1 - 0 + 1
      BY <3>1, FS_Interval, Zenon
    <3>3. QED
      BY <3>1, <3>2
  <2>2. QED
    BY <1>10, <2>1, AnswerConstants
<1>12. \A i \in 1..k : W!Lists(toolCalls'[i], W!FragmentsOf(i - 1)')
  <2>1. ASSUME NEW i \in 1..k PROVE W!FragmentsOf(i - 1)' = {n + i}
    <3>1. PICK c : c = i - 1
      OBVIOUS
    <3>2. W!FragmentsOf(c)' = {p \in DOMAIN events' : events'[p].kind = "call" /\ events'[p].call = c}
      BY DEF W!FragmentsOf, W!Come
    <3>3. \A p \in DOMAIN events' : events'[p].kind = "call" <=> p \in (n + 1)..(n + k)
      BY <1>2, <1>4
    <3>4. \A p \in (n + 1)..(n + k) : p - n - 1 = c <=> p = n + i
      BY <1>2, <3>1
    <3>5. n + i \in (n + 1)..(n + k)
      BY <1>8
    <3>6. W!FragmentsOf(c)' = {n + i}
      <4>1. ASSUME NEW p \in DOMAIN events', events'[p].kind = "call", events'[p].call = c PROVE p = n + i
        BY <1>2, <3>3, <3>4, <4>1
      <4>2. n + i \in DOMAIN events' /\ events'[n + i].kind = "call" /\ events'[n + i].call = c
        BY <1>2, <1>4, <3>4, <3>5
      <4>3. QED
        BY <3>2, <4>1, <4>2
    <3>7. QED
      BY <3>1, <3>6
  <2>2. ASSUME NEW i \in 1..k PROVE W!Lists(toolCalls'[i], {n + i})
    <3>1. \A p, q \in DOMAIN toolCalls'[i] : ~ (p < q)
      BY <1>8
    <3>2. QED
      BY <1>8, <3>1 DEF W!Lists
  <2>3. QED
    BY <2>1, <2>2
<1>13. QED
  <2>1. W!Lists(content', W!Read(W!Come({"text", "thinking"}))')
    BY <1>5, <1>7
  <2>2. DOMAIN toolCalls' = 1..W!Cardinality(W!Begun') /\ \A i \in DOMAIN toolCalls' : W!Lists(toolCalls'[i], W!FragmentsOf(i - 1)')
    BY <1>2, <1>11, <1>12
  <2>3. QED
    BY <1>2, <1>3, <1>9, <2>1, <2>2 DEF W!ResponseIsWhole

LEMMA ResponseHolds == W!Spec => []W!ResponseIsWhole
<1>1. W!Init => ResponseInv
  <2> SUFFICES ASSUME W!Init PROVE ResponseInv
    OBVIOUS
  <2>1. W!TypeOK
    <3>1. WireInv
      BY WireOpens
    <3>2. QED
      BY <3>1 DEF WireInv
  <2>2. QED
    BY <2>1 DEF W!Init, ResponseInv, W!ResponseIsWhole
<1>2. ResponseInv /\ W!TypeOK' /\ [W!Next]_W!vars => ResponseInv'
  <2> SUFFICES ASSUME ResponseInv, W!TypeOK', [W!Next]_W!vars PROVE ResponseInv'
    OBVIOUS
  <2>1. CASE W!Chat \/ W!ChatStream
    <3>1. at = "idle" /\ at' \in {"asking", "streaming"} /\ UNCHANGED <<W!input, W!answer>>
      BY <2>1 DEF W!Chat, W!ChatStream, W!Begin
    <3>2. QED
      BY <3>1, ResponseOpens
  <2>2. CASE W!Cancel \/ UNCHANGED W!vars
    <3>1. /\ vendor' = vendor /\ events' = events /\ ended' = ended /\ content' = content /\ toolMap' = toolMap
          /\ toolCalls' = toolCalls /\ shown' = shown /\ at' = at
      BY <2>2 DEF W!Cancel, W!vars, W!input, W!answer
    <3>2. QED
      BY <3>1, ResponseStays
  <2>3. CASE W!Respond
    <3>1. at' \in {"ok", "error"}
      BY <2>3 DEF W!Respond
    <3>2. QED
      BY <2>3, <3>1, RespondedIsWhole DEF ResponseInv
  <2>4. CASE W!FailChat
    <3>1. at = "asking" /\ at' \in {"asking", "error"} /\ shown' = shown
      BY <2>4 DEF W!FailChat, W!answer
    <3>2. QED
      BY <3>1 DEF ResponseInv, W!ResponseIsWhole
  <2>5. ASSUME NEW read \in BOOLEAN, W!TextDelta(read) PROVE ResponseInv'
    <3>1. PICK e \in W!Events : e.kind = "text" /\ e.read = read /\ W!Comes(e)
      BY <2>5, EventFacts, AnswerConstants DEF W!TextDelta
    <3>2. QED
      BY <2>5, <3>1, ResponseGrows DEF W!TextDelta
  <2>6. ASSUME NEW read \in BOOLEAN, W!ThinkingDelta(read) PROVE ResponseInv'
    <3>1. PICK e \in W!Events : e.kind = "thinking" /\ e.read = read /\ W!Comes(e)
      BY <2>6, EventFacts, AnswerConstants DEF W!ThinkingDelta
    <3>2. QED
      BY <2>6, <3>1, ResponseGrows DEF W!ThinkingDelta
  <2>7. ASSUME NEW c \in W!MadeCalls, NEW i \in W!Indexes, NEW read \in BOOLEAN, W!CallDelta(c, i, read)
        PROVE  ResponseInv'
    <3>1. PICK e \in W!Events : e.kind = "call" /\ e.read = read /\ e.index = i /\ W!Comes(e)
      BY <2>7, EventFacts DEF W!CallDelta
    <3>2. \A j \in W!Indexes :
            toolMap'[j] = IF read /\ i = j /\ vendor # "ollama" THEN Append(toolMap[j], W!Number) ELSE toolMap[j]
      BY <2>7 DEF W!CallDelta, ResponseInv, W!TypeOK
    <3>3. content' = content /\ shown' = shown
      BY <2>7 DEF W!CallDelta
    <3>4. QED
      BY <3>1, <3>2, <3>3, ResponseGrows
  <2>8. CASE W!StreamEnds \/ (W!StreamBreaks /\ vendor \notin {"openai", "anthropic"})
    <3>1. PICK whole \in BOOLEAN : at = "streaming" /\ W!Finish(whole) /\ (vendor \in {"openai", "anthropic"} => whole)
      BY <2>8 DEF W!StreamEnds, W!StreamBreaks
    <3>2. W!ResponseIsWhole'
      BY <3>1, FinishedIsWhole
    <3>3. at' = "ok"
      BY <3>1 DEF W!Finish
    <3>4. QED
      BY <3>2, <3>3 DEF ResponseInv
  <2>9. CASE W!StreamRefused \/ (W!StreamBreaks /\ vendor \in {"openai", "anthropic"})
    <3>1. at' = "error"
      BY <2>9 DEF W!StreamRefused, W!StreamBreaks
    <3>2. QED
      BY <3>1 DEF ResponseInv, W!ResponseIsWhole
  <2>10. QED
    BY <2>1, <2>2, <2>3, <2>4, <2>5, <2>6, <2>7, <2>8, <2>9 DEF W!Next
<1>3. ResponseInv => W!ResponseIsWhole
  BY DEF ResponseInv
<1>4. QED
  BY <1>1, <1>2, <1>3, WireTypes, PTL DEF W!Spec

\* However far down the chain a request has gone, it was asked of each provider
\* for that provider's equivalent of the caller's model.
LEMMA ChainAsksOwn == F!Spec => []F!OwnModel
<1>1. F!Init => F!OwnModel
  BY DEF F!Init, F!OwnModel
<1>2. F!OwnModel /\ F!TypeOK /\ [F!Next]_F!vars => F!OwnModel'
  <2> SUFFICES ASSUME F!OwnModel, F!TypeOK, [F!Next]_F!vars PROVE F!OwnModel'
    OBVIOUS
  <2>1. CASE F!Ask
    <3>1. PICK k \in Nat : k = Len(asked) /\ DOMAIN asked = 1..k
      BY DEF F!TypeOK
    <3>2. asked' = Append(asked, ModelMap[Chain[k + 1]][original]) /\ original' = original
      BY <2>1, <3>1 DEF F!Ask, F!At
    <3>3. DOMAIN asked' = 1..(k + 1) /\ asked'[k + 1] = ModelMap[Chain[k + 1]][original]
          /\ \A i \in 1..k : asked'[i] = asked[i]
      BY <3>1, <3>2 DEF F!TypeOK
    <3>4. \A i \in 1..(k + 1) : i \in 1..k \/ i = k + 1
      BY <3>1
    <3>5. QED
      BY <3>1, <3>2, <3>3, <3>4 DEF F!OwnModel
  <2>2. CASE asked' = asked /\ original' = original
    BY <2>2 DEF F!OwnModel
  <2>3. QED
    BY <2>1, <2>2 DEF F!Next, F!vars, F!StreamDelta, F!Succeed, F!RetriableError, F!FatalError
<1>3. QED
  BY <1>1, <1>2, ChainTypes, PTL DEF F!Spec

\* AskedAsMeant (Chain.Chat and ChatStream of fallback.go; convertMessages and
\* the stream readers of internal/provider): each provider is asked for its
\* own equivalent of the caller's model, every result of the request in the
\* vendor's form comes behind the call it belongs to, and the answer is what came,
\* without the fragments that could not be read or that bear indexes the loop
\* over them does not reach, or, where a broken stream goes unnoticed, shorter.
THEOREM AskedIsAsMeant == GuardsSpec => []AskedAsMeant
<1>1. RequestInv => W!ResultsKeepTheirCalls
  BY RequestKeeps
<1>2. F!OwnModel /\ W!ResultsKeepTheirCalls /\ W!ResponseIsWhole => AskedAsMeant
  BY DEF AskedAsMeant
<1>3. QED
  BY <1>1, <1>2, GuardsApart, ChainAsksOwn, RequestHolds, ResponseHolds, PTL
=============================================================================
