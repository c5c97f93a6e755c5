--------------------------- MODULE CircuitBreaker ---------------------------
(***************************************************************************)
(* internal/circuitbreaker/breaker.go: the breaker of one provider, shared *)
(* by concurrent callers that fetch it from the Registry.  Time is two     *)
(* ages that stop at ResetTimeout, since nothing looks further back.       *)
(***************************************************************************)
EXTENDS Naturals

CONSTANTS Callers, MaxFailures, HalfOpenMax, ResetTimeout, NoBreaker

ASSUME BreakerAssumption ==
    /\ MaxFailures \in Nat \ {0}
    /\ HalfOpenMax \in Nat \ {0}
    /\ ResetTimeout \in Nat \ {0}
    /\ NoBreaker \notin Callers

VARIABLES registry,  \* the breaker Registry.breakers holds for the provider
          b,         \* breakers, named by the caller that created them
          mine,      \* the breaker a caller got from the registry
          pc,
          healthy    \* whether the provider answers

vars == <<registry, b, mine, pc, healthy>>

States == {"closed", "open", "half-open"}

\* sinceFailure and sinceChange are the ages of lastFailure and of
\* lastStateChange; failures stops at MaxFailures, past which every value
\* acts alike.
Breaker == [state : States, failures : 0..MaxFailures, successes : 0..HalfOpenMax,
            sinceFailure : 0..ResetTimeout, sinceChange : 0..ResetTimeout]

\* New and NewWithConfig; the zero lastFailure is long ago.
New == [state |-> "closed", failures |-> 0, successes |-> 0,
        sinceFailure |-> ResetTimeout, sinceChange |-> ResetTimeout]

Least(m, n) == IF m < n THEN m ELSE n
Into(state, br) == [br EXCEPT !.state = state, !.sinceChange = 0]

-----------------------------------------------------------------------------
Init ==
    /\ registry = NoBreaker
    /\ b = [c \in Callers |-> New]
    /\ mine = [c \in Callers |-> NoBreaker]
    /\ pc = [c \in Callers |-> "idle"]
    /\ healthy \in BOOLEAN

\* Registry.Get under the read lock.
Get(c) ==
    /\ pc[c] = "idle"
    /\ mine' = [mine EXCEPT ![c] = registry]
    /\ pc' = [pc EXCEPT ![c] = IF registry = NoBreaker THEN "create" ELSE "ready"]
    /\ UNCHANGED <<registry, b, healthy>>

\* Registry.Get under the write lock: the map is not looked at again.
Create(c) ==
    /\ pc[c] = "create"
    /\ b' = [b EXCEPT ![c] = New]
    /\ registry' = c
    /\ mine' = [mine EXCEPT ![c] = c]
    /\ pc' = [pc EXCEPT ![c] = "ready"]
    /\ UNCHANGED healthy

\* Mutant: Half-Open keeps the old successes.
AllowKeepSuccesses(c) ==
    LET br == b[mine[c]]
        probe == br.state = "open" /\ br.sinceFailure >= ResetTimeout
    IN /\ pc[c] = "ready"
       /\ b' = [b EXCEPT ![mine[c]] = IF probe THEN Into("half-open", @) ELSE @]
       /\ pc' = [pc EXCEPT ![c] = IF br.state = "open" /\ ~probe THEN "idle" ELSE "calling"]
       /\ UNCHANGED <<registry, mine, healthy>>

\* Allow: an open breaker turns half-open once the timeout has passed since
\* the last failure; a half-open one lets everybody through.
Allow(c) ==
    LET br == b[mine[c]]
        probe == br.state = "open" /\ br.sinceFailure >= ResetTimeout
    IN /\ pc[c] = "ready"
       /\ b' = [b EXCEPT ![mine[c]] =
                    IF probe THEN [Into("half-open", @) EXCEPT !.successes = 0] ELSE @]
       /\ pc' = [pc EXCEPT ![c] = IF br.state = "open" /\ ~probe THEN "idle" ELSE "calling"]
       /\ UNCHANGED <<registry, mine, healthy>>

\* Mutants: a success does not end the streak; a success in Half-Open does
\* not count (RecordSuccessIgnored).
SucceededKeepStreak(br) ==
    IF br.state # "half-open" THEN br
    ELSE IF br.successes + 1 >= HalfOpenMax THEN Into("closed", [br EXCEPT !.successes = @ + 1])
    ELSE [br EXCEPT !.successes = @ + 1]

Succeeded(br) ==
    LET cleared == [br EXCEPT !.failures = 0]
    IN IF br.state # "half-open" THEN cleared
       ELSE LET n == br.successes + 1
            IN IF n >= HalfOpenMax THEN Into("closed", [cleared EXCEPT !.successes = n])
               ELSE [cleared EXCEPT !.successes = n]

RecordSuccessIgnored(c) ==
    /\ pc[c] = "calling" /\ healthy
    /\ b' = [b EXCEPT ![mine[c]].failures = 0]
    /\ pc' = [pc EXCEPT ![c] = "idle"]
    /\ UNCHANGED <<registry, mine, healthy>>

RecordSuccess(c) ==
    /\ pc[c] = "calling" /\ healthy
    /\ b' = [b EXCEPT ![mine[c]] = Succeeded(@)]
    /\ pc' = [pc EXCEPT ![c] = "idle"]
    /\ UNCHANGED <<registry, mine, healthy>>

\* Mutant: failures are counted past the threshold without tripping.
FailedUnbounded(br) ==
    LET counted == [br EXCEPT !.failures = @ + 1, !.sinceFailure = 0]
    IN IF \/ br.state = "closed" /\ counted.failures > MaxFailures
          \/ br.state = "half-open"
       THEN Into("open", counted)
       ELSE counted

\* The count is bounded by MaxFailures: nothing tells higher counts apart.
Failed(br) ==
    LET counted == [br EXCEPT !.failures = Least(@ + 1, MaxFailures), !.sinceFailure = 0]
    IN IF \/ br.state = "closed" /\ counted.failures >= MaxFailures
          \/ br.state = "half-open"
       THEN Into("open", counted)
       ELSE counted

RecordFailure(c) ==
    /\ pc[c] = "calling" /\ ~healthy
    /\ b' = [b EXCEPT ![mine[c]] = Failed(@)]
    /\ pc' = [pc EXCEPT ![c] = "idle"]
    /\ UNCHANGED <<registry, mine, healthy>>

Reset(c) ==
    /\ b' = [b EXCEPT ![c] = [Into("closed", @) EXCEPT !.failures = 0, !.successes = 0]]
    /\ UNCHANGED <<registry, mine, pc, healthy>>

Tick ==
    /\ b' = [c \in Callers |-> [b[c] EXCEPT !.sinceFailure = Least(@ + 1, ResetTimeout),
                                            !.sinceChange = Least(@ + 1, ResetTimeout)]]
    /\ UNCHANGED <<registry, mine, pc, healthy>>

\* The provider goes down or comes back.
Toggle == healthy' = ~healthy /\ UNCHANGED <<registry, b, mine, pc>>

Call(c) == Get(c) \/ Create(c) \/ Allow(c) \/ RecordSuccess(c) \/ RecordFailure(c)

Next ==
    \/ \E c \in Callers : Call(c) \/ Reset(c)
    \/ Tick
    \/ Toggle

Spec == Init /\ [][Next]_vars

\* Callers keep calling and the clock runs; nobody has to reset a breaker and
\* no provider has to recover.
Fairness == WF_vars(Tick) /\ \A c \in Callers : WF_vars(Call(c))
FairSpec == Spec /\ Fairness

-----------------------------------------------------------------------------
TypeOK ==
    /\ registry \in Callers \cup {NoBreaker}
    /\ b \in [Callers -> Breaker]
    /\ mine \in [Callers -> Callers \cup {NoBreaker}]
    /\ pc \in [Callers -> {"idle", "create", "ready", "calling"}]
    /\ healthy \in BOOLEAN

\* Late results of calls admitted in an earlier state never leave a breaker
\* closed with a full failure streak, or half-open with enough successes.
CountersFitState ==
    \A c \in Callers :
        /\ b[c].state = "closed" => b[c].failures < MaxFailures
        /\ b[c].state = "half-open" => b[c].successes < HalfOpenMax

\* A tripped breaker closes again only through Half-Open and HalfOpenMax
\* successes there, or by a Reset.
ClosesThroughProbes ==
    [][\A c \in Callers :
          b[c].state # "closed" /\ b'[c].state = "closed" =>
             \/ b[c].state = "half-open" /\ b'[c].successes = HalfOpenMax
             \/ pc' = pc]_vars

\* The provider recovered for good: the breaker callers share keeps coming
\* back to closed.
Recovers == <>[]healthy => []<>(registry # NoBreaker /\ b[registry].state = "closed")
=============================================================================
