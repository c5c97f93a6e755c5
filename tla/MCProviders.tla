----------------------------- MODULE MCProviders -----------------------------
(* What stands between a message and the model providers: the rate limiter,  *)
(* the circuit breaker, the fallback chain, and the providers themselves,    *)
(* which put a request into their vendor's form.  The code keeps them apart; *)
(* a behaviour moves one of them.  The chain is that of README's example,    *)
(* with models that map around in a circle.                                  *)
EXTENDS CircuitBreaker, Sequences

CONSTANTS Keys, Rate, Cost, Burst, MaxAge, MaxTime, NoBucket,
          Chain, Models, ModelMap,
          Vendors, Requests, MaxEvents, MaxCalls, MaxIndex, MaxAttempts, MaxDeltas

VARIABLES guard,  \* the one that moves
          buckets, now, admitted,
          original, model, asked, deltas, text, status,
          vendor, request, sent, events, ended, content, toolMap, toolCalls, shown,
          attempts, cancelled, at

R == INSTANCE RateLimit
F == INSTANCE Fallback
W == INSTANCE Wire

MCChain == <<"deepseek", "ollama", "groq">>
Larger == [small |-> "medium", medium |-> "large", large |-> "small"]
MCModelMap == [deepseek |-> [m \in DOMAIN Larger |-> m], ollama |-> Larger, groq |-> Larger]
MCModels == DOMAIN Larger

Message(role, says, cs, id, name) ==
    [role |-> role, content |-> says, parts |-> << >>, calls |-> cs, callID |-> id, name |-> name]
System == Message("system", "s", << >>, "", "")
User == Message("user", "u", << >>, "", "")
Picture == [User EXCEPT !.parts = <<[kind |-> "text", key |-> "t"], [kind |-> "image_base64", key |-> "i"],
                                    [kind |-> "image_url", key |-> "l"]>>]
Called(id, name) == [id |-> id, name |-> name]
Result(id, name) == Message("tool", "r", << >>, id, name)
AskF == Message("assistant", "", <<Called("1", "f")>>, "", "")
AskFG == Message("assistant", "a", <<Called("1", "f"), Called("2", "g")>>, "", "")
MCVendors == {"openai", "anthropic", "google", "ollama"}
MCRequests == {<<System, User>>, <<System, Picture, AskF, Result("1", "f")>>,
               <<System, User, AskF, Result("1", "f"), AskFG, Result("1", "f"), Result("2", "g")>>}
ASSUME LimiterAssumption == R!RateAssumption
ASSUME ForgetsFull == R!CleanupForgetsFull
ASSUME ChainAssumption == F!FallbackAssumption
ASSUME WireAssumption == W!WireAssumption

rVars == <<buckets, now, admitted>>
fVars == <<original, model, asked, deltas, text, status>>
wVars == <<vendor, request, sent, events, ended, content, toolMap, toolCalls, shown,
           attempts, cancelled, at>>
guards == <<guard, vars, rVars, fVars, wVars>>

\* What does not move has one state only.
GuardsInit ==
    /\ guard \in {"breaker", "limiter", "chain", "wire"}
    /\ Init /\ R!Init /\ F!Init
    /\ W!Init
    /\ guard # "wire" => vendor = "openai" /\ request = <<System, User>>

GuardsNext ==
    \/ guard = "breaker" /\ Next /\ UNCHANGED <<guard, rVars, fVars, wVars>>
    \/ guard = "limiter" /\ R!Next /\ UNCHANGED <<guard, vars, fVars, wVars>>
    \/ guard = "chain" /\ F!Next /\ UNCHANGED <<guard, vars, rVars, wVars>>
    \/ guard = "wire" /\ W!Next /\ UNCHANGED <<guard, vars, rVars, fVars>>

GuardsSpec ==
    /\ GuardsInit /\ [][GuardsNext]_guards
    /\ WF_vars(guard = "breaker" /\ Tick)
    /\ \A c \in Callers : WF_vars(guard = "breaker" /\ Call(c))

-----------------------------------------------------------------------------
TypesOK == TypeOK /\ R!TypeOK /\ F!TypeOK /\ W!TypeOK

\* No interval sees more than the bound, and nothing below it is refused.
RateExact == [][R!RateBound']_rVars /\ R!RefusedOnlyAtBound

\* A provider is asked what the caller asked, of its equivalent of the model,
\* each result with its call; and what it returns is what came of the answer.
AskedAsMeant == F!OwnModel /\ W!ResultsKeepTheirCalls /\ W!ResponseIsWhole

\* CircuitBreaker's Recovers, where the breaker moves.
BreakerRecovers == guard = "breaker" => Recovers
=============================================================================
