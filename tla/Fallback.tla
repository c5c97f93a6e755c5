------------------------------ MODULE Fallback ------------------------------
(***************************************************************************)
(* internal/fallback/fallback.go: a request goes to the providers of the   *)
(* chain in turn until one answers.  Each is asked for its own equivalent  *)
(* of the model; an error that is not retriable ends the attempt.  When    *)
(* the answer is streamed, every provider's deltas go to one callback.     *)
(***************************************************************************)
EXTENDS Naturals, Sequences

CONSTANTS Chain,      \* the providers, by priority
          Models,
          ModelMap,   \* each provider's equivalent of a model
          MaxDeltas   \* bound on the deltas of one attempt; 0 for Chat

FallbackAssumption ==
    /\ Chain \in Seq({Chain[i] : i \in DOMAIN Chain}) /\ Chain # << >>
    /\ ModelMap \in [{Chain[i] : i \in DOMAIN Chain} -> [Models -> Models]]
    /\ MaxDeltas \in Nat

VARIABLES original, \* the model the caller asked for
          model,    \* req.Model
          asked,    \* the model each provider was asked for
          deltas,   \* deltas of the attempt under way
          text,     \* the provider of each delta the callback has got
          status    \* "next", "wait", "ok" or "failed"

vars == <<original, model, asked, deltas, text, status>>

At == Len(asked)

Init ==
    /\ original \in Models
    /\ model = original
    /\ asked = << >> /\ deltas = 0 /\ text = << >>
    /\ status = "next"

\* The next provider is called.
Ask ==
    /\ status = "next"
    /\ At < Len(Chain)
    /\ model' = ModelMap[Chain[At + 1]][original]
    /\ asked' = Append(asked, model')
    /\ deltas' = 0
    /\ status' = "wait"
    /\ UNCHANGED <<original, text>>

\* A delta of the stream goes to the callback.
StreamDelta ==
    /\ status = "wait" /\ deltas < MaxDeltas
    /\ deltas' = deltas + 1
    /\ text' = Append(text, At)
    /\ UNCHANGED <<original, model, asked, status>>

Succeed ==
    /\ status = "wait"
    /\ status' = "ok"
    /\ UNCHANGED <<original, model, asked, deltas, text>>

\* isRetriableError: rate limits, server errors, timeouts.
RetriableError ==
    /\ status = "wait"
    /\ status' = IF At < Len(Chain) THEN "next" ELSE "failed"
    /\ UNCHANGED <<original, model, asked, deltas, text>>

\* Any other error is returned at once.
FatalError ==
    /\ status = "wait"
    /\ status' = "failed"
    /\ UNCHANGED <<original, model, asked, deltas, text>>

Next == Ask \/ StreamDelta \/ Succeed \/ RetriableError \/ FatalError

Spec == Init /\ [][Next]_vars

-----------------------------------------------------------------------------
TypeOK ==
    /\ original \in Models /\ model \in Models
    /\ asked \in Seq(Models) /\ At <= Len(Chain)
    /\ deltas \in 0..MaxDeltas
    /\ text \in Seq(DOMAIN Chain)
    /\ status \in {"next", "wait", "ok", "failed"}

\* However many providers fail, each is asked for its equivalent of the model
\* the caller named, never for an equivalent of an equivalent.
OwnModel == \A i \in DOMAIN asked : asked[i] = ModelMap[Chain[i]][original]
=============================================================================
