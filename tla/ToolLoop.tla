------------------------------ MODULE ToolLoop ------------------------------
(***************************************************************************)
(* internal/ai/client.go and retry.go: one completion.  The client asks    *)
(* the model, runs the tools it calls, appends their results and asks      *)
(* again, at most MaxToolIter times; each request is retried on transient  *)
(* errors.  In mode "sync" it is CompleteWithTools, in mode "stream"       *)
(* CompleteWithToolsStream, where a response arrives in chunks.            *)
(***************************************************************************)
EXTENDS Naturals, Sequences, FiniteSets, SequencesExt

CONSTANTS MaxToolIter, MaxRetries,
          Made,        \* tool calls the model may make in a response, numbered from 0
          Indexes,     \* indexes their fragments may bear in a stream
          MaxDeltas    \* bound on the content chunks of a response

ToolLoopAssumption ==
    /\ MaxToolIter \in Nat \ {0} /\ MaxRetries \in Nat /\ MaxDeltas \in Nat
    /\ IsFiniteSet(Indexes) /\ Indexes = 0..(Cardinality(Indexes) - 1)
    /\ IsFiniteSet(Made) /\ Made = 0..(Cardinality(Made) - 1) /\ Made \subseteq Indexes /\ 0 \in Indexes

VARIABLES mode, pc, iter, attempt,
          requests,  \* requests sent to the model so far
          msgs,      \* the conversation sent with the next request
          calls,     \* toolCallMap: for each index, the calls whose fragments came under it
          todo,      \* calls of the current response not run yet
          content,   \* content of the current response
          shown,     \* deltas handed to the callback
          asked,     \* history: what the model called, and under which index
          executed,  \* history: calls run, in order
          canceled,  \* the request's context is done
          outcome

vars == <<mode, pc, iter, attempt, requests, msgs, calls, todo, content, shown, asked,
          executed, canceled, outcome>>

\* A call as the client puts it together and runs it: the entry of one index,
\* which holds the fragments of the calls "of" (of one, if all is well).
Call(i, of) == [iter |-> iter, index |-> i, of |-> of]
Calls == [iter : 0..(MaxToolIter - 1), index : Indexes, of : SUBSET Made]
\* A call of the model's: due says whether the response waits for its result.
Asked(c, i, due) == [iter |-> iter, call |-> c, index |-> i, due |-> due]
AllAsked == [iter : 0..(MaxToolIter - 1), call : Made, index : Indexes, due : BOOLEAN]
Prompt == [kind |-> "prompt"]
Assistant(cs) == [kind |-> "assistant", calls |-> cs]
Result(c) == [kind |-> "tool", call |-> c]

Init ==
    /\ mode \in {"sync", "stream"}
    /\ pc = "request" /\ iter = 0 /\ attempt = 0 /\ requests = 0
    /\ msgs = <<Prompt>>
    /\ calls = [i \in Indexes |-> {}] /\ todo = << >> /\ content = << >> /\ shown = << >>
    /\ asked = {} /\ executed = << >>
    /\ canceled = FALSE /\ outcome = "none"

End(o) == pc' = "done" /\ outcome' = o
Return(o) ==
    /\ End(o)
    /\ UNCHANGED <<mode, iter, attempt, msgs, calls, todo, content, shown, asked, executed, canceled>>

-----------------------------------------------------------------------------
(* retry *)

\* Mutant: one attempt too many.
RetryableErrorOnceMore ==
    /\ pc = "request" /\ ~canceled
    /\ requests' = requests + 1
    /\ IF attempt > MaxRetries THEN Return("error")
       ELSE /\ pc' = "backoff"
            /\ UNCHANGED <<mode, iter, attempt, msgs, calls, todo, content, shown, asked,
                           executed, canceled, outcome>>

\* fn failed with an error isRetryable accepts.
RetryableError ==
    /\ pc = "request" /\ ~canceled
    /\ requests' = requests + 1
    /\ IF attempt = MaxRetries THEN Return("error")
       ELSE /\ pc' = "backoff"
            /\ UNCHANGED <<mode, iter, attempt, msgs, calls, todo, content, shown, asked,
                           executed, canceled, outcome>>

\* fn failed otherwise; a canceled context always fails it.
FatalError == pc = "request" /\ requests' = requests + 1 /\ Return("error")

\* The backoff ends by its timer or by the context; with both ready select
\* may take either.
Backoff ==
    /\ pc = "backoff"
    /\ UNCHANGED requests
    /\ \/ /\ attempt' = attempt + 1 /\ pc' = "request"
          /\ UNCHANGED <<mode, iter, msgs, calls, todo, content, shown, asked, executed,
                         canceled, outcome>>
       \/ canceled /\ Return("canceled")

-----------------------------------------------------------------------------
(* One response *)

\* The calls of a response become an assistant message and the work to do.
TakeCalls(cs) ==
    /\ msgs' = Append(msgs, Assistant(cs))
    /\ todo' = cs
    /\ pc' = "tools"

\* CompleteWithTools: the whole response at once, with its calls in order.
\* They count only if the response says that it finished for them.
Respond ==
    /\ mode = "sync" /\ pc = "request" /\ ~canceled
    /\ requests' = requests + 1
    /\ \E n \in 0..Cardinality(Made), finishedForCalls \in BOOLEAN :
          /\ asked' = asked \cup {Asked(c, c, finishedForCalls) : c \in 0..(n - 1)}
          /\ IF finishedForCalls /\ n > 0
             THEN TakeCalls([j \in 1..n |-> Call(j - 1, {j - 1})]) /\ UNCHANGED outcome
             ELSE End("ok") /\ UNCHANGED <<msgs, todo>>
    /\ UNCHANGED <<mode, iter, attempt, calls, content, shown, executed, canceled>>

OpenStream ==
    /\ mode = "stream" /\ pc = "request" /\ ~canceled
    /\ requests' = requests + 1
    /\ pc' = "stream" /\ calls' = [i \in Indexes |-> {}] /\ content' = << >>
    /\ UNCHANGED <<mode, iter, attempt, msgs, todo, shown, asked, executed, canceled, outcome>>

RecvContent ==
    LET d == [iter |-> iter, n |-> Len(content) + 1]
    IN /\ pc = "stream" /\ ~canceled /\ Len(content) < MaxDeltas
       /\ content' = Append(content, d) /\ shown' = Append(shown, d)
       /\ UNCHANGED <<mode, pc, iter, attempt, requests, msgs, calls, todo, asked, executed,
                      canceled, outcome>>

\* A fragment of call c under index i is added to what came under i before,
\* whatever call that was of.
RecvToolCall(c, i) ==
    /\ pc = "stream" /\ ~canceled
    /\ calls' = [calls EXCEPT ![i] = @ \cup {c}]
    /\ asked' = asked \cup {Asked(c, i, TRUE)}
    /\ UNCHANGED <<mode, pc, iter, attempt, requests, msgs, todo, content, shown, executed,
                   canceled, outcome>>

\* A fragment without an index counts as one of index 0.
RecvUnnumbered(c) == RecvToolCall(c, 0)

\* Mutant: a broken stream is opened again.
RecvErrorRetry ==
    /\ pc = "stream"
    /\ pc' = "request" /\ UNCHANGED outcome
    /\ UNCHANGED <<mode, iter, attempt, requests, msgs, calls, todo, content, shown, asked,
                   executed, canceled>>

\* Mutant: the receive loop goes on after an error.
RecvErrorIgnored == pc = "stream" /\ UNCHANGED vars

\* The stream breaks: what was shown stays shown.
RecvError == pc = "stream" /\ UNCHANGED requests /\ Return("error")

\* The loop "for i := 0; i < len(toolCallMap); i++" finds the entries of these
\* indexes, and lists them by rising index.
Present == {i \in Indexes : calls[i] # {}}
Found == {i \in Present : i < Cardinality(Present)}
DenseCalls ==
    {cs \in [1..Cardinality(Found) -> {Call(i, calls[i]) : i \in Found}] :
       \A j, k \in DOMAIN cs : j < k => cs[j].index < cs[k].index}

\* EOF: with no calls the answer is complete.
Eof ==
    /\ pc = "stream" /\ ~canceled
    /\ UNCHANGED requests
    /\ IF Present = {} THEN Return("ok")
       ELSE /\ \E cs \in DenseCalls : TakeCalls(cs)
            /\ UNCHANGED <<mode, iter, attempt, calls, content, shown, asked, executed, canceled, outcome>>

-----------------------------------------------------------------------------
(* Tools *)

\* Mutant: the result of a failing tool is not appended.
RunToolSkipFailed ==
    /\ pc = "tools" /\ todo # << >>
    /\ todo' = Tail(todo)
    /\ executed' = Append(executed, Head(todo))
    /\ msgs' \in {msgs, Append(msgs, Result(Head(todo)))}
    /\ UNCHANGED <<mode, pc, iter, attempt, requests, calls, content, shown, asked, canceled, outcome>>

\* A tool runs, also when the context is done; a failing one gives the text
\* of its error as result.
RunTool ==
    /\ pc = "tools" /\ todo # << >>
    /\ todo' = Tail(todo)
    /\ executed' = Append(executed, Head(todo))
    /\ msgs' = Append(msgs, Result(Head(todo)))
    /\ UNCHANGED <<mode, pc, iter, attempt, requests, calls, content, shown, asked, canceled, outcome>>

\* Between two streams, and behind the last, the callback is given a line break.
Break == [iter |-> iter, n |-> 0]

NextIteration ==
    /\ pc = "tools" /\ todo = << >>
    /\ shown' = IF mode = "stream" THEN Append(shown, Break) ELSE shown
    /\ IF iter + 1 = MaxToolIter THEN End("exceeded") /\ UNCHANGED <<iter, attempt>>
       ELSE iter' = iter + 1 /\ attempt' = 0 /\ pc' = "request" /\ UNCHANGED outcome
    /\ UNCHANGED <<mode, requests, msgs, calls, todo, content, asked, executed, canceled>>

Cancel ==
    /\ ~canceled /\ pc # "done"
    /\ canceled' = TRUE
    /\ UNCHANGED <<mode, pc, iter, attempt, requests, msgs, calls, todo, content, shown, asked,
                   executed, outcome>>

Step ==
    \/ RetryableError \/ FatalError \/ Backoff
    \/ Respond \/ OpenStream \/ RecvContent
    \/ (\E c \in Made : RecvUnnumbered(c) \/ \E i \in Indexes : RecvToolCall(c, i))
    \/ RecvError \/ Eof
    \/ RunTool \/ NextIteration

Next == Step \/ Cancel

Spec == Init /\ [][Next]_vars

\* Requests, streams and tools end; nobody has to cancel.
FairSpec == Spec /\ WF_vars(Step)

-----------------------------------------------------------------------------
TypeOK ==
    /\ mode \in {"sync", "stream"}
    /\ pc \in {"request", "backoff", "stream", "tools", "done"}
    /\ iter \in 0..(MaxToolIter - 1)
    /\ attempt \in 0..MaxRetries
    /\ requests \in 0..(MaxToolIter * (MaxRetries + 1))
    /\ \A i \in DOMAIN msgs : msgs[i].kind \in {"prompt", "assistant", "tool"}
    /\ calls \in [Indexes -> SUBSET Made]
    /\ todo \in Seq(Calls) /\ executed \in Seq(Calls) /\ asked \subseteq AllAsked
    /\ canceled \in BOOLEAN
    /\ outcome \in {"none", "ok", "error", "canceled", "exceeded"}

\* The protocol of the chat API: whenever the conversation is sent, every
\* assistant message with calls is followed by exactly one result per call,
\* in order, and no result stands anywhere else.
ToolProtocol ==
    pc \in {"request", "backoff"} =>
        /\ \A i \in DOMAIN msgs : msgs[i].kind = "assistant" =>
              \A j \in DOMAIN msgs[i].calls :
                 i + j \in DOMAIN msgs /\ msgs[i + j] = Result(msgs[i].calls[j])
        /\ Len(msgs) = 1 + Cardinality({i \in DOMAIN msgs : msgs[i].kind = "assistant"})
                         + Len(executed)

\* Whatever is retried, no tool runs twice for one call and the user sees no
\* delta and no line break twice.
NothingTwice == IsInjective(executed) /\ IsInjective(shown)

\* The model numbers the calls of iteration k from 0 and each of their fragments
\* bears its call's number, as the chat API says.
AskedIn(k) == {a.call : a \in {b \in asked : b.iter = k}}
Numbered(k) ==
    /\ \A a \in asked : a.iter = k => a.index = a.call
    /\ AskedIn(k) = 0..(Cardinality(AskedIn(k)) - 1)

\* Every call that a response waits for has run, by itself, before the model is
\* asked again or the loop ends without an error, if the calls are numbered as
\* they should; and what runs is put together from calls of that response.
EveryCallRun ==
    /\ \A e \in Range(executed) : e.of # {} /\ e.of \subseteq AskedIn(e.iter)
    /\ pc = "request" \/ outcome \in {"ok", "exceeded"} =>
         \A a \in asked : a.due /\ Numbered(a.iter) =>
            [iter |-> a.iter, index |-> a.call, of |-> {a.call}] \in Range(executed)

\* A completion ends: in an answer, an error or the iteration limit.
Terminates == <>(pc = "done")
=============================================================================
