----------------------------- MODULE Streaming -----------------------------
(***************************************************************************)
(* A streamed answer on its way to the user: the handler goroutine that    *)
(* produces chunks (router.StreamHandler, or the CLI's syncToStreamHandler *)
(* around a synchronous handler), the bounded channel it sends them        *)
(* through, and the loop that shows them: the REST SSE handler, the web    *)
(* UI, the headless printer, or the CLI, whose terminal UI is fed by a     *)
(* forwarding goroutine and a second channel.  Every turn has channels and *)
(* goroutines of its own; the text of a chunk is its place in the answer.  *)
(***************************************************************************)
EXTENDS Naturals, Sequences

CONSTANTS Consumers,  \* those of "rest", "webui", "headless" and "cli" to run
          MultiLine,  \* the deltas with a line break in them
          Turns,      \* bound on the messages a user sends, one after another
          MaxDeltas,  \* bound on the deltas of an answer
          Cap         \* capacity of each channel (64 or 100 in the code)

ASSUME StreamingAssumption ==
    /\ Consumers \subseteq {"rest", "webui", "headless", "cli"}
    /\ MultiLine \subseteq 1..MaxDeltas
    /\ Turns \in Nat \ {0} /\ MaxDeltas \in Nat \ {0} /\ Cap \in Nat \ {0}

VARIABLES consumer, \* the channel's loop, one of Consumers
          producer, \* "router", or "sync" behind the CLI
          turn,    \* messages sent so far
          ui,      \* "idle", "streaming" or "quit"
          handler, \* where each turn's handler goroutine is
          sent,    \* deltas each handler has produced
          result,  \* how each turn ended for its handler
          chunks,  \* each turn's channel out of the handler
          forward, \* CLI: where each turn's forwarding goroutine is
          stream,  \* CLI: each turn's channel into the terminal UI
          shown    \* the deltas the user sees for each turn

path == <<consumer, producer>>
vars == <<consumer, producer, turn, ui, handler, sent, result, chunks, forward, stream, shown>>

Turn == 1..Turns
None == 0
Chunk == [delta : 0..MaxDeltas, done : BOOLEAN, err : BOOLEAN]
Delta(n) == [delta |-> n, done |-> FALSE, err |-> FALSE]
DeltaDone(n) == [delta |-> n, done |-> TRUE, err |-> FALSE]
Done == DeltaDone(None)
Error == [delta |-> None, done |-> TRUE, err |-> TRUE]

\* Mutant: one chunk more than the channel holds.
RoomOneMore(ch) == Len(ch) <= Cap

Room(ch) == Len(ch) < Cap
\* What a receive returns: the next chunk, or Done from a closed channel (the
\* loops of the CLI end their turn when the channel is closed without one).
Ready(ch, sender) == ch # << >> \/ sender = "exited"
Next1(ch) == IF ch = << >> THEN Done ELSE Head(ch)
Rest(ch) == IF ch = << >> THEN ch ELSE Tail(ch)

-----------------------------------------------------------------------------
Init ==
    /\ consumer \in Consumers
    /\ producer \in IF consumer = "cli" THEN {"router", "sync"} ELSE {"router"}
    /\ turn = 0 /\ ui = "idle"
    /\ handler = [t \in Turn |-> "none"]
    /\ sent = [t \in Turn |-> 0]
    /\ result = [t \in Turn |-> "none"]
    /\ chunks = [t \in Turn |-> << >>]
    /\ forward = [t \in Turn |-> "none"]
    /\ stream = [t \in Turn |-> << >>]
    /\ shown = [t \in Turn |-> << >>]

\* The message is sent and its goroutines start; the CLI takes no input while
\* an answer streams, the others serve one request with one loop.
Launch ==
    /\ ui = "idle" /\ turn < Turns
    /\ turn' = turn + 1
    /\ ui' = "streaming"
    /\ handler' = [handler EXCEPT ![turn'] = "check"]
    /\ forward' = [forward EXCEPT ![turn'] = IF consumer = "cli" THEN "run" ELSE "exited"]
    /\ UNCHANGED <<path, sent, result, chunks, stream, shown>>

-----------------------------------------------------------------------------
\* The handler goroutine.
\* Mutant: a chunk that does not fit is dropped.
EmitDropping(t, from, chunk, to) ==
    /\ handler[t] = from
    /\ chunks' = [chunks EXCEPT ![t] = IF Room(@) THEN Append(@, chunk) ELSE @]
    /\ handler' = [handler EXCEPT ![t] = to]
    /\ UNCHANGED <<path, turn, ui, forward, stream, shown>>

Emit(t, from, chunk, to) ==
    /\ handler[t] = from
    /\ Room(chunks[t])
    /\ chunks' = [chunks EXCEPT ![t] = Append(@, chunk)]
    /\ handler' = [handler EXCEPT ![t] = to]
    /\ UNCHANGED <<path, turn, ui, forward, stream, shown>>

\* The auth check or the rate limit refuses: the router puts the text in the
\* Done chunk itself, the synchronous handler returns it as its answer.
Reject(t) ==
    /\ IF producer = "router" THEN Emit(t, "check", DeltaDone(1), "close")
                              ELSE Emit(t, "check", Delta(1), "done")
    /\ sent' = [sent EXCEPT ![t] = 1]
    /\ result' = [result EXCEPT ![t] = "rejected"]

Accept(t) ==
    /\ handler[t] = "check"
    /\ handler' = [handler EXCEPT ![t] = "answer"]
    /\ UNCHANGED <<path, turn, ui, sent, result, chunks, forward, stream, shown>>

\* The AI answers: the router's callback sends every delta as it comes, the
\* synchronous handler has saved the answer before its text is sent.
SendDelta(t) ==
    /\ sent[t] < (IF producer = "router" THEN MaxDeltas ELSE 0)
    /\ Emit(t, "answer", Delta(sent[t] + 1), "answer")
    /\ sent' = [sent EXCEPT ![t] = @ + 1]
    /\ UNCHANGED result

\* The session or the AI call fails, or the client is gone and the context
\* cancelled, possibly with deltas already sent.
Fail(t) ==
    /\ Emit(t, "answer", Error, "close")
    /\ result' = [result EXCEPT ![t] = "error"]
    /\ UNCHANGED sent

\* Mutant: the Done chunk overtakes the save.
AnswerEarlyDone(t) ==
    /\ Emit(t, "answer", Done, "save")
    /\ result' = [result EXCEPT ![t] = "ok"]
    /\ UNCHANGED sent

\* The answer is complete.
Answered(t) ==
    /\ handler[t] = "answer"
    /\ handler' = [handler EXCEPT ![t] = "save"]
    /\ result' = [result EXCEPT ![t] = "ok"]
    /\ UNCHANGED <<path, turn, ui, sent, chunks, forward, stream, shown>>

\* AddAssistantMessage and logUsage; their failures are only logged.
Save(t) ==
    /\ handler[t] = "save"
    /\ handler' = [handler EXCEPT ![t] = IF producer = "router" THEN "done" ELSE "text"]
    /\ UNCHANGED <<path, turn, ui, sent, result, chunks, forward, stream, shown>>

SendText(t) ==
    /\ Emit(t, "text", Delta(1), "done")
    /\ sent' = [sent EXCEPT ![t] = 1]
    /\ UNCHANGED result

SendDone(t) == Emit(t, "done", Done, "close") /\ UNCHANGED <<sent, result>>

Close(t) ==
    /\ handler[t] = "close"
    /\ handler' = [handler EXCEPT ![t] = "exited"]
    /\ UNCHANGED <<path, turn, ui, sent, result, chunks, forward, stream, shown>>

Handle(t) ==
    \/ Reject(t) \/ Accept(t) \/ SendDelta(t) \/ Fail(t) \/ Answered(t)
    \/ Save(t) \/ SendText(t) \/ SendDone(t) \/ Close(t)

-----------------------------------------------------------------------------
\* The loops that show chunks.
Show(t, c) == shown' = [shown EXCEPT ![t] = IF c.delta = None THEN @ ELSE Append(@, c.delta)]
Receive(t) ==
    /\ Ready(chunks[t], handler[t])
    /\ chunks' = [chunks EXCEPT ![t] = Rest(@)]

\* REST: an Error or Done chunk ends the loop before its delta is looked at.
\* An event's text is sent as it is, so the client's parser ends it at the
\* first line break.
Cut == 0
ShowRest(t, c) ==
    IF c.done THEN UNCHANGED shown /\ ui' = "idle"
    ELSE /\ shown' = [shown EXCEPT ![t] =
                         Append(@, IF c.delta \in MultiLine THEN Cut ELSE c.delta)]
         /\ UNCHANGED ui

\* Headless: an Error chunk ends the loop; a Done chunk's delta is printed and
\* the loop goes on until the channel is closed.
ShowHeadless(t, c) ==
    IF c.err \/ chunks[t] = << >> THEN UNCHANGED shown /\ ui' = "idle"
                                  ELSE Show(t, c) /\ UNCHANGED ui

\* Web UI: every chunk is shown, Error chunks too, until the channel is closed.
ShowWeb(t, c) ==
    IF chunks[t] = << >> THEN UNCHANGED shown /\ ui' = "idle" ELSE Show(t, c) /\ UNCHANGED ui

Loop(t) ==
    /\ consumer # "cli" /\ ui = "streaming" /\ t = turn
    /\ Receive(t)
    /\ LET c == Next1(chunks[t])
       IN CASE consumer = "rest" -> ShowRest(t, c)
            [] consumer = "headless" -> ShowHeadless(t, c)
            [] OTHER -> ShowWeb(t, c)
    /\ UNCHANGED <<path, turn, handler, sent, result, forward, stream>>

\* The CLI's forwarder; like the SSE loop it drops the delta of a Done chunk.
Forward(t) ==
    /\ forward[t] = "run"
    /\ Room(stream[t])
    /\ Receive(t)
    /\ LET c == Next1(chunks[t])
       IN /\ stream' = [stream EXCEPT ![t] = Append(@, IF c.done THEN [c EXCEPT !.delta = None] ELSE c)]
          /\ forward' = [forward EXCEPT ![t] = IF c.done THEN "exited" ELSE "run"]
    /\ UNCHANGED <<path, turn, ui, handler, sent, result, shown>>

\* Mutant: an error leaves the UI streaming.
UpdateErrorStays(t) ==
    /\ consumer = "cli" /\ ui = "streaming" /\ t = turn
    /\ Ready(stream[t], forward[t])
    /\ stream' = [stream EXCEPT ![t] = Rest(@)]
    /\ LET c == Next1(stream[t])
       IN /\ IF c.err THEN shown' = [shown EXCEPT ![t] = << >>] ELSE Show(t, c)
          /\ ui' = IF c.done /\ ~c.err /\ stream[t] # << >> THEN "idle" ELSE "streaming"
    /\ UNCHANGED <<path, turn, handler, sent, result, chunks, forward>>

\* The UI's Update on a streamMsg; an error discards the text streamed so far.
Update(t) ==
    /\ consumer = "cli" /\ ui = "streaming" /\ t = turn
    /\ Ready(stream[t], forward[t])
    /\ stream' = [stream EXCEPT ![t] = Rest(@)]
    /\ LET c == Next1(stream[t])
       IN /\ IF c.err THEN shown' = [shown EXCEPT ![t] = << >>] ELSE Show(t, c)
          /\ ui' = IF c.done THEN "idle" ELSE "streaming"
    /\ UNCHANGED <<path, turn, handler, sent, result, chunks, forward>>

\* Ctrl-C or a cancelled context closes the terminal UI, streaming or not.
Quit ==
    /\ consumer = "cli" /\ ui # "quit"
    /\ ui' = "quit"
    /\ UNCHANGED <<path, turn, handler, sent, result, chunks, forward, stream, shown>>

Step(t) == Handle(t) \/ Loop(t) \/ Forward(t) \/ Update(t)

Next == Launch \/ Quit \/ \E t \in Turn : Step(t)

\* Goroutines run, the AI call returns, and the UI reads what it is sent;
\* nothing makes a user send another message or quit.
Spec == Init /\ [][Next]_vars
FairSpec ==
    /\ Spec
    /\ \A t \in Turn :
         WF_vars(Handle(t)) /\ WF_vars(Loop(t)) /\ WF_vars(Forward(t)) /\ WF_vars(Update(t))

-----------------------------------------------------------------------------
TypeOK ==
    /\ consumer \in Consumers /\ producer \in {"router", "sync"}
    /\ turn \in 0..Turns /\ ui \in {"idle", "streaming", "quit"}
    /\ handler \in [Turn -> {"none", "check", "answer", "save", "text", "done", "close", "exited"}]
    /\ sent \in [Turn -> 0..MaxDeltas]
    /\ result \in [Turn -> {"none", "ok", "rejected", "error"}]
    /\ \A t \in Turn : chunks[t] \in Seq(Chunk) /\ Len(chunks[t]) <= Cap
    /\ forward \in [Turn -> {"none", "run", "exited"}]
    /\ \A t \in Turn : stream[t] \in Seq(Chunk) /\ Len(stream[t]) <= Cap
    /\ \A t \in Turn : shown[t] \in Seq(0..MaxDeltas)

Over(t) == t < turn \/ (t = turn /\ ui = "idle")

\* The refusals a loop shows: the SSE handler and the CLI's forwarder do not
\* look at the delta of the router's Done chunk.
ShowsRefusals == consumer \in {"headless", "webui"} \/ producer = "sync"

\* While it streams the user sees the answer's deltas in order, each once and
\* none missing, one with a line break cut by SSE alone; when a turn is over
\* and did not fail, the user has seen all, a refusal too where it is shown.
AnswerShown ==
    \A t \in Turn :
        /\ \A i \in DOMAIN shown[t] :
             shown[t][i] = IF consumer = "rest" /\ i \in MultiLine THEN Cut ELSE i
        /\ Over(t) /\ (result[t] = "ok" \/ (result[t] = "rejected" /\ ShowsRefusals)) =>
             Len(shown[t]) = sent[t]

\* When the loop has ended and the user can act again (send a message, clear
\* the session) no handler of an earlier turn still works on the session.
IdleMeansQuiet ==
    \A t \in Turn : Over(t) => handler[t] \in {"close", "exited"} /\ forward[t] = "exited"

\* A slow or finished consumer never leaves a goroutine blocked on a full
\* channel: unless the terminal UI is closed, every turn's goroutines end and
\* the UI is idle again.
GoroutinesEnd ==
    \A t \in Turn :
        handler[t] # "none" ~>
            ui = "quit" \/ (handler[t] = "exited" /\ forward[t] = "exited" /\ Over(t))
=============================================================================
