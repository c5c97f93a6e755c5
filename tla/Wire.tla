-------------------------------- MODULE Wire --------------------------------
(***************************************************************************)
(* The model providers (internal/provider): how a request is put into each *)
(* vendor's form, and how the vendor's answer, whole or as a stream of     *)
(* events, becomes one response with its text and its tool calls.  The     *)
(* events of an answer are numbered as they come, and a response is made   *)
(* of their numbers; the connection may break after any event.             *)
(***************************************************************************)
EXTENDS Naturals, Sequences, SequencesExt, FiniteSets

CONSTANTS Vendors,   \* of "openai", "anthropic", "google" and "ollama"
          Requests,  \* conversations, as sequences of messages
          MaxEvents, MaxCalls, \* bounds on an answer: its events and its tool calls
          MaxIndex,            \* of a fragment of a call
          MaxAttempts          \* of OpenAICompat.Chat (3 in the code)

\* A message as the program keeps it.  Only the model calls, and the program
\* answers what was called, under its identifier and name.
ContentPart == [kind : {"text", "image_base64", "image_url"}, key : STRING]
ToolCall == [id : STRING, name : STRING]
Message == [role : {"system", "user", "assistant", "tool"}, content : STRING, parts : Seq(ContentPart),
            calls : Seq(ToolCall), callID : STRING, name : STRING]
Answers(m, c) == m.callID = c.id /\ m.name = c.name

WireAssumption ==
    /\ MaxEvents \in Nat /\ MaxCalls \in Nat /\ MaxIndex \in Nat /\ MaxCalls <= MaxIndex + 1
    /\ MaxAttempts \in Nat \ {0}
    /\ Vendors \subseteq {"openai", "anthropic", "google", "ollama"}
    /\ Requests \subseteq Seq(Message)
    /\ \A ms \in Requests : \A i \in DOMAIN ms :
         /\ ms[i].calls # << >> => ms[i].role = "assistant"
         /\ ms[i].role = "tool" => \E j \in 1..(i - 1) : \E c \in DOMAIN ms[j].calls : Answers(ms[i], ms[j].calls[c])

VARIABLES vendor, request,
          sent,      \* the request in the vendor's form
          events,    \* history: what has come of the answer
          ended,     \* history: the answer came to its end
          content,   \* the texts collected
          toolMap,   \* the fragments collected for each call
          toolCalls, \* the calls returned
          shown,     \* what the callback was given, Done last
          attempts, cancelled, at

vars == <<vendor, request, sent, events, ended, content, toolMap, toolCalls, shown,
          attempts, cancelled, at>>
input == <<vendor, request>>
answer == <<events, ended, content, toolMap, toolCalls, shown>>
Done == 0

\* A piece of an answer: a text, a thought, or a fragment of a call under an
\* index.  One that is not read cannot be decoded and is passed over.
MadeCalls == 0..(MaxCalls - 1)
Indexes == 0..MaxIndex
Event(kind, c, i, read) == [kind |-> kind, call |-> c, index |-> i, read |-> read]
Events == [kind : {"text", "thinking", "call"}, call : MadeCalls \cup {0}, index : Indexes, read : BOOLEAN]

\* A part of a message: a text, an image or, in the vendor's form, a call or a
\* result with what ties the two together.
Part(kind, key) == [kind |-> kind, key |-> key]
Wired(role, parts) == [role |-> role, parts |-> parts]
Text(m) == IF m.content = "" THEN << >> ELSE <<Part("text", m.content)>>
Each(s, Op(_)) == [i \in DOMAIN s |-> Op(s[i])]
Gather(s, Op(_)) == FlattenSeq(Each(s, Op))  \* a loop that may append for each
ById(c) == Part("call", c.id)
ByName(c) == Part("call", c.name)

-----------------------------------------------------------------------------
\* Requests.
\* OpenAI: one message for each; parts replace the content.
openAIMessage(m) ==
    Wired(m.role,
        (IF m.role = "tool" THEN <<Part("result", m.callID)>> ELSE << >>)
        \o (IF m.parts # << >> THEN m.parts ELSE IF m.role = "tool" THEN << >> ELSE Text(m))
        \o Each(m.calls, ById))
convertMessages(ms) == Gather(ms, LAMBDA m : <<openAIMessage(m)>>)

\* The system messages, which two of the vendors take apart from the others.
Apart(ms) == Gather(ms, LAMBDA m : IF m.role = "system" THEN <<Wired("system", <<Part("text", m.content)>>)>> ELSE << >>)

\* Anthropic: a result is a user message.
anthropicMessage(m) ==
    CASE m.role = "user" -> Wired("user", IF m.parts # << >> THEN m.parts
                                          ELSE <<Part("text", m.content)>>)
      [] m.role = "assistant" ->
           Wired("assistant", IF m.calls # << >> THEN Text(m) \o Each(m.calls, ById)
                              ELSE <<Part("text", m.content)>>)
      [] m.role = "tool" -> Wired("user", <<Part("result", m.callID)>>)
buildParams(ms) ==
    Apart(ms) \o Gather(ms, LAMBDA m : IF m.role = "system" THEN << >> ELSE <<anthropicMessage(m)>>)

\* Google: the last system message alone; a result and its call share the
\* function's name and nothing else; a picture given by its address is left out.
googleContent(m) ==
    IF m.role = "tool" THEN Wired("function", <<Part("result", m.name)>>)
    ELSE Wired(IF m.role = "assistant" THEN "model" ELSE "user",
               Text(m) \o Gather(m.parts, LAMBDA p : IF p.kind = "image_url" THEN << >> ELSE <<p>>)
                       \o Each(m.calls, ByName))
\* Mutant: a result does not say what it is the result of.
googleRequestNameless(ms) ==
    Apart(ms) \o Gather(ms, LAMBDA m : IF m.role = "system" THEN << >> ELSE <<googleContent([m EXCEPT !.name = ""])>>)

googleRequest(ms) ==
    (IF Apart(ms) = << >> THEN << >> ELSE <<Last(Apart(ms))>>)
    \o Gather(ms, LAMBDA m : IF m.role = "system" THEN << >> ELSE <<googleContent(m)>>)

\* Ollama: the text (the first part's if there is none) and images; calls and
\* what a result belongs to are left out.
ollamaRequest(ms) ==
    Each(ms, LAMBDA m : Wired(m.role,
        LET ts == SelectSeq(m.parts, LAMBDA p : p.kind = "text")
        IN (IF m.content # "" THEN Text(m) ELSE IF ts # << >> THEN <<Head(ts)>> ELSE << >>)
           \o SelectSeq(m.parts, LAMBDA p : p.kind = "image_base64")))

Converted ==
    CASE vendor = "openai" -> convertMessages(request)
      [] vendor = "anthropic" -> buildParams(request)
      [] vendor = "google" -> googleRequest(request)
      [] vendor = "ollama" -> ollamaRequest(request)

-----------------------------------------------------------------------------
Init ==
    /\ vendor \in Vendors /\ request \in Requests
    /\ sent = << >>
    /\ events = << >> /\ ended = FALSE
    /\ content = << >> /\ toolMap = [i \in Indexes |-> << >>] /\ toolCalls = << >> /\ shown = << >>
    /\ attempts = 0 /\ cancelled = FALSE /\ at = "idle"

Cancel ==
    /\ at # "idle" /\ ~cancelled /\ cancelled' = TRUE
    /\ UNCHANGED <<input, sent, answer, attempts, at>>

Begin(how) ==
    /\ at = "idle" /\ at' = how
    /\ sent' = Converted
    /\ UNCHANGED <<input, answer, attempts, cancelled>>
Chat == Begin("asking")
ChatStream == Begin("streaming")

\* The whole answer, n texts, some of them thoughts, and k calls: the texts in
\* one, and the calls.
parseResponse(n, thoughts, k) ==
    /\ events' = [i \in 1..(n + k) |->
                     IF i > n THEN Event("call", i - n - 1, i - n - 1, TRUE)
                     ELSE Event(IF i \in thoughts THEN "thinking" ELSE "text", 0, 0, TRUE)]
    /\ ended' = TRUE
    /\ content' = [i \in 1..n |-> i]
    /\ toolCalls' = [i \in 1..k |-> <<n + i>>]

\* One HTTP exchange answers or fails; OpenAICompat refuses an answer without
\* a choice in it, Google takes it for an empty one.
Respond ==
    /\ at = "asking" /\ ~cancelled
    /\ attempts' = attempts + 1
    /\ \E n \in 0..MaxEvents, k \in 0..MaxCalls, choices \in BOOLEAN :
         /\ n + k <= MaxEvents /\ (~choices => n = 0 /\ k = 0)
         /\ \E thoughts \in SUBSET (1..n) :
              (thoughts # {} => vendor = "anthropic") /\ parseResponse(n, thoughts, k)
         /\ at' = IF choices \/ vendor # "openai" THEN "ok" ELSE "error"
    /\ UNCHANGED <<input, sent, toolMap, shown, cancelled>>

\* OpenAICompat.Chat tries again; the others, and a cancelled request, fail.
FailChat ==
    /\ at = "asking"
    /\ attempts' = attempts + 1
    /\ at' = IF vendor = "openai" /\ attempts' < MaxAttempts /\ ~cancelled THEN "asking" ELSE "error"
    /\ UNCHANGED <<input, sent, answer, cancelled>>

-----------------------------------------------------------------------------
\* Streams.  OpenAI's library ends one at an event it cannot decode; the others
\* pass it over.
Comes(e) ==
    /\ at = "streaming" /\ Len(events) < MaxEvents
    /\ ~e.read => vendor # "openai"
    /\ events' = Append(events, e)
    /\ UNCHANGED <<input, sent, ended, toolCalls, attempts, cancelled, at>>
Number == Len(events) + 1

\* A text goes on to the callback; Anthropic's also if the library failed to add
\* it to the message.
TextDelta(read) ==
    /\ Comes(Event("text", 0, 0, read))
    /\ content' = IF read THEN Append(content, Number) ELSE content
    /\ shown' = IF read \/ vendor = "anthropic" THEN Append(shown, Number) ELSE shown
    /\ UNCHANGED toolMap

\* Anthropic's thoughts become part of the content and do not go to the callback.
ThinkingDelta(read) ==
    /\ vendor = "anthropic"
    /\ Comes(Event("thinking", 0, 0, read))
    /\ content' = IF read THEN Append(content, Number) ELSE content
    /\ UNCHANGED <<toolMap, shown>>

\* The fragments of a call are kept together: OpenAI's by the index they bear,
\* whichever it is, one without an index by 0; Anthropic's block by block.
\* Google's calls come whole, Ollama's are not looked at in a stream.
Begun == {events[p].call : p \in {q \in DOMAIN events : events[q].kind = "call"}}
CallDelta(c, i, read) ==
    /\ vendor # "openai" =>
         /\ i = c /\ Begun = 0..(Cardinality(Begun) - 1)
         /\ c = Cardinality(Begun) \/ (vendor = "anthropic" /\ c \in Begun)
    /\ Comes(Event("call", c, i, read))
    /\ toolMap' = IF read /\ vendor # "ollama" THEN [toolMap EXCEPT ![i] = Append(@, Number)] ELSE toolMap
    /\ UNCHANGED <<content, shown>>

\* The calls in order; OpenAI's loop "for i := 0; i < len(toolMap); i++" finds
\* those of these indexes.
Present == {i \in Indexes : toolMap[i] # << >>}
Found == IF vendor = "openai" THEN {i \in Present : i < Cardinality(Present)} ELSE Present
Collected ==
    {[j \in 1..Cardinality(Found) |-> toolMap[is[j]]] :
       is \in {f \in [1..Cardinality(Found) -> Found] : \A j, k \in DOMAIN f : j < k => f[j] < f[k]}}

Finish(whole) ==
    /\ at' = "ok" /\ ended' = whole
    /\ shown' = Append(shown, Done)
    /\ toolCalls' \in Collected
    /\ UNCHANGED <<input, sent, events, content, toolMap, attempts, cancelled>>

StreamEnds == at = "streaming" /\ Finish(TRUE)

\* OpenAI's and Anthropic's libraries report a stream that breaks; the scanner
\* that reads Google's and Ollama's lines only stops, and nobody asks it why.
StreamBreaks ==
    /\ at = "streaming"
    /\ IF vendor \in {"openai", "anthropic"}
       THEN at' = "error" /\ UNCHANGED <<input, sent, answer, attempts, cancelled>>
       ELSE Finish(FALSE)

\* The stream is refused from the start.
StreamRefused ==
    /\ at = "streaming" /\ events = << >>
    /\ at' = "error"
    /\ UNCHANGED <<input, sent, answer, attempts, cancelled>>

Next ==
    \/ Chat \/ ChatStream \/ Cancel \/ Respond \/ FailChat
    \/ (\E read \in BOOLEAN : TextDelta(read) \/ ThinkingDelta(read))
    \/ (\E c \in MadeCalls, i \in Indexes, read \in BOOLEAN : CallDelta(c, i, read))
    \/ StreamEnds \/ StreamBreaks \/ StreamRefused

Spec == Init /\ [][Next]_vars

-----------------------------------------------------------------------------
TypeOK ==
    /\ vendor \in Vendors /\ events \in Seq(Events) /\ Len(events) <= MaxEvents
    /\ ended \in BOOLEAN
    /\ content \in Seq(1..MaxEvents) /\ shown \in Seq(0..MaxEvents)
    /\ toolMap \in [Indexes -> Seq(1..MaxEvents)] /\ toolCalls \in Seq(Seq(1..MaxEvents))
    /\ at \in {"idle", "asking", "streaming", "ok", "error"}
    /\ cancelled \in BOOLEAN /\ attempts \in 0..MaxAttempts

\* What has come of the answer: its events of these kinds, and those of a call.
Come(kinds) == {p \in DOMAIN events : events[p].kind \in kinds}
Read(ps) == {p \in ps : events[p].read}
FragmentsOf(c) == {p \in Come({"call"}) : events[p].call = c}
Lists(s, ps) == Range(s) = ps /\ \A i, j \in DOMAIN s : i < j => s[i] < s[j]

\* The model numbers its calls from 0 and every fragment bears its call's number.
Numbered ==
    /\ \A p \in Come({"call"}) : events[p].index = events[p].call
    /\ Begun = 0..(Cardinality(Begun) - 1)

\* A response is what came, in order: every text that could be read, and no
\* fragment in two calls or twice; and, if all could be read and the calls are
\* numbered as they should, each call whole and by itself, except that a stream
\* of Ollama's gives none.  OpenAI's and Anthropic's give nothing less than the
\* whole answer; a broken stream of Google's or Ollama's passes for a shorter one.
\* The callback has been given each text once, in order, then "done".
ResponseIsWhole ==
    at = "ok" =>
        /\ vendor \in {"openai", "anthropic"} => ended
        /\ Lists(content, Read(Come({"text", "thinking"})))
        /\ shown # << >> =>
             /\ Last(shown) = Done
             /\ Lists(Front(shown), IF vendor = "anthropic" THEN Come({"text"}) ELSE Read(Come({"text"})))
        /\ \A i, j \in DOMAIN toolCalls :
             /\ \A k, l \in DOMAIN toolCalls[i] : k < l => toolCalls[i][k] < toolCalls[i][l]
             /\ i # j => Range(toolCalls[i]) \cap Range(toolCalls[j]) = {}
             /\ Range(toolCalls[i]) # {} /\ Range(toolCalls[i]) \subseteq Read(Come({"call"}))
        /\ Numbered /\ Read(DOMAIN events) = DOMAIN events /\ (vendor = "ollama" => shown = << >>) =>
             /\ DOMAIN toolCalls = 1..Cardinality(Begun)
             /\ \A i \in DOMAIN toolCalls : Lists(toolCalls[i], FragmentsOf(i - 1))

\* Every result in a request comes after the call it belongs to and is tied to
\* it, by its identifier or, for Google, by the name of the function; Ollama
\* is told of neither.
ResultsKeepTheirCalls ==
    at # "idle" /\ vendor # "ollama" =>
        LET all == FlattenSeq([i \in DOMAIN sent |-> sent[i].parts])
            results == {i \in DOMAIN all : all[i].kind = "result"}
            given == {i \in DOMAIN request : request[i].role = "tool"}
        IN /\ Cardinality(results) = Cardinality(given)
           /\ \A r \in results : \E c \in 1..(r - 1) : all[c] = Part("call", all[r].key)
=============================================================================
