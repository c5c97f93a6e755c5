------------------------------ MODULE MCPServer ------------------------------
(***************************************************************************)
(* "polypod mcp serve" (internal/mcpserver): the program's built-in skills *)
(* for another assistant, one JSON request per line of the standard input, *)
(* read, carried out and answered before the next one is read.             *)
(***************************************************************************)
EXTENDS Naturals, Sequences, SequencesExt

CONSTANTS Skills,    \* the built-in ones
          MaxLines   \* bound

MCPServerAssumption == MaxLines \in Nat

VARIABLES input,   \* everything the client wrote
          open,    \* the client may write more
          read,    \* lines the server has read
          output,  \* what it answered
          serving, \* Serve has not returned
          lost,    \* history: lines whose answer could not be written
          broken   \* history: reading failed

vars == <<input, open, read, output, serving, lost, broken>>

Methods == {"initialize", "notifications/initialized", "tools/list", "tools/call", "other"}
NoID == 0        \* a notification has none
\* A line: a request, or text that is not JSON; "whole" when it ends in a
\* newline.  The client numbers its requests.
Request == [method : Methods, id : 0..MaxLines, params : {"none", "bad"} \cup Skills \cup {"stranger"}]
Line == [json : {TRUE}, whole : BOOLEAN, req : Request]
        \cup [json : {FALSE}, whole : BOOLEAN, req : {"none"}]

Init ==
    /\ input = << >> /\ read = 0 /\ output = << >>
    /\ open = TRUE /\ serving = TRUE
    /\ lost = {} /\ broken = FALSE

\* The client writes another line, or ends, perhaps in the middle of one.  What
\* it writes to a server that has stopped is left out.
Write(l) ==
    /\ open /\ serving /\ Len(input) < MaxLines
    /\ l.json => l.req.id \in {NoID, Len(input) + 1}
    /\ l.json => (l.req.params # "none") = (l.req.method = "tools/call")
    /\ input' = Append(input, l) /\ open' = l.whole
    /\ UNCHANGED <<read, output, serving, lost, broken>>

Close ==
    /\ open /\ open' = FALSE
    /\ UNCHANGED <<input, read, output, serving, lost, broken>>

-----------------------------------------------------------------------------
Answer(req, what) == [id |-> req.id, what |-> what]

\* Bad parameters are an error of the protocol; the name of no skill gives a
\* result marked as an error, and a skill that fails one that is not marked.
callTool(req) ==
    IF req.params = "bad" THEN {Answer(req, "invalid_params")}
    ELSE {Answer(req, IF req.params \in Skills THEN "result" ELSE "marked")}

listTools(req) == Answer(req, "tools")

\* What may be answered to a request: nothing to "notifications/initialized",
\* an error to what is not known, notifications too.
handleRequest(req) ==
    CASE req.method = "initialize" -> {<<Answer(req, "hello")>>}
      [] req.method = "notifications/initialized" -> {<< >>}
      [] req.method = "tools/list" -> {<<listTools(req)>>}
      [] req.method = "tools/call" -> {<<a>> : a \in callTool(req)}
      [] OTHER -> {<<Answer(req, "unknown_method")>>}

\* Mutant: the line after a notification is taken with it.
ServeSkips ==
    /\ serving /\ read < Len(input)
    /\ LET l == input[read + 1]
       IN IF ~l.whole THEN serving' = FALSE /\ UNCHANGED <<read, output>>
          ELSE /\ UNCHANGED serving
               /\ read' = read + IF l.json /\ l.req.method = "notifications/initialized" THEN 2 ELSE 1
               /\ IF ~l.json THEN UNCHANGED output
                  ELSE \E a \in handleRequest(l.req) : output' = output \o a
    /\ UNCHANGED <<input, open, lost, broken>>

\* One turn of the loop.  The end of the input within a line loses that line; an
\* answer that cannot be written is lost, and the server goes on.
Serve ==
    /\ serving /\ read < Len(input)
    /\ LET l == input[read + 1]
       IN IF ~l.whole THEN serving' = FALSE /\ UNCHANGED <<read, output, lost>>
          ELSE /\ read' = read + 1 /\ UNCHANGED serving
               /\ \/ UNCHANGED lost
                     /\ IF ~l.json THEN UNCHANGED output
                        ELSE \E a \in handleRequest(l.req) : output' = output \o a
                  \/ l.json /\ lost' = lost \cup {read'} /\ UNCHANGED output
    /\ UNCHANGED <<input, open, broken>>

EndOfInput ==
    /\ serving /\ read = Len(input) /\ ~open
    /\ serving' = FALSE /\ UNCHANGED <<input, open, read, output, lost, broken>>

\* Any other error of reading ends the server.
ReadError ==
    /\ serving /\ serving' = FALSE /\ broken' = TRUE
    /\ UNCHANGED <<input, open, read, output, lost>>

Next == (\E l \in Line : Write(l)) \/ Close \/ Serve \/ EndOfInput \/ ReadError
Spec == Init /\ [][Next]_vars

-----------------------------------------------------------------------------
TypeOK ==
    /\ input \in Seq(Line) /\ read \in 0..Len(input)
    /\ open \in BOOLEAN /\ serving \in BOOLEAN /\ broken \in BOOLEAN /\ lost \subseteq 1..read

\* Whatever is between them, the requests that were read are answered once
\* each, in order and under their own numbers, but for those whose answer could
\* not be written, and a server that stops, unless it could not read, has read
\* every whole line.
Asked(n) == input[n].json /\ input[n].req.method # "notifications/initialized"
AnswersInOrder ==
    /\ \E of \in [DOMAIN output -> {n \in 1..read : Asked(n)}] :
         /\ \A i, j \in DOMAIN output : i < j => of[i] < of[j]
         /\ \A n \in 1..read : Asked(n) => n \in lost \/ \E i \in DOMAIN output : of[i] = n
         /\ \A i \in DOMAIN output : output[i].id = input[of[i]].req.id
    /\ ~serving /\ ~broken => \A n \in DOMAIN input : input[n].whole => n <= read
=============================================================================
