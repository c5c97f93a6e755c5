------------------------------ MODULE Terminal ------------------------------
(***************************************************************************)
(* The terminal channel (internal/adapter/cli): keys, the input line with  *)
(* its completion and its history, slash commands, and the conversation on *)
(* the screen beside the session that the message pipeline keeps.  Update  *)
(* handles one message of the UI at a time.  How an answer's chunks travel *)
(* is in Streaming; here they arrive one by one.                           *)
(***************************************************************************)
EXTENDS Naturals, Sequences, SequencesExt

CONSTANTS Texts,        \* what a user types
          Command,      \* the command in each, "chat" if it is none
          Lines,        \* the lines the history file holds of it
          Completions,  \* the commands each text is a proper prefix of
          Agents,       \* names given to /agent switch
          MaxHistory,   \* entries kept (1000 in the code)
          MaxInputs, MaxRestarts,        \* bounds
          MaxDeltas, MaxRounds           \* of a text and of the calls; one round less with each turn

Blank == ""
TerminalAssumption ==
    /\ Blank \notin Texts
    /\ DOMAIN Command = Texts /\ DOMAIN Lines = Texts
    /\ \A t \in Texts : Lines[t] \in Seq({s \in Texts : Lines[s] = <<s>>}) \ {<< >>}
    /\ Completions \in [Texts -> Seq(Texts)]
    /\ "default" \in Agents
    /\ \A t \in Texts : Command[t].name = "agent" => Command[t].arg \in Agents \cup {Blank}
    /\ MaxHistory \in Nat \ {0} /\ MaxInputs \in Nat /\ MaxDeltas \in Nat /\ MaxRounds \in Nat /\ MaxRestarts \in Nat

VARIABLES ui,         \* "idle", "streaming" or "quit"
          input,      \* the text in the input line
          tab,        \* tabIndex (0 for none) and tabMatches
          screen,     \* messages
          buffer,     \* streaming: the pieces of the answer shown
          entries, cursor,  \* inputHistory; the cursor is one past the code's
          file,       \* data/cli_history
          active,     \* the agent of the AI service
          session, disk,  \* the replies in the session, and in its file
          reply,      \* the answer under way: what of it would be saved
          clipboard, exported,
          turn, typed, saved,  \* history: turns, the last input, no write failed
          inputs, restarts

line == <<input, tab>>
past == <<entries, cursor, file, typed, saved>>
talk == <<session, disk, reply, turn>>
out == <<clipboard, exported>>
vars == <<ui, line, screen, buffer, past, active, talk, out, inputs, restarts>>

-----------------------------------------------------------------------------
NoTab == [index |-> 0, matches |-> << >>]
Entry(role, text, parts) == [role |-> role, text |-> text, parts |-> parts]
Says(o) == Entry("system", o, << >>)
Kept(es) == IF Len(es) <= MaxHistory THEN es ELSE SubSeq(es, Len(es) - MaxHistory + 1, Len(es))

\* inputHistory.load: the lines of the file, at most so many.
Load(f) == Kept(FlattenSeq([i \in DOMAIN f |-> Lines[f[i]]]))

Init ==
    /\ ui = "idle" /\ input = Blank /\ tab = NoTab
    /\ screen = << >> /\ buffer = << >>
    /\ file = << >> /\ entries = Load(file) /\ cursor = Len(entries) + 1
    /\ active = "default"
    /\ session = << >> /\ disk = << >>
    /\ reply = [at |-> "none", parts |-> << >>]
    /\ clipboard = << >> /\ exported = << >>
    /\ turn = 0 /\ typed = Blank /\ saved = TRUE
    /\ inputs = 0 /\ restarts = 0

\* Mutant: the text of an answer that failed is kept.
KeepBuffer == UNCHANGED buffer

\* streaming.Reset.
ResetBuffer == buffer' = << >>

-----------------------------------------------------------------------------
\* Keys while nothing streams.
Idle == ui = "idle"
SetInput(t) == input' = t

\* Typing ends a completion.
Type(t) ==
    /\ Idle /\ inputs < MaxInputs
    /\ SetInput(t) /\ tab' = NoTab
    /\ UNCHANGED <<ui, screen, buffer, past, active, talk, out, inputs, restarts>>

\* Tab: the first press collects the matches, the next ones go round.
TryTabComplete ==
    /\ Idle
    /\ LET matches == IF tab.index = 0 THEN IF input \in Texts THEN Completions[input] ELSE << >>
                      ELSE tab.matches
           next == IF tab.index = 0 THEN 1 ELSE (tab.index % Len(matches)) + 1
       IN IF matches = << >> THEN UNCHANGED line
          ELSE SetInput(matches[next]) /\ tab' = [index |-> next, matches |-> matches]
    /\ UNCHANGED <<ui, screen, buffer, past, active, talk, out, inputs, restarts>>

\* Up: Previous; at the oldest entry nothing changes.
Up ==
    /\ Idle /\ tab' = NoTab
    /\ IF cursor <= 1 THEN UNCHANGED <<cursor, input>>
       ELSE cursor' = cursor - 1 /\ SetInput(entries[cursor'])
    /\ UNCHANGED <<ui, screen, buffer, entries, file, typed, saved, active, talk, out, inputs, restarts>>

\* Down: Next; past the newest entry the line is empty.
Down ==
    /\ Idle /\ tab' = NoTab
    /\ IF cursor >= Len(entries) THEN cursor' = Len(entries) + 1 /\ SetInput(Blank)
       ELSE cursor' = cursor + 1 /\ SetInput(entries[cursor'])
    /\ UNCHANGED <<ui, screen, buffer, entries, file, typed, saved, active, talk, out, inputs, restarts>>

CtrlL ==
    /\ Idle /\ screen' = << >>
    /\ UNCHANGED <<ui, line, buffer, past, active, talk, out, inputs, restarts>>

Esc ==
    /\ Idle /\ SetInput(Blank) /\ tab' = NoTab
    /\ UNCHANGED <<ui, screen, buffer, past, active, talk, out, inputs, restarts>>

-----------------------------------------------------------------------------
\* Enter.  History.Add: not twice in a row; the file is written as a whole, or
\* not at all if it cannot be opened.
Add(t) ==
    /\ typed' = t
    /\ IF entries # << >> /\ Last(entries) = t THEN UNCHANGED <<entries, file, saved>>
       ELSE /\ entries' = Kept(Append(entries, t))
            /\ \/ file' = entries' /\ UNCHANGED saved
               \/ UNCHANGED file /\ saved' = FALSE
    /\ cursor' = Len(entries') + 1

\* What a command writes on the screen.
Output == {"text", "none", "error", "usage"}
runShellCmd == {"text", "none", "error"}
handleRun == {"text", "none", "error"}
handleFile == {"text", "error"}
handleSearch == {"text", "none", "error"}
handleGit(sub) == IF sub \in {Blank, "status", "log", "diff", "branch"} THEN runShellCmd ELSE {"usage"}
handleMemoryList == {"text", "none", "error"}
handleMemorySearch == {"text", "none", "error"}
handleMemory(sub) ==
    CASE sub = "list" -> handleMemoryList
      [] sub = "search" -> handleMemorySearch
      [] OTHER -> {"usage"}
handleSession == {"text", "error"}
helpText == {"text"}
handleAgents == {"text"}
handleSkills == {"text"}
handleModel == {"text"}
handleContext == {"text"}
handleProject == {"text", "error"}   \* no working directory

\* Commands that only look.
Looks(c) ==
    CASE c.name = "help" -> helpText
      [] c.name = "agents" -> handleAgents
      [] c.name = "skills" -> handleSkills
      [] c.name = "model" -> handleModel
      [] c.name = "project" -> handleProject
      [] c.name = "context" -> handleContext
      [] c.name = "memory" -> handleMemory(c.arg)
      [] c.name = "session" -> handleSession
      [] c.name = "run" -> IF c.arg = Blank THEN {"usage"} ELSE handleRun
      [] c.name = "file" -> IF c.arg = Blank THEN {"usage"} ELSE handleFile
      [] c.name = "search" -> IF c.arg = Blank THEN {"usage"} ELSE handleSearch
      [] c.name = "git" -> handleGit(c.arg)
      [] c.name = "unknown" -> {"error"}
      [] OTHER -> {}

\* The session is emptied, then saved; a save that fails is reported and the
\* screen stays.  Or the session cannot be had.
handleClear ==
    /\ \/ session' = << >> /\ disk' = << >> /\ screen' = <<Says("text")>>
       \/ session' = << >> /\ UNCHANGED disk /\ screen' = Append(screen, Says("error"))
       \/ UNCHANGED <<session, disk>> /\ screen' = Append(screen, Says("error"))
    /\ UNCHANGED <<active, out>>

\* Any name is taken; an agent that is not there is answered for by "default".
handleAgentSwitch(name) ==
    /\ IF name = Blank THEN UNCHANGED active /\ screen' = Append(screen, Says("usage"))
       ELSE active' = name /\ screen' = Append(screen, Says("text"))
    /\ UNCHANGED <<session, disk, out>>

handleCopy ==
    LET i == SelectLastInSeq(screen, LAMBDA e : e.role = "assistant")
    IN /\ \/ i # 0 /\ clipboard' = screen[i].parts /\ screen' = Append(screen, Says("text"))
          \/ UNCHANGED clipboard /\ screen' = Append(screen, Says(IF i = 0 THEN "none" ELSE "error"))
       /\ UNCHANGED <<active, session, disk, exported>>

handleExport ==
    /\ \/ screen # << >> /\ exported' = screen /\ screen' = Append(screen, Says("text"))
       \/ /\ UNCHANGED exported
          /\ screen' = Append(screen, Says(IF screen = << >> THEN "none" ELSE "error"))
    /\ UNCHANGED <<active, session, disk, clipboard>>

handleLook(c) ==
    /\ \E o \in Looks(c) : screen' = Append(screen, Says(o))
    /\ UNCHANGED <<active, session, disk, out>>

processCommand(c) ==
    CASE c.name = "clear" -> handleClear
      [] c.name = "agent" -> handleAgentSwitch(c.arg)
      [] c.name = "copy" -> handleCopy
      [] c.name = "export" -> handleExport
      [] OTHER -> handleLook(c)

Accepted ==
    /\ Idle /\ input # Blank /\ inputs < MaxInputs
    /\ inputs' = inputs + 1
    /\ SetInput(Blank) /\ tab' = NoTab
    /\ Add(input)

EnterCommand ==
    /\ Accepted /\ Command[input].name \notin {"chat", "quit"}
    /\ processCommand(Command[input])
    /\ UNCHANGED <<ui, buffer, reply, turn, restarts>>

EnterQuit ==
    /\ Accepted /\ Command[input].name = "quit"
    /\ ui' = "quit"
    /\ UNCHANGED <<screen, buffer, active, talk, out, restarts>>

\* A message goes to the assistant.
EnterChat ==
    /\ Accepted /\ Command[input].name = "chat"
    /\ screen' = Append(screen, Entry("user", input, << >>))
    /\ ui' = "streaming" /\ ResetBuffer
    /\ turn' = turn + 1
    /\ reply' = [at |-> "running", parts |-> << >>]
    /\ UNCHANGED <<active, session, disk, out, restarts>>

-----------------------------------------------------------------------------
\* The answer: deltas, then the reply saved and Done, or an error, or a
\* refusal, which the forwarder makes a Done without a text.
streamMsg == ui = "streaming" /\ UNCHANGED <<line, past, active, out, inputs, restarts>>

Piece(n) == [turn |-> turn, n |-> n]
Break == Piece(0)

Delta ==
    /\ streamMsg /\ reply.at = "running" /\ Len(reply.parts) < MaxDeltas
    /\ buffer' = Append(buffer, Piece(Len(buffer) + 1))
    /\ reply' = [reply EXCEPT !.parts = Append(@, Piece(Len(buffer) + 1))]
    /\ UNCHANGED <<ui, screen, session, disk, turn>>

\* The model's calls have run: a line break is shown, and the text starts anew.
ToolRound ==
    /\ streamMsg /\ reply.at = "running" /\ turn + Len(SelectSeq(buffer, LAMBDA p : p.n = 0)) <= MaxRounds
    /\ buffer' = Append(buffer, Break)
    /\ reply' = [reply EXCEPT !.parts = << >>]
    /\ UNCHANGED <<ui, screen, session, disk, turn>>

\* AddAssistantMessage in the pipeline, of the text behind the last tools.  It may
\* still run when the user has quit; a save that fails is only logged.
SaveReply ==
    /\ ui # "idle" /\ reply.at = "running"
    /\ reply' = [reply EXCEPT !.at = "saved"]
    /\ session' = Append(session, [turn |-> turn, parts |-> reply.parts])
    /\ disk' \in {session', disk}
    /\ UNCHANGED <<ui, line, screen, buffer, past, active, out, turn, inputs, restarts>>

Done ==
    /\ streamMsg /\ (reply.at = "saved" \/ (reply.at = "running" /\ buffer = << >>))
    /\ ui' = "idle"
    /\ screen' = IF buffer = << >> THEN screen ELSE Append(screen, Entry("assistant", Blank, buffer))
    /\ ResetBuffer
    /\ reply' = [at |-> "none", parts |-> << >>]
    /\ UNCHANGED <<session, disk, turn>>

Error ==
    /\ streamMsg /\ reply.at = "running"
    /\ ui' = "idle"
    /\ screen' = Append(screen, Entry("error", "error", << >>))
    /\ ResetBuffer
    /\ reply' = [at |-> "none", parts |-> << >>]
    /\ UNCHANGED <<session, disk, turn>>

CtrlC ==
    /\ ui # "quit" /\ ui' = "quit"
    /\ UNCHANGED <<line, screen, buffer, past, active, talk, out, inputs, restarts>>

\* The program is started again: newModel, the history and the session from
\* their files, the agent "default".
Restart ==
    /\ ui = "quit" /\ restarts < MaxRestarts
    /\ restarts' = restarts + 1
    /\ ui' = "idle" /\ input' = Blank /\ tab' = NoTab
    /\ screen' = << >> /\ buffer' = << >>
    /\ entries' = Load(file) /\ cursor' = Len(entries') + 1
    /\ typed' = Blank /\ saved' = TRUE
    /\ active' = "default"
    /\ session' = disk /\ reply' = [at |-> "none", parts |-> << >>]
    /\ UNCHANGED <<file, disk, turn, out, inputs>>

Keys == (\E t \in Texts : Type(t)) \/ TryTabComplete \/ Up \/ Down \/ CtrlL \/ Esc \/ CtrlC
Enter == EnterCommand \/ EnterQuit \/ EnterChat
Next == Keys \/ Enter \/ Delta \/ ToolRound \/ SaveReply \/ Done \/ Error \/ Restart

-----------------------------------------------------------------------------
TypeOK ==
    /\ ui \in {"idle", "streaming", "quit"} /\ input \in Texts \cup {Blank}
    /\ tab.index \in 0..Len(tab.matches)
    /\ \A i \in DOMAIN screen : screen[i].role \in {"user", "assistant", "system", "error"}
    /\ Len(entries) <= MaxHistory /\ cursor \in 1..(Len(entries) + 1)
    /\ active \in Agents /\ reply.at \in {"none", "running", "saved"}
    /\ turn \in 0..MaxInputs /\ inputs \in 0..MaxInputs /\ restarts \in 0..MaxRestarts

\* The answers on the screen and the turn of each.
Answers == {i \in DOMAIN screen : screen[i].role = "assistant"}
TurnOf(a) == screen[a].parts[1].turn
Shown == {TurnOf(a) : a \in Answers}
Saved == {session[r].turn : r \in DOMAIN session}

\* A reply is what an answer shows behind its last line break.
EndsWith(shown, text) ==
    /\ IsSuffix(text, shown)
    /\ \A i \in DOMAIN text : text[i].n # 0
    /\ Len(text) < Len(shown) => shown[Len(shown) - Len(text)].n = 0

\* Screen and session hold the same turns in the same order, each once, from
\* where both begin (a clear whose save failed empties the session alone, Ctrl-L
\* the screen alone), but for replies without a text and the one about to be
\* shown; an answer is of one turn, and what was saved of it is its end.  Text
\* that is still streaming belongs to the turn under way.
ScreenFollowsSession ==
    /\ ui # "quit" =>
         /\ \A a, b \in Answers : a < b => TurnOf(a) < TurnOf(b)
         /\ \A r, q \in DOMAIN session : r < q => session[r].turn < session[q].turn
         /\ \A a \in Answers :
              /\ \A i \in DOMAIN screen[a].parts : screen[a].parts[i].turn = TurnOf(a)
              /\ \A r \in DOMAIN session :
                   session[r].turn = TurnOf(a) => EndsWith(screen[a].parts, session[r].parts)
         /\ \A t \in Shown : t \in Saved \/ \A s \in Saved : t < s
         /\ \A r \in DOMAIN session :
              \/ session[r].parts = << >> \/ session[r].turn \in Shown
              \/ \A t \in Shown : session[r].turn < t
              \/ reply.at = "saved" /\ r = Len(session)
    /\ ui = "streaming" => \A i \in DOMAIN buffer : buffer[i].turn = turn

\* Whatever was typed last is what the up key brings first, now and, as far as
\* lines go, after a restart.
HistoryIsKept ==
    /\ typed # Blank => entries # << >> /\ Last(entries) = typed
    /\ saved /\ typed # Blank => IsSuffix(Lines[typed], Load(file)) \/ Len(Lines[typed]) > MaxHistory

\* A completion that is shown as one of several is what stands in the line.
CompletionIsShown == tab.index # 0 => input = tab.matches[tab.index]

TerminalConsistent == ScreenFollowsSession /\ HistoryIsKept /\ CompletionIsShown
=============================================================================
