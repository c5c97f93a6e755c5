----------------------------- MODULE MCChannels -----------------------------
(* How a message and its answer travel: the channels that stream an answer   *)
(* to a user who watches, WhatsApp, which is polled, and the terminal with   *)
(* its commands, its history and its screen.  They share no state; a         *)
(* behaviour moves one of them.                                              *)
EXTENDS Streaming

CONSTANTS Messages, Texts, MaxFaults,  \* WhatsApp
          Typed, CommandOf, LinesOf, CompletionsOf, Named,  \* Terminal
          HistorySize, MaxTyped, MaxPieces, MaxBreaks, MaxStarts

VARIABLES channel,  \* the one that moves
          queue, arrived, at, held, done, replies, faults,
          prompt, input, tab, screen, buffer, entries, cursor, file, active, session, disk, reply,
          clipboard, exported, asked, typed, kept, inputs, restarts

W == INSTANCE WhatsApp

\* "two lines" is a message of two lines, and "/c" the beginning of a command.
MCTyped == {"two lines", "/c", "/clear", "/copy", "/agent", "/quit"}
Does(name, arg) == [name |-> name, arg |-> arg]
MCCommands == [t \in MCTyped |-> CASE t = "two lines" -> Does("chat", "")
                                  [] t = "/c" -> Does("unknown", "")
                                  [] t = "/clear" -> Does("clear", "")
                                  [] t = "/copy" -> Does("copy", "")
                                  [] t = "/agent" -> Does("agent", "devops")
                                  [] t = "/quit" -> Does("quit", "")]
MCLines == [t \in MCTyped |-> IF t = "two lines" THEN <<"/c", "/copy">> ELSE <<t>>]
MCCompletions == [t \in MCTyped |-> IF t = "/c" THEN <<"/clear", "/copy">> ELSE << >>]
T == INSTANCE Terminal
       WITH Texts <- Typed, Command <- CommandOf, Lines <- LinesOf, Completions <- CompletionsOf,
            Agents <- Named, MaxHistory <- HistorySize, MaxInputs <- MaxTyped, MaxDeltas <- MaxPieces,
            MaxRounds <- MaxBreaks, MaxRestarts <- MaxStarts,
            ui <- prompt, turn <- asked, saved <- kept

ASSUME ChannelsAssumption == W!WhatsAppAssumption /\ T!TerminalAssumption

wVars == <<queue, arrived, at, held, done, replies, faults>>
tVars == <<prompt, input, tab, screen, buffer, entries, cursor, file, active, session, disk, reply,
           clipboard, exported, asked, typed, kept, inputs, restarts>>

\* What does not move has one state only.
ChannelsInit ==
    /\ Init /\ W!Init /\ T!Init
    /\ channel \in {"stream", "whatsapp", "terminal"}
    /\ channel # "whatsapp" => held = CHOOSE m \in Messages : TRUE
    /\ channel # "stream" => path = CHOOSE p \in Consumers \X {"router"} : TRUE

ChannelsNext ==
    \/ channel = "stream" /\ Next /\ UNCHANGED <<channel, wVars, tVars>>
    \/ channel = "whatsapp" /\ W!Next /\ UNCHANGED <<channel, vars, tVars>>
    \/ channel = "terminal" /\ T!Next /\ UNCHANGED <<channel, vars, wVars>>

\* Nothing these actions need holds before the first message, so the channel
\* that does not move owes no step.
ChannelsSpec ==
    /\ ChannelsInit /\ [][ChannelsNext]_<<channel, vars, wVars, tVars>>
    /\ \A t \in Turn :
         WF_vars(Handle(t)) /\ WF_vars(Loop(t)) /\ WF_vars(Forward(t)) /\ WF_vars(Update(t))
    /\ WF_wVars(W!Poll)

-----------------------------------------------------------------------------
TypesOK == TypeOK /\ W!TypeOK /\ T!TypeOK

\* Every message gets its turn: nothing stays blocked behind an answer, and
\* every notification is handled.
NothingIsStuck == GoroutinesEnd /\ W!EventuallyHandled

\* A notification is answered in its turn, and again only after a failure.
InTurn == W!DuplicatesBounded /\ W!InOrder

TerminalConsistent == T!TerminalConsistent
=============================================================================
