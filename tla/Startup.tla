------------------------------ MODULE Startup ------------------------------
(***************************************************************************)
(* The life of the process (main.go): the set-up wizard (internal/setup),  *)
(* the .env files (internal/dotenv), the configuration (internal/config,   *)
(* internal/configval), the check of the API key, the database and the MCP *)
(* servers it opens, the channels it serves, and its end.  What survives a *)
(* process is the environment it is started in and the files.  Of the      *)
(* configuration there are the API key, which the file gives or takes from *)
(* the environment, the channels, the database and whether the rest is     *)
(* sound.  config.d is read and merged, but nothing uses the result.       *)
(***************************************************************************)
EXTENDS Naturals, Sequences

CONSTANTS Keys, NoKey,  \* API keys, and none (or a placeholder)
          Accepted,     \* the keys the vendor accepts
          Channels,     \* of "cli", "rest", "telegram", "whatsapp" and "web"
          Missing, Torn, \* no file, a file that is no YAML
          MaxStarts, MaxEdits

VARIABLES outer, dotenv, local, file,  \* the environment, .env, .env.local, config.yaml
          env, cfg, headless,          \* of the process
          open, channel, stop, failed, \* what it holds open; whether it has to end
          heard,                       \* the session hooks that fired
          asked, saved,                \* history: a key was asked for; the last one saved
          at, exit, starts, edits

files == <<outer, dotenv, local, file>>
process == <<env, cfg, headless, open, channel, stop, failed, heard>>
vars == <<files, process, asked, saved, at, exit, starts, edits>>

Key == Keys \cup {NoKey}
Drivers == {"off", "", "sqlite", "postgres", "unknown"}
Config == [ref : BOOLEAN, key : Key, channels : SUBSET Channels, db : Drivers, sound : BOOLEAN]
StartupAssumption ==
    /\ NoKey \notin Keys /\ Accepted \subseteq Keys /\ "cli" \in Channels
    /\ Missing \notin Config /\ Torn \notin Config

Blank == [ref |-> FALSE, key |-> NoKey, channels |-> {}, db |-> "off", sound |-> TRUE]
Off == [c \in Channels |-> "off"]

Init ==
    /\ outer \in Key /\ dotenv \in Key /\ local \in Key
    /\ file \in {Missing, [Blank EXCEPT !.ref = TRUE, !.channels = Channels, !.db = ""]}
    /\ env = NoKey /\ cfg = Blank /\ headless = FALSE
    /\ open = {} /\ channel = Off /\ stop = FALSE /\ failed = FALSE /\ heard = << >>
    /\ asked = FALSE /\ saved = NoKey
    /\ at = "off" /\ exit = "none" /\ starts = 0 /\ edits = 0

\* Somebody changes the environment or a file between two runs.
Edit ==
    /\ at = "off" /\ edits < MaxEdits /\ edits' = edits + 1
    /\ \/ outer' \in Key /\ UNCHANGED <<dotenv, local, file, saved>>
       \/ local' \in Key /\ UNCHANGED <<outer, dotenv, file, saved>>
       \/ /\ file \notin {Missing, Torn}
          /\ \E c \in {TRUE, FALSE} \X Key \X BOOLEAN :
               file' = [file EXCEPT !.ref = c[1], !.key = c[2], !.sound = c[3]]
          /\ saved' = NoKey
          /\ UNCHANGED <<outer, dotenv, local>>
    /\ UNCHANGED <<process, asked, at, exit, starts>>

-----------------------------------------------------------------------------
\* A set-up is run when asked for, or when there is no config.yaml and somebody
\* to answer it.
Launch(prompt, setup) ==
    /\ at = "off" /\ starts < MaxStarts /\ starts' = starts + 1
    /\ headless' = prompt
    /\ at' = IF setup \/ (~prompt /\ file = Missing) THEN "wizard" ELSE "env"
    /\ env' = outer /\ cfg' = Blank
    /\ open' = {} /\ channel' = Off /\ stop' = FALSE /\ failed' = FALSE /\ heard' = << >>
    /\ asked' = FALSE /\ exit' = "none"
    /\ UNCHANGED <<files, saved, edits>>

\* The process ends; a Web UI that still serves ends with it.
Ends(why) == at' = "off" /\ exit' = why /\ channel' = Off

Crash ==
    /\ at # "off" /\ Ends("killed")
    /\ UNCHANGED <<files, env, cfg, headless, open, stop, failed, heard, asked, saved, starts, edits>>

\* os.WriteFile of a configuration: done, refused, or cut by an error or the end
\* of the process, which leaves no YAML or an empty file.
WriteConfig(c, next) ==
    \/ file' = c /\ saved' = c.key /\ at' = next /\ UNCHANGED <<exit, channel>>
    \/ UNCHANGED <<file, saved>> /\ Ends("setup")
    \/ file' \in {Torn, Blank} /\ saved' = NoKey /\ Ends("killed")

\* What the wizard's questions lead to: a custom provider's address and a bot's
\* token may be left empty.  It does not ask about the Web UI.
DefaultConfig == [Blank EXCEPT !.channels = {"cli"}]
Answers == [ref : {FALSE}, key : Key,
            channels : {DefaultConfig.channels \cup more : more \in SUBSET (Channels \ {"web"})},
            db : {"off", "sqlite", "postgres"}, sound : BOOLEAN]

Run ==
    /\ at = "wizard"
    /\ \/ \E c \in Answers :
            \/ WriteConfig(c, "env")
            \/ file' = c /\ saved' = c.key /\ Ends("setup")   \* a directory or the agent's file fails
       \/ UNCHANGED <<file, saved>> /\ Ends("setup")
    /\ UNCHANGED <<outer, dotenv, local, env, cfg, headless, open, stop, failed, heard, asked, starts, edits>>

\* A line of a .env file does not replace what is set.
loadFile(e, line) == IF e # NoKey THEN e ELSE line

Step(from, to) == at = from /\ at' = to
LoadEnv ==
    /\ Step("env", "load")
    /\ env' = loadFile(loadFile(env, dotenv), local)
    /\ UNCHANGED <<files, cfg, headless, open, channel, stop, failed, heard, asked, saved, exit, starts, edits>>

Expand(c) == IF c.ref /\ env # NoKey THEN env ELSE c.key
setDefaults(c) == [c EXCEPT !.db = IF @ = "" THEN "postgres" ELSE @]

Load ==
    /\ at = "load"
    /\ IF file \in {Missing, Torn} THEN Ends("load") /\ UNCHANGED cfg
       ELSE /\ cfg' = setDefaults([file EXCEPT !.key = Expand(file)])
            /\ at' = "validate" /\ UNCHANGED <<exit, channel>>
    /\ UNCHANGED <<files, env, headless, open, stop, failed, heard, asked, saved, starts, edits>>

HasErrors(c) == c.key = NoKey \/ c.db = "unknown" \/ ~c.sound
Validate ==
    /\ at = "validate"
    /\ IF HasErrors(cfg) THEN Ends("invalid")
       ELSE at' = (IF headless THEN "db" ELSE "key") /\ UNCHANGED <<exit, channel>>
    /\ UNCHANGED <<files, env, cfg, headless, open, stop, failed, heard, asked, saved, starts, edits>>

\* A key passes if the vendor answers and does not refuse it: any other failure
\* counts as accepted.
VendorSays(k) == {IF k \in Accepted THEN "yes" ELSE "refused", "failure", "unreachable"}
validateKey(k) == {says \notin {"refused", "unreachable"} : says \in VendorSays(k)}
needsAPIKey ==
    /\ at = "key"
    /\ \E ok \in validateKey(cfg.key) : at' = IF ok THEN "db" ELSE "ask"
    /\ UNCHANGED <<files, process, asked, saved, exit, starts, edits>>

\* What is saved: the configuration in use, its references replaced; a custom
\* provider's address may be left empty.
Chosen(k) == {[cfg EXCEPT !.ref = FALSE, !.key = k, !.sound = s] : s \in BOOLEAN}

CheckAPIKey ==
    /\ at = "ask" /\ asked' = TRUE
    /\ \/ Ends("key") /\ UNCHANGED <<cfg, file, saved>>   \* nothing typed
       \/ \E k \in Keys : \E c \in Chosen(k) :
            /\ cfg' = [c EXCEPT !.ref = cfg.ref]
            /\ \/ WriteConfig(c, "db")
               \/ at' = "db" /\ UNCHANGED <<file, saved, exit, channel>>
    /\ UNCHANGED <<outer, dotenv, local, env, headless, open, stop, failed, heard, starts, edits>>

-----------------------------------------------------------------------------
\* A database that cannot be opened or migrated ends the process, its deferred
\* calls left out.
OpenDatabase ==
    /\ at = "db"
    /\ IF cfg.db = "off" THEN at' = "boot" /\ UNCHANGED <<open, exit, channel>>
       ELSE \/ at' = "boot" /\ open' = open \cup {"db"} /\ UNCHANGED <<exit, channel>>
            \/ Ends("database") /\ UNCHANGED open
    /\ UNCHANGED <<files, env, cfg, headless, stop, failed, heard, asked, saved, starts, edits>>

Group == cfg.channels \ {"web"}   \* the channels the end waits for

\* MCP servers that cannot be reached are passed over; then the hooks hear of
\* the session, and a prompt is answered or the channels start.
Boot ==
    /\ at = "boot"
    /\ \E mcp \in BOOLEAN : open' = open \cup (IF mcp THEN {"mcp"} ELSE {})
    /\ heard' = Append(heard, "SessionStart")
    /\ IF headless THEN at' = "headless" /\ UNCHANGED channel
       ELSE /\ at' = IF Group = {} THEN "waiting" ELSE "serving"
            /\ channel' = [c \in Channels |-> IF c \in cfg.channels THEN "serving" ELSE "off"]
    /\ UNCHANGED <<files, env, cfg, headless, stop, failed, asked, saved, exit, starts, edits>>

Headless ==
    /\ Step("headless", "closing")
    /\ failed' \in BOOLEAN
    /\ UNCHANGED <<files, env, cfg, headless, open, channel, stop, heard, asked, saved, exit, starts, edits>>

Signal ==
    /\ at \in {"db", "boot", "headless", "serving", "waiting"} /\ ~stop /\ stop' = TRUE
    /\ UNCHANGED <<files, env, cfg, headless, open, channel, failed, heard, asked, saved, at, exit, starts, edits>>

\* A channel ends when told to, or by itself.  The error of the CLI ends the
\* others of the group; that of another channel is only logged; the Web UI is
\* told by the signal alone.
ChannelEnds(c) ==
    /\ at \in {"serving", "waiting", "closing", "ending"} /\ channel[c] = "serving"
    /\ channel' = [channel EXCEPT ![c] = "ended"]
    /\ failed' \in {failed, failed \/ (c = "cli" /\ at = "serving")}
    /\ UNCHANGED <<files, env, cfg, headless, open, stop, heard, asked, saved, at, exit, starts, edits>>

\* Mutant: the end does not wait for the channels other than the CLI.
WaitForCLI == channel["cli"] = "ended"

\* errgroup.Group.Wait
Wait == \A c \in Group : channel[c] = "ended"

Shutdown ==
    /\ Step("serving", "closing") /\ Wait
    /\ heard' = Append(heard, "SessionEnd")
    /\ UNCHANGED <<files, env, cfg, headless, open, channel, stop, failed, asked, saved, exit, starts, edits>>

\* With no channel in the group only the signal ends the wait; no hook hears it.
StopWaiting ==
    /\ Step("waiting", "closing") /\ stop
    /\ UNCHANGED <<files, process, asked, saved, exit, starts, edits>>

\* The deferred calls of run, then of main; a fatal error leaves out the latter.
CloseServers ==
    /\ Step("closing", "ending") /\ open' = open \ {"mcp"}
    /\ UNCHANGED <<files, env, cfg, headless, channel, stop, failed, heard, asked, saved, exit, starts, edits>>

Exit ==
    /\ at = "ending"
    /\ IF failed THEN Ends("fatal") /\ UNCHANGED open ELSE Ends("ok") /\ open' = {}
    /\ UNCHANGED <<files, env, cfg, headless, stop, failed, heard, asked, saved, starts, edits>>

Next ==
    \/ Edit \/ (\E p, s \in BOOLEAN : Launch(p, s)) \/ Crash
    \/ Run \/ LoadEnv \/ Load \/ Validate \/ needsAPIKey \/ CheckAPIKey
    \/ OpenDatabase \/ Boot \/ Headless \/ Signal \/ (\E c \in Channels : ChannelEnds(c))
    \/ Shutdown \/ StopWaiting \/ CloseServers \/ Exit

Spec == Init /\ [][Next]_vars

-----------------------------------------------------------------------------
TypeOK ==
    /\ outer \in Key /\ dotenv \in Key /\ local \in Key /\ env \in Key /\ saved \in Key
    /\ file \in Config \cup {Missing, Torn} /\ cfg \in Config
    /\ open \subseteq {"db", "mcp"} /\ channel \in [Channels -> {"off", "serving", "ended"}]
    /\ {headless, stop, failed, asked} \subseteq BOOLEAN

\* From the check of the database on the process uses a key, and it is the one
\* a person typed in this run or, if they saved one before and nobody has
\* changed the file since, that one; otherwise the one the file names or, where
\* it refers to the environment, that of the environment the process was
\* started in, or else one of those the .env files set.
KeyIsTheOneSet ==
    at \in {"db", "boot", "headless", "serving", "waiting"} /\ ~asked =>
        /\ cfg.key # NoKey
        /\ saved # NoKey => cfg.key = saved
        /\ file.ref =>
             CASE outer # NoKey -> cfg.key = outer
               [] outer = NoKey /\ {dotenv, local} # {NoKey} -> cfg.key \in {dotenv, local}
               [] OTHER -> cfg.key = file.key

\* The hooks hear of the end of a session once, after its start, when every
\* channel has ended and before what they use is closed; so no channel but the
\* Web UI, which nobody waits for, serves without its database.
SessionIsFramed ==
    /\ heard \in {<< >>, <<"SessionStart">>, <<"SessionStart", "SessionEnd">>}
    /\ (\E c \in Channels \ {"web"} : channel[c] = "serving") =>
         /\ heard = <<"SessionStart">>
         /\ cfg.db # "off" => "db" \in open
    /\ at \in {"closing", "ending"} /\ ~headless /\ Group # {} => Len(heard) = 2
=============================================================================
