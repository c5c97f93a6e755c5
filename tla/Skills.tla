------------------------------- MODULE Skills -------------------------------
(***************************************************************************)
(* The skill registry (internal/skill) and what puts skills into it: the   *)
(* start-up sequence of main.go's run, custom skills kept in files,        *)
(* plugins (internal/plugin) and MCP servers (internal/mcp).  Requests run *)
(* concurrently and reach all of it through skills; neither the registry   *)
(* nor the plugin manager has a lock.                                      *)
(***************************************************************************)
EXTENDS Naturals, FiniteSets

CONSTANTS Callers,      \* requests whose model calls skills
          Names,        \* names of skills, mcp_call apart
          Early, Late,  \* names the program registers before, after custom skills
          CustomNames,  \* names create_skill accepts
          Versions,     \* contents of a definition
          Plugins,      \* plugins, each installed in the directory of its name
          SkillOf,      \* the skill of each plugin
          Servers,      \* MCP servers
          ToolOf,       \* the skill each server's tool is registered as
          AutoStart,    \* servers connected at start-up
          None,         \* no file, no directory, no session
          Torn,         \* a file cut before its script by a failed or broken write, a
                        \* plugin's directory without its plugin.yaml
          MaxOps, MaxSessions, MaxStops  \* bounds

SkillsAssumption ==
    /\ Early \subseteq Names /\ Late \subseteq Names /\ Early \cap Late = {}
    /\ CustomNames \subseteq Names /\ AutoStart \subseteq Servers
    /\ SkillOf \in [Plugins -> Names] /\ ToolOf \in [Servers -> Names]
    /\ IsFiniteSet(Servers) /\ "mcp_call" \notin Names
    /\ None \notin Versions /\ Torn \notin Versions /\ None # Torn
    /\ MaxOps \in Nat /\ MaxSessions \in Nat /\ MaxStops \in Nat

VARIABLES up,        \* the process runs
          registry,  \* Registry.skills
          files,     \* data/skills: the version in each custom skill's file
          dirs,      \* the plugins directory: the version in each plugin's
          plugins,   \* plugin.Manager.plugins
          sessions,  \* mcp.Manager.sessions
          made,      \* number of sessions ever opened
          open,      \* sessions that are not closed
          pc, job,   \* what a request is doing
          result,    \* what the last call of a skill gave
          mixed,     \* history: what two requests changed at a time, a copy left half way,
                     \* and what was there and could not be read at the start
          gone,      \* history: sessions that were disconnected
          ops, stops

disk == <<files, dirs>>
memory == <<registry, plugins, sessions>>
history == <<mixed, gone>>
vars == <<up, memory, disk, made, open, pc, job, result, history, ops, stops>>

-----------------------------------------------------------------------------
Impl == [from : {"nothing", "program"}, v : {None}]
        \cup [from : {"custom"}, v : Versions] \cup [from : {"plugin"}, v : Plugins]
        \cup [from : {"mcp"}, v : 1..MaxSessions]
Nothing == [from |-> "nothing", v |-> None]
Program == [from |-> "program", v |-> None]
Custom(v) == [from |-> "custom", v |-> v]

Outcomes == {"none", "unknown", "error", "empty", "output"}
Idle == [op |-> "idle", on |-> "none", v |-> None]
Jobs == {Idle} \cup [op : {"create", "delete"}, on : CustomNames, v : Versions \cup {None}]
               \cup [op : {"install", "remove"}, on : Plugins, v : Versions \cup {None}]
               \cup [op : {"connect", "call"}, on : Servers, v : 1..MaxSessions]

\* The plugins that bring a skill; those that share one come in any order.
FromPlugins(found, n) == {p \in Plugins : SkillOf[p] = n /\ found[p] # None}
LastPlugin(found) == {w \in [Names -> Plugins \cup {None}] :
                         \A n \in Names : FromPlugins(found, n) # {} => w[n] \in FromPlugins(found, n)}

\* The whole start-up, with the files but those unread and the plugins that were
\* found: what is registered later replaces what has its name.
Boot(unread, opened, found, plugin) ==
    LET Loaded(n) == IF n \in CustomNames \ unread /\ files[n] \in Versions THEN Custom(files[n])
                     ELSE IF n \in Early THEN Program ELSE Nothing
        FromServers(n) == {s \in DOMAIN opened : ToolOf[s] = n}
    IN [n \in Names |->
          IF FromServers(n) # {} THEN [from |-> "mcp", v |-> opened[CHOOSE s \in FromServers(n) : TRUE]]
          ELSE IF FromPlugins(found, n) # {} THEN [from |-> "plugin", v |-> plugin[n]]
          ELSE IF n \in Late THEN Program ELSE Loaded(n)]

Init ==
    /\ up = FALSE
    /\ registry = [n \in Names |-> Nothing]
    /\ files = [n \in CustomNames |-> None]
    /\ dirs = [p \in Plugins |-> None]
    /\ plugins = [p \in Plugins |-> None]
    /\ sessions = [s \in Servers |-> None]
    /\ made = 0 /\ open = {}
    /\ pc = [c \in Callers |-> "idle"]
    /\ job = [c \in Callers |-> Idle]
    /\ result = [skill |-> "none", outcome |-> "none"]
    /\ mixed = {} /\ gone = {}
    /\ ops = 0 /\ stops = 0

\* run(): the registry, the files, the plugins, then the servers that start by
\* themselves.  A file and a plugin that cannot be read (all of them, if it is
\* their directory) and a server that cannot be reached are left out.
Start ==
    /\ ~up /\ up' = TRUE
    /\ mixed' \in SUBSET ({n \in CustomNames : files[n] # None} \cup {p \in Plugins : dirs[p] # None})
    /\ plugins' = [p \in Plugins |-> IF p \in mixed' \/ dirs[p] = Torn THEN None ELSE dirs[p]]
    /\ \E reached \in SUBSET AutoStart :
         /\ made + Cardinality(reached) <= MaxSessions
         /\ \E opened \in [reached -> (made + 1)..(made + Cardinality(reached))] :
              /\ \A s, t \in reached : opened[s] = opened[t] => s = t
              /\ sessions' = [s \in Servers |-> IF s \in reached THEN opened[s] ELSE None]
              /\ \E plugin \in LastPlugin(plugins') : registry' = Boot(mixed', opened, plugins', plugin)
              /\ open' = {opened[s] : s \in reached}
              /\ made' = made + Cardinality(reached)
    /\ UNCHANGED <<disk, pc, job, result, gone, ops, stops>>

\* The process ends: mcpMgr.Close disconnects the servers it knows, or it dies
\* (as it does when two requests write a map at once) and takes them along.
Ended ==
    /\ up /\ stops < MaxStops
    /\ up' = FALSE /\ stops' = stops + 1
    /\ registry' = [n \in Names |-> Nothing]
    /\ plugins' = [p \in Plugins |-> None]
    /\ sessions' = [s \in Servers |-> None]
    /\ pc' = [c \in Callers |-> "idle"]
    /\ job' = [c \in Callers |-> Idle]
    /\ result' = [skill |-> "none", outcome |-> "none"]
    /\ mixed' = {} /\ gone' = {}
    /\ UNCHANGED <<disk, made, ops>>

Stop == Ended /\ (\A c \in Callers : pc[c] = "idle") /\ open' = open \ {sessions[s] : s \in Servers}
Crash == Ended /\ open' = {}

-----------------------------------------------------------------------------
\* A request starts to change x; if another one is at it, they mix.
Busy(x) == \E c \in Callers : job[c].on = x
Begin(c, what) ==
    /\ up /\ pc[c] = "idle" /\ ops < MaxOps
    /\ ops' = ops + 1
    /\ job' = [job EXCEPT ![c] = what]
    /\ mixed' = IF Busy(what.on) THEN mixed \cup {what.on} ELSE mixed
    /\ UNCHANGED <<up, gone, stops, result>>

Goto(c, l) == pc' = [pc EXCEPT ![c] = l]
At(c, l) == up /\ pc[c] = l /\ UNCHANGED <<up, ops, stops, mixed, result>>
Return(c) == Goto(c, "idle") /\ job' = [job EXCEPT ![c] = Idle]

\* create_skill: the name is valid; the file is truncated, written, and the
\* skill registered.
Create(c, n, v) ==
    /\ Begin(c, [op |-> "create", on |-> n, v |-> v]) /\ Goto(c, "write")
    /\ files' = [files EXCEPT ![n] = Torn]
    /\ UNCHANGED <<memory, dirs, made, open>>

\* A write that fails leaves a cut file and registers nothing.
WriteFile(c) ==
    /\ At(c, "write") /\ job[c].op = "create"
    /\ \/ Goto(c, "register") /\ files' = [files EXCEPT ![job[c].on] = job[c].v] /\ UNCHANGED job
       \/ Return(c) /\ UNCHANGED files
    /\ UNCHANGED <<memory, dirs, made, open, gone>>

RegisterCustomSkill(c) ==
    /\ At(c, "register") /\ Return(c)
    /\ registry' = [registry EXCEPT ![job[c].on] = Custom(job[c].v)]
    /\ UNCHANGED <<plugins, sessions, disk, made, open, gone>>

\* delete_custom_skill: no file, no deletion; a program's skill of the name is
\* unregistered with it.
Delete(c, n) ==
    /\ files[n] # None
    /\ Begin(c, [op |-> "delete", on |-> n, v |-> None]) /\ Goto(c, "unregister")
    /\ files' = [files EXCEPT ![n] = None]
    /\ UNCHANGED <<memory, dirs, made, open>>

Unregister(c) ==
    /\ At(c, "unregister") /\ Return(c)
    /\ registry' = [registry EXCEPT ![job[c].on] = Nothing]
    /\ UNCHANGED <<plugins, sessions, disk, made, open, gone>>

\* plugin_install: git clone refuses a directory that is there; cp puts the new
\* copy inside it.  The plugin is listed; its skills wait for the next start.
\* What a failing cp has copied stays, unlisted until then.
Install(c, p, v) ==
    /\ Begin(c, [op |-> "install", on |-> p, v |-> v]) /\ Goto(c, "enlist")
    /\ dirs' = [dirs EXCEPT ![p] = IF @ = None THEN v ELSE @]
    /\ UNCHANGED <<memory, files, made, open>>

Enlist(c) ==
    /\ up /\ pc[c] = "enlist" /\ Return(c)
    /\ \/ plugins' = [plugins EXCEPT ![job[c].on] = job[c].v] /\ UNCHANGED mixed
       \/ mixed' = mixed \cup {job[c].on} /\ UNCHANGED plugins
    /\ UNCHANGED <<up, registry, sessions, disk, made, open, result, gone, ops, stops>>

\* plugin_remove: the directory, then the entry; registered skills stay.
Remove(c, p) ==
    /\ plugins[p] # None
    /\ Begin(c, [op |-> "remove", on |-> p, v |-> None]) /\ Goto(c, "remove")
    /\ UNCHANGED <<memory, disk, made, open>>

\* If not all of the directory can be removed, the entry stays.
RemoveAll(c) ==
    /\ At(c, "remove")
    /\ \/ Goto(c, "delist") /\ dirs' = [dirs EXCEPT ![job[c].on] = None] /\ UNCHANGED job
       \/ /\ Return(c) /\ dirs[job[c].on] # None
          /\ dirs' \in {dirs, [dirs EXCEPT ![job[c].on] = Torn]}
    /\ UNCHANGED <<memory, files, made, open, gone>>

Delist(c) ==
    /\ At(c, "delist") /\ Return(c)
    /\ plugins' = [plugins EXCEPT ![job[c].on] = None]
    /\ UNCHANGED <<registry, sessions, disk, made, open, gone>>

\* Manager.Connect opens a session without the lock and Disconnect closes the
\* one that is entered, under it.
Opened == made < MaxSessions /\ made' = made + 1 /\ open' = open \cup {made'}
Closed(s) ==
    /\ sessions[s] # None
    /\ open' = open \ {sessions[s]}
    /\ gone' = gone \cup {sessions[s]}
    /\ sessions' = [sessions EXCEPT ![s] = None]

\* mcp_connect
Connect(c, s) ==
    /\ Opened
    /\ Begin(c, [op |-> "connect", on |-> s, v |-> made']) /\ Goto(c, "list")
    /\ UNCHANGED <<memory, disk>>

\* A server that lists its tools is entered; an older session of the name is
\* replaced, not closed.
ListTools(c) ==
    /\ At(c, "list") /\ Return(c)
    /\ \/ sessions' = [sessions EXCEPT ![job[c].on] = job[c].v] /\ UNCHANGED open
       \/ open' = open \ {job[c].v} /\ UNCHANGED sessions
    /\ UNCHANGED <<registry, plugins, disk, made, gone>>

\* mcp_disconnect
Disconnect(s) ==
    /\ up /\ Closed(s)
    /\ UNCHANGED <<up, registry, plugins, disk, made, pc, job, result, mixed, ops, stops>>

-----------------------------------------------------------------------------
\* What running an implementation gives.  A plugin's command that cannot be
\* started, as in a directory that is not there, gives an empty text and no
\* error; a tool of a closed session fails.
CustomRun == {"output", "error"}
PluginRun(p) == IF dirs[p] = None THEN {"empty"} ELSE {"output", "empty", "error"}
ToolRun(session) == IF session \in open THEN {"output", "error"} ELSE {"error"}
ProgramRun == {"output", "error"}
Run(impl) ==
    CASE impl.from = "nothing" -> {"unknown"}
      [] impl.from = "program" -> ProgramRun
      [] impl.from = "custom" -> CustomRun
      [] impl.from = "plugin" -> PluginRun(impl.v)
      [] impl.from = "mcp" -> ToolRun(impl.v)

\* Registry.Execute.
Execute(n) ==
    /\ up
    /\ \E o \in Run(registry[n]) : result' = [skill |-> n, outcome |-> o]
    /\ UNCHANGED <<up, memory, disk, made, open, pc, job, history, ops, stops>>

\* mcp_call: the session is looked up under the lock and used without it.
Call(c, s) ==
    /\ sessions[s] # None
    /\ Begin(c, [op |-> "call", on |-> s, v |-> sessions[s]]) /\ Goto(c, "call")
    /\ UNCHANGED <<memory, disk, made, open>>

CallTool(c) ==
    /\ up /\ pc[c] = "call" /\ Return(c)
    /\ \E o \in ToolRun(job[c].v) : result' = [skill |-> "mcp_call", outcome |-> o]
    /\ UNCHANGED <<up, memory, disk, made, open, history, ops, stops>>

Next ==
    \/ Start \/ Stop \/ Crash
    \/ \E c \in Callers :
         \/ \E n \in CustomNames, v \in Versions : Create(c, n, v)
         \/ \E n \in CustomNames : Delete(c, n)
         \/ \E p \in Plugins, v \in Versions : Install(c, p, v)
         \/ \E p \in Plugins : Remove(c, p)
         \/ \E s \in Servers : Connect(c, s) \/ Call(c, s)
         \/ WriteFile(c) \/ RegisterCustomSkill(c) \/ Unregister(c)
         \/ Enlist(c) \/ RemoveAll(c) \/ Delist(c) \/ ListTools(c) \/ CallTool(c)
    \/ \E s \in Servers : Disconnect(s)
    \/ \E n \in Names : Execute(n)

Spec == Init /\ [][Next]_vars

-----------------------------------------------------------------------------
TypeOK ==
    /\ up \in BOOLEAN
    /\ registry \in [Names -> Impl]
    /\ files \in [CustomNames -> Versions \cup {None, Torn}]
    /\ dirs \in [Plugins -> Versions \cup {None, Torn}]
    /\ plugins \in [Plugins -> Versions \cup {None}]
    /\ sessions \in [Servers -> 1..MaxSessions \cup {None}]
    /\ made \in 0..MaxSessions /\ open \subseteq 1..made
    /\ job \in [Callers -> Jobs]
    /\ \A c \in Callers : pc[c] = "idle" <=> job[c] = Idle
    /\ result \in [skill : Names \cup {"none", "mcp_call"}, outcome : Outcomes]

\* Nobody is changing x, nobody changed it while another one did, no copy of it
\* failed, and the start could read it.
Settled(x) == up /\ ~Busy(x) /\ x \notin mixed

\* What can be called and what is listed is what is on disk, through crashes,
\* failed writes and removals, and restarts, as long as changes of one skill do not overlap:
\* a restart brings back what was created and nothing that was deleted.  What is
\* registered later, by the program, a plugin or a server, hides a file of its
\* name until it is created again.
Later == Late \cup {SkillOf[p] : p \in Plugins} \cup {ToolOf[s] : s \in Servers}
CatalogMatchesDisk ==
    /\ \A n \in CustomNames : Settled(n) /\ files[n] # Torn =>
          \/ registry[n] = Custom(files[n])
          \/ registry[n].from # "custom" /\ (files[n] = None \/ n \in Later)
    /\ \A p \in Plugins : Settled(p) => (/\ plugins[p] # None => dirs[p] # None
                                        /\ dirs[p] \in Versions => plugins[p] # None)

\* A skill that was deleted, whose plugin was removed or whose server was
\* disconnected gives no output, although nobody unregisters the last two; and
\* neither does a call that took its session before it was disconnected.
GoneStaysSilent ==
    /\ \A c \in Callers : pc[c] = "call" /\ result' # result =>
          (result' = [skill |-> "mcp_call", outcome |-> "output"] /\ pc'[c] = "idle" /\ up'
              => job[c].v \notin gone)
    /\ \A n \in Names :
          result' = [skill |-> n, outcome |-> "output"] /\ result' # result =>
             LET impl == registry[n]
             IN /\ impl.from = "custom" /\ Settled(n) => files[n] # None
                /\ impl.from = "plugin" /\ Settled(impl.v) => plugins[impl.v] # None
                /\ impl.from = "mcp" => impl.v \notin gone
GoneNeverRuns == [][GoneStaysSilent]_vars
=============================================================================
