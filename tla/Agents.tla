------------------------------- MODULE Agents -------------------------------
(***************************************************************************)
(* Agents (internal/agent) and the skills with which the model changes     *)
(* them (internal/selfmod): each change loads the agent's YAML file, copies*)
(* it to a backup, writes the new one in place and registers it, with no   *)
(* lock around the steps.  The process may die anywhere and files may fail *)
(* to be written.  An agent is its persona and its list of skills; no      *)
(* agent has an alias here.                                                *)
(***************************************************************************)
EXTENDS Naturals, Sequences

CONSTANTS Callers,       \* requests whose model changes agents
          Order,         \* the agents, in the order of their files' names
          Personas, SkillNames,
          Core,          \* the skills that cannot be removed
          Missing,       \* no file, no entry
          Torn,          \* a file YAML cannot read
          MaxOps, MaxStops

Agents == {Order[i] : i \in DOMAIN Order}
\* What a file is read as.  One that was cut is read as what is left of it, with
\* another name if it ends within the name; so is what is made of it later.
Config == [persona : Personas \cup {""}, skills : SUBSET SkillNames, cut : {"no", "fields", "name"}]
Blank == [persona |-> "", skills |-> {}, cut |-> "fields"]
Cut(config) ==
    {Torn, Blank, [Blank EXCEPT !.cut = "name"]}
    \cup {[config EXCEPT !.skills = s, !.cut = "fields"] : s \in SUBSET config.skills}

AgentsAssumption ==
    /\ Order \in Seq(Agents) /\ "" \notin Personas
    /\ Core \subseteq SkillNames /\ Core # {}
    /\ Missing \notin Config /\ Torn \notin Config /\ Missing # Torn
    /\ MaxOps \in Nat /\ MaxStops \in Nat

VARIABLES up, file, bak,
          registry,   \* agent.Registry.agents, at the names in Agents
          at, job,    \* where a request's change is, and what it is
          ag, copy,   \* the agent it loaded and the bytes it backs up
          mixed,      \* history: agents changed by two at a time or from a lost file
          ops, stops

vars == <<up, file, bak, registry, at, job, ag, copy, mixed, ops, stops>>

-----------------------------------------------------------------------------
Jobs == [op : {"persona"}, of : Agents, new : Personas]
        \cup [op : {"add", "remove"}, of : Agents, new : SkillNames]
Idle == [op |-> "idle", of |-> "none", new |-> "none"]

Named(f) == f \in Config /\ f.cut # "name"

\* LoadDir ends at the first file it cannot read; main.go goes on.
Read(i) == \A j \in 1..i : file[Order[j]] # Torn
Loaded == [a \in Agents |->
              IF Named(file[a]) /\ \E i \in DOMAIN Order : Order[i] = a /\ Read(i) THEN file[a] ELSE Missing]

\* Registry.Get falls back on the agent "default", then on a built-in one.
DefaultAgent == [persona |-> "built-in", skills |-> Core, cut |-> "no"]
Get(a) == IF registry[a] # Missing THEN registry[a]
          ELSE IF "default" \in Agents /\ registry["default"] # Missing THEN registry["default"]
          ELSE DefaultAgent

\* ToolDefinitions: no list means all skills.
Offered(a) == IF Get(a).skills = {} THEN SkillNames ELSE Get(a).skills

Init ==
    /\ up = FALSE
    /\ file \in [Agents -> {[persona |-> p, skills |-> s, cut |-> "no"] : p \in Personas, s \in {Core, SkillNames}}]
    /\ bak = [a \in Agents |-> Missing]
    /\ registry = [a \in Agents |-> Missing]
    /\ at = [c \in Callers |-> "idle"]
    /\ job = [c \in Callers |-> Idle]
    /\ ag = [c \in Callers |-> Missing]
    /\ copy = [c \in Callers |-> Missing]
    /\ mixed = {}
    /\ ops = 0 /\ stops = 0

Start ==
    /\ ~up /\ up' = TRUE
    /\ registry' = Loaded
    /\ UNCHANGED <<file, bak, at, job, ag, copy, mixed, ops, stops>>

\* A write the crash interrupts leaves part of the text, which YAML may refuse
\* or not.
Crash ==
    /\ up /\ stops < MaxStops
    /\ up' = FALSE /\ stops' = stops + 1
    /\ registry' = [a \in Agents |-> Missing]
    /\ \/ UNCHANGED file
       \/ \E c \in Callers : at[c] = "write" /\ \E f \in Cut(ag[c]) : file' = [file EXCEPT ![job[c].of] = f]
    /\ at' = [c \in Callers |-> "idle"]
    /\ job' = [c \in Callers |-> Idle]
    /\ ag' = [c \in Callers |-> Missing]
    /\ copy' = [c \in Callers |-> Missing]
    /\ UNCHANGED <<bak, mixed, ops>>

-----------------------------------------------------------------------------
Goto(c, l) == at' = [at EXCEPT ![c] = l]
Return(c) ==
    /\ Goto(c, "idle")
    /\ job' = [job EXCEPT ![c] = Idle]
    /\ ag' = [ag EXCEPT ![c] = Missing]
    /\ copy' = [copy EXCEPT ![c] = Missing]
At(c, l) == up /\ at[c] = l /\ UNCHANGED <<up, ops, stops>>

Changed(old, j) ==
    CASE j.op = "persona" -> [old EXCEPT !.persona = j.new]
      [] j.op = "add" -> [old EXCEPT !.skills = @ \cup {j.new}]
      [] j.op = "remove" -> [old EXCEPT !.skills = @ \ {j.new}]

\* Refused without a look at the file.
Protected(j) == j.op = "remove" /\ j.new \in Core

\* loadAgentYAML and the check of the list: a file that is missing or cannot be
\* read, a skill that is there already or not there, end the change.
Load(c, j) ==
    /\ up /\ at[c] = "idle" /\ ops < MaxOps /\ ops' = ops + 1
    /\ ~Protected(j)
    /\ file[j.of] \in Config
    /\ Changed(file[j.of], j) # file[j.of] \/ j.op = "persona"
    /\ Goto(c, "backup")
    /\ job' = [job EXCEPT ![c] = j]
    /\ ag' = [ag EXCEPT ![c] = Changed(file[j.of], j)]
    /\ mixed' = IF file[j.of].cut # "no" \/ \E d \in Callers : job[d].of = j.of
                THEN mixed \cup {j.of} ELSE mixed
    /\ UNCHANGED <<up, file, bak, registry, copy, stops>>

\* Mutant: the file is truncated before its backup is made.
BackupTruncated(c) ==
    /\ At(c, "backup") /\ Goto(c, "copy")
    /\ copy' = [copy EXCEPT ![c] = file[job[c].of]]
    /\ bak' = [bak EXCEPT ![job[c].of] = Torn]
    /\ file' = [file EXCEPT ![job[c].of] = Blank]
    /\ UNCHANGED <<registry, job, ag, mixed>>

\* backupAgent reads the file again; writing the backup truncates it first.  One
\* that cannot be read or opened ends the change.
Backup(c) ==
    /\ At(c, "backup")
    /\ \/ /\ Goto(c, "copy") /\ UNCHANGED <<job, ag>>
          /\ copy' = [copy EXCEPT ![c] = file[job[c].of]]
          /\ bak' = [bak EXCEPT ![job[c].of] = Torn]
       \/ Return(c) /\ UNCHANGED bak
    /\ UNCHANGED <<file, registry, mixed>>

\* A backup that fails ends the change.
CopyFile(c) ==
    /\ At(c, "copy")
    /\ \/ /\ Goto(c, "save")
          /\ bak' = [bak EXCEPT ![job[c].of] = copy[c]]
          /\ UNCHANGED <<job, ag, copy>>
       \/ Return(c) /\ UNCHANGED bak
    /\ UNCHANGED <<file, registry, mixed>>

\* saveAgentYAML truncates the file, if it can be opened, then writes it.
Save(c) ==
    /\ At(c, "save")
    /\ \/ /\ Goto(c, "write") /\ UNCHANGED <<job, ag, copy>>
          /\ file' = [file EXCEPT ![job[c].of] = Blank]
       \/ Return(c) /\ UNCHANGED file
    /\ UNCHANGED <<bak, registry, mixed>>

\* A write that fails leaves nothing or part of the text and registers nothing.
WriteFile(c) ==
    /\ At(c, "write")
    /\ \/ /\ Goto(c, "register")
          /\ file' = [file EXCEPT ![job[c].of] = ag[c]]
          /\ UNCHANGED <<job, ag, copy>>
       \/ Return(c) /\ \E f \in Cut(ag[c]) : file' = [file EXCEPT ![job[c].of] = f]
    /\ UNCHANGED <<bak, registry, mixed>>

Register(c) ==
    /\ At(c, "register") /\ Return(c)
    /\ registry' = IF Named(ag[c]) THEN [registry EXCEPT ![job[c].of] = ag[c]] ELSE registry
    /\ UNCHANGED <<file, bak, mixed>>

Next ==
    \/ Start \/ Crash
    \/ \E c \in Callers :
         \/ \E j \in Jobs : Load(c, j)
         \/ Backup(c) \/ CopyFile(c) \/ Save(c) \/ WriteFile(c) \/ Register(c)

Spec == Init /\ [][Next]_vars

-----------------------------------------------------------------------------
Files == Config \cup {Missing, Torn}
Entries == Config \cup {Missing}
TypeOK ==
    /\ up \in BOOLEAN
    /\ file \in [Agents -> Files] /\ bak \in [Agents -> Files]
    /\ registry \in [Agents -> Entries]
    /\ at \in [Callers -> {"idle", "backup", "copy", "save", "write", "register"}]
    /\ \A c \in Callers : at[c] = "idle" <=> job[c] = Idle
    /\ ag \in [Callers -> Entries] /\ copy \in [Callers -> Files]
    /\ mixed \subseteq Agents

Whole(f) == f \in Config /\ f.cut = "no"

\* Wherever a crash or a failing write stops a change, the agent's file or its
\* backup is whole and what is registered is what the file holds, as long as
\* nobody changes an agent while somebody else does or after its file was cut;
\* and whatever happened, an agent that comes from no cut file is offered the core
\* skills.
AgentSurvives ==
    \A a \in Agents :
        /\ a \notin mixed =>
              /\ Whole(file[a]) \/ Whole(bak[a])
              /\ (\A c \in Callers : job[c].of # a) /\ Whole(file[a]) /\ registry[a] # Missing =>
                    registry[a] = file[a]
        /\ up /\ Get(a).cut = "no" => Core \subseteq Offered(a)
=============================================================================
