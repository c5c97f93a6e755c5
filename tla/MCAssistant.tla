---------------------------- MODULE MCAssistant ----------------------------
(* What an assistant is made of: the program's start and end, the skills it  *)
(* offers, its agents, what decides on a call (permissions and hooks), the   *)
(* persona and tools of an answer, the MCP server, and the knowledge base.   *)
(* Each keeps its own state; a behaviour moves one of them.                  *)
EXTENDS Skills

CONSTANTS Missing,
          \* Agents
          AgentFiles, Personas, AgentSkills, Core, MaxChanges, MaxCrashes,
          \* Guard
          Tools, Patterns, UserFiles, ProjectFiles, PlanBlocked, Hooks, Asking, NoFile, NoMode,
          MaxHooks, MaxSettings,
          \* Startup
          ProviderKeys, NoKey, Accepted, Channels, MaxStarts, MaxEdits,
          \* Answering
          Requests, Speakers, SkillsOf, Registered, Default, MessageChannels, Users, AllowedUsers, RestKeys,
          MaxSwitches,
          \* MCPServer
          BuiltIn, MaxLines,
          \* Knowledge
          Services, Ingests, Ingested, Texts, Paragraphs, Vector, Queries, Sizes, Overlap, TopK,
          Migrations, Documents, MaxRuns, MaxRewrites

VARIABLES part,  \* the one that moves
          \* Agents
          running, agentFile, bak, agents, changeAt, change, ag, copy, confused, changes, crashes,
          \* Guard
          rules, mode, modeBlocked, current, loaded, hooks, asks, settings,
          \* Startup
          outer, dotenv, local, config, env, cfg, headless, holds, channel, stop, failed,
          heard, asked, saved, phase, exit, starts, edits,
          \* Answering
          toolsOn, agentName, skillNames, requestAt, persona, tools, overlapped, switches,
          \* MCPServer
          input, writing, read, output, serving, lost, broken,
          \* Knowledge
          driver, tables, recorded, applied, text, processAt, at, run, rows, answer,
          runs, rewrites

\* What the constants of Skills stand for.
SkillOfPlugin == [p \in Plugins |-> "p_run"]
ToolOfServer == [srv |-> "m_tool"]

AgentOrder == <<"default", "devops">>
A == INSTANCE Agents
       WITH Order <- AgentFiles, SkillNames <- AgentSkills,
            MaxOps <- MaxChanges, MaxStops <- MaxCrashes,
            up <- running, file <- agentFile, registry <- agents, at <- changeAt, job <- change,
            mixed <- confused, ops <- changes, stops <- crashes

Pattern(form, ts) == [form |-> form, tools |-> ts]
Everything == Pattern("all", {})
Git == Pattern("prefix", {"git_push"})
Commands == Pattern("name", {"run_command"})
SomePatterns == {Everything, Git, Commands}
CommandsBlocked == {Commands}
File(deny, ask, allow, m) == [deny |-> deny, ask |-> ask, allow |-> allow, mode |-> m]
SomeUserFiles == {NoFile, File(<<Git>>, << >>, <<Everything>>, NoMode)}
SomeProjectFiles == {NoFile, File(<<Commands>>, <<Everything>>, << >>, "plan"),
                     File(<< >>, << >>, <<Git>>, "bypassPermissions")}
G == INSTANCE Guard WITH MaxChanges <- MaxSettings, changes <- settings

P == INSTANCE Startup WITH Keys <- ProviderKeys, file <- config, open <- holds, at <- phase

SkillsOfAgent == [default |-> {"x", "y"}, devops |-> {"x"}, writer |-> {}]
Listed == [telegram |-> {"u"}, whatsapp |-> {}]
R == INSTANCE Answering
       WITH Agents <- Speakers, Channels <- MessageChannels, Keys <- RestKeys,
            pc <- requestAt, ag <- persona, mixed <- overlapped

M == INSTANCE MCPServer WITH Skills <- BuiltIn, open <- writing

Para(n, b, r) == [name |-> n, bytes |-> b, runes |-> r]
ParagraphsOf ==
    [t1 |-> <<Para("a", 3, 3), Para("b", 4, 2), Para("blank", 0, 0), Para("c", 5, 5)>>,
     t2 |-> <<Para("d", 9, 8)>>]
VectorOf == [a |-> <<1, 0>>, b |-> <<0, 1>>, c |-> <<1, 1>>, d |-> << >>, blank |-> <<0, 0>>]
Questions == {<<1, 3>>}
K == INSTANCE Knowledge
       WITH Programs <- Services, Files <- Ingested, Versions <- Migrations, MaxStarts <- MaxRuns, MaxEdits <- MaxRewrites,
            pc <- processAt, starts <- runs, edits <- rewrites

ASSUME CatalogAssumption == SkillsAssumption /\ A!AgentsAssumption
ASSUME GuardAssumption == G!GuardAssumption
ASSUME StartupAssumption == P!StartupAssumption
ASSUME AnsweringAssumption == R!AnsweringAssumption
ASSUME ServerAssumption == M!MCPServerAssumption
ASSUME KnowledgeAssumption == K!KnowledgeAssumption

-----------------------------------------------------------------------------
aVars == <<running, agentFile, bak, agents, changeAt, change, ag, copy, confused, changes, crashes>>
gVars == <<rules, mode, modeBlocked, current, loaded, hooks, asks, settings>>
pVars == <<outer, dotenv, local, config, env, cfg, headless, holds, channel, stop, failed,
           heard, asked, saved, phase, exit, starts, edits>>
rVars == <<toolsOn, agentName, skillNames, requestAt, persona, tools, overlapped, switches>>
mVars == <<input, writing, read, output, serving, lost, broken>>
kVars == <<driver, tables, recorded, applied, text, processAt, at, run, rows, answer, runs, rewrites>>

\* What does not move has one state only.
AssistantInit ==
    /\ part \in {"skills", "agents", "guard", "start", "answer", "mcp", "knowledge"}
    /\ Init /\ M!Init
    /\ R!Init /\ (part # "answer" => toolsOn)
    /\ A!Init /\ \A a \in A!Agents :
           /\ agentFile[a].skills = IF a = "default" THEN AgentSkills ELSE Core
           /\ part # "agents" => agentFile[a].persona = CHOOSE p \in Personas : TRUE
    /\ G!Init /\ (part # "guard" => loaded = [user |-> NoFile, project |-> NoFile])
    /\ P!Init /\ dotenv \in Accepted /\ local = NoKey
    /\ (part # "start" => outer = NoKey /\ config = Missing)
    /\ K!Init /\ (part # "knowledge" => driver = "sqlite" /\ \A f \in Ingested : text[f] = "t1")

AssistantNext ==
    \/ part = "skills" /\ Next
       /\ UNCHANGED <<part, aVars, gVars, pVars, rVars, mVars, kVars>>
    \/ part = "agents" /\ A!Next
       /\ UNCHANGED <<part, vars, gVars, pVars, rVars, mVars, kVars>>
    \/ part = "guard" /\ G!Next
       /\ UNCHANGED <<part, vars, aVars, pVars, rVars, mVars, kVars>>
    \/ part = "start" /\ P!Next
       /\ UNCHANGED <<part, vars, aVars, gVars, rVars, mVars, kVars>>
    \/ part = "answer" /\ R!Next
       /\ UNCHANGED <<part, vars, aVars, gVars, pVars, mVars, kVars>>
    \/ part = "mcp" /\ M!Next
       /\ UNCHANGED <<part, vars, aVars, gVars, pVars, rVars, kVars>>
    \/ part = "knowledge" /\ K!Next
       /\ UNCHANGED <<part, vars, aVars, gVars, pVars, rVars, mVars>>

AssistantSpec ==
    /\ AssistantInit
    /\ [][AssistantNext]_<<part, vars, aVars, gVars, pVars, rVars, mVars, kVars>>

-----------------------------------------------------------------------------
TypesOK ==
    /\ TypeOK /\ A!TypeOK /\ G!TypeOK /\ P!TypeOK /\ R!TypeOK /\ M!TypeOK /\ K!TypeOK

\* What the running program offers is what its files say: skills, plugins and
\* agents, wherever a crash or a failed write stopped a change.
FilesAreObeyed == CatalogMatchesDisk /\ A!AgentSurvives

DenialsHold == G!DenialsHold

\* What is called was not removed before; what is let through, each hook heard.
CallsAreSound == GoneNeverRuns /\ G!EveryHookHeard

\* The process runs with the key that was set, and its session has a start and
\* an end.
StartsAndEnds == P!KeyIsTheOneSet /\ P!SessionIsFramed

\* Each request is answered once, in order, with the persona and the tools that
\* belong together.
AnswersFit == R!ToolsFitThePersona /\ M!AnswersInOrder

\* The schema, the chunks, the rows and what a question finds in them.
KnowledgeIsWhole ==
    K!SchemaIsWhole /\ K!ChunksAreWhole /\ K!EveryChunkStored /\ K!AnswersAreBest
=============================================================================
