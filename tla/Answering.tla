------------------------------ MODULE Answering ------------------------------
(***************************************************************************)
(* From a channel to the model: who is admitted (internal/auth, the REST   *)
(* middleware), what is put into the prompt and which tools go with it     *)
(* (internal/ai/service.go).  All requests share one service, with one     *)
(* active agent, and one client, with one list of skill names; neither has *)
(* a lock.                                                                 *)
(***************************************************************************)
EXTENDS Naturals, FiniteSets, FiniteSetsExt

CONSTANTS Requests,
          Agents, SkillsOf,  \* the agents, and the skills in the list of each
          Registered,        \* the names in the skill registry
          Default,           \* the one that is active first
          Channels, Users,
          AllowedUsers,      \* telegram and whatsapp: nobody listed is everybody
          Keys,              \* REST keys, none listed is any key
          None,              \* no key, no text
          Torn,              \* a list read beyond its end
          MaxSwitches        \* bound

AnsweringAssumption ==
    /\ SkillsOf \in [Agents -> SUBSET UNION {SkillsOf[a] : a \in Agents}] /\ Default \in Agents
    /\ \A a \in Agents : IsFiniteSet(SkillsOf[a])
    /\ None \notin Keys /\ \A ts \in SUBSET UNION {SkillsOf[a] : a \in Agents} : ts # Torn

VARIABLES toolsOn,     \* the configuration's: models get tools
          agentName,   \* Service.agentName
          skillNames,  \* Client.skillNames: whose list it is, and how long
          pc,          \* where a request is
          ag,          \* the agent whose persona is in its prompt
          tools,       \* the tools the model was offered
          mixed,       \* history: requests in flight together with a change of agent
          switches

vars == <<toolsOn, agentName, skillNames, pc, ag, tools, mixed, switches>>

Sender == [channel : Channels, user : Users, key : Keys \cup {"stranger's", None}, text : {"text", None}]

Init ==
    /\ toolsOn \in BOOLEAN
    /\ agentName = Default
    /\ skillNames = [list |-> Default, len |-> Cardinality(SkillsOf[Default])]
    /\ pc = [r \in Requests |-> "new"]
    /\ ag = [r \in Requests |-> Default]
    /\ tools = [r \in Requests |-> {}]
    /\ mixed = {} /\ switches = 0

Goto(r, l) == pc' = [pc EXCEPT ![r] = l]
InFlight == {r \in Requests : pc[r] \in {"agent", "list", "length", "search", "call"}}

-----------------------------------------------------------------------------
\* Authorizer.IsAllowed; the program itself is always admitted.
IsAllowed(s) ==
    CASE s.channel \in {"telegram", "whatsapp"} ->
            AllowedUsers[s.channel] = {} \/ s.user \in AllowedUsers[s.channel]
      [] s.channel \in {"rest", "cli", "headless", "webui"} -> TRUE
      [] OTHER -> FALSE

\* APIKeyAuth: a request must have a key, even where any key will do.
ValidAPIKey(s) == s.key # None /\ (Keys = {} \/ s.key \in Keys)

Refusal(s) ==
    IF s.channel = "rest" /\ ~ValidAPIKey(s) THEN "unauthorized"
    ELSE IF s.channel = "rest" /\ s.text = None THEN "bad_request"
    ELSE IF ~IsAllowed(s) THEN "not_allowed"
    ELSE "none"

\* A channel hands a message to the handler.  One that comes while another is
\* in flight that met a change of agent has met it too.
Receive(r, s) ==
    /\ pc[r] = "new" /\ Goto(r, IF Refusal(s) = "none" THEN "agent" ELSE Refusal(s))
    /\ mixed' = IF InFlight \cap mixed # {} THEN mixed \cup {r} ELSE mixed
    /\ UNCHANGED <<toolsOn, agentName, skillNames, ag, tools, switches>>

\* SetAgent: another agent for every request from now on.
SetAgent(a) ==
    /\ a # agentName /\ switches < MaxSwitches /\ switches' = switches + 1
    /\ agentName' = a /\ mixed' = mixed \cup InFlight
    /\ UNCHANGED <<toolsOn, skillNames, pc, ag, tools>>

-----------------------------------------------------------------------------
\* buildMessages: the agent is looked up,
GetAgent(r) ==
    /\ pc[r] = "agent" /\ Goto(r, "list")
    /\ ag' = [ag EXCEPT ![r] = agentName]
    /\ UNCHANGED <<toolsOn, agentName, skillNames, tools, mixed, switches>>

\* Mutant: they are left as the last agent's.
SetSkillNamesOnce(r) ==
    /\ pc[r] = "list" /\ Goto(r, "search")
    /\ UNCHANGED <<toolsOn, agentName, skillNames, ag, tools, mixed, switches>>

\* its skills become the client's, a slice of which the address and the length
\* are written one after the other,
SetSkillNames(r) ==
    /\ \/ /\ pc[r] = "list" /\ Goto(r, "length")
          /\ skillNames' = [skillNames EXCEPT !.list = ag[r]]
       \/ /\ pc[r] = "length" /\ Goto(r, "search")
          /\ skillNames' = [skillNames EXCEPT !.len = Cardinality(SkillsOf[ag[r]])]
    /\ UNCHANGED <<toolsOn, agentName, ag, tools, mixed, switches>>

\* and what the knowledge base and the memory say of the query is added to the
\* persona and the history, or nothing when a search fails: it takes its time.
BuildSystemPrompt(r) ==
    /\ pc[r] = "search" /\ Goto(r, "call")
    /\ UNCHANGED <<toolsOn, agentName, skillNames, ag, tools, mixed, switches>>

\* The registry's ToolDefinitions: of all skills if none is named, and of those
\* named that it has.
ToolDefinitions(names) == IF names = {} THEN Registered ELSE names \cap Registered

\* What a model can be offered by the client's list as it is now: its names, the
\* first of them, or what lies behind its end.
Offered ==
    LET list == SkillsOf[skillNames.list]
    IN IF ~toolsOn THEN {{}}
       ELSE IF skillNames.len > Cardinality(list) THEN {Torn}
       ELSE {ToolDefinitions(names) : names \in kSubset(skillNames.len, list)}

Complete(r) ==
    /\ pc[r] = "call" /\ Goto(r, "done")
    /\ \E names \in Offered : tools' = [tools EXCEPT ![r] = names]
    /\ UNCHANGED <<toolsOn, agentName, skillNames, ag, mixed, switches>>

Next ==
    \/ \E a \in Agents : SetAgent(a)
    \/ \E r \in Requests : \/ \E s \in Sender : Receive(r, s)
                           \/ GetAgent(r) \/ SetSkillNames(r)
                           \/ BuildSystemPrompt(r) \/ Complete(r)

Spec == Init /\ [][Next]_vars
-----------------------------------------------------------------------------
TypeOK ==
    /\ toolsOn \in BOOLEAN /\ agentName \in Agents /\ skillNames.list \in Agents
    /\ pc \in [Requests -> {"new", "agent", "list", "length", "search", "call", "done",
                       "unauthorized", "bad_request", "not_allowed"}]
    /\ ag \in [Requests -> Agents]
    /\ \A r \in Requests : pc[r] # "done" => tools[r] = {}

\* With tools switched on, the model is offered those of the agent whose persona
\* it is given (all there are, if its list is empty), however many requests are in
\* flight, as long as none of them met a change of agent (a request that did may
\* get another agent's tools, some of them, all, or a list read beyond its end).
ToolsFitThePersona ==
    \A r \in Requests : pc[r] = "done" /\ r \notin mixed =>
       tools[r] = IF toolsOn THEN ToolDefinitions(SkillsOf[ag[r]]) ELSE {}
=============================================================================
