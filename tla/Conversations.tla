--------------------------- MODULE Conversations ---------------------------
(***************************************************************************)
(* What is kept of conversations beside the router's sessions: the index of*)
(* sessions (internal/session/persistence.go), the compaction of a context *)
(* that has grown too long (compaction.go) and the tree of a conversation  *)
(* that branches (internal/convtree).  A message is its number.            *)
(***************************************************************************)
EXTENDS Naturals, Sequences, SequencesExt, FiniteSets, FiniteSetsExt

CONSTANTS Writers,          \* requests that update the index
          Sessions,
          PreserveRecent,   \* pairs of messages a compaction keeps
          MaxTokens,        \* compaction starts above it (a message is one token)
          Missing, Torn,    \* no index file, one that is no JSON
          MaxMessages, MaxSaves

ConversationsAssumption ==
    /\ Missing \notin [Sessions -> Nat] /\ Torn \notin [Sessions -> Nat]
    /\ PreserveRecent \in Nat /\ MaxTokens \in Nat /\ MaxMessages \in Nat /\ MaxSaves \in Nat

VARIABLES index,            \* the file: when each of its sessions was updated
          at, saves, read,  \* of a writer: its session, and the list it read
          kept,             \* history: when each session was saved for good
          context, said,    \* the context, and all that was said
          told,             \* history: what the last summaries told of
          parent, current,  \* convtree.Tree; node 0 is the root
          line,             \* history: the messages that led to each node
          clock

indexVars == <<index, at, saves, read, kept, clock>>
contextVars == <<context, said, told>>
treeVars == <<parent, current, line>>
vars == <<indexVars, contextVars, treeVars>>

NoList == [s \in Sessions |-> 0]   \* 0: not in the list
Init ==
    /\ index = Missing /\ kept = NoList /\ clock = 0
    /\ at = [w \in Writers |-> "idle"] /\ saves \in [Writers -> Sessions] /\ read = [w \in Writers |-> NoList]
    /\ context \in {<< >>, <<[role |-> "system", says |-> {0}]>>} /\ said = 0 /\ told = {}
    /\ parent = << >> /\ current = 0 /\ line = << >>

-----------------------------------------------------------------------------
\* The index.  A list that cannot be read counts for an empty one.
ListSessions == IF index \in {Missing, Torn} THEN NoList ELSE index

\* The session of a channel that was updated last (all have the same here).
GetLastSession(list) == {s \in Sessions : list[s] > 0 /\ \A o \in Sessions : list[o] <= list[s]}

ReadIndex(w) ==
    /\ at[w] = "idle" /\ clock < MaxSaves
    /\ at' = [at EXCEPT ![w] = "read"] /\ read' = [read EXCEPT ![w] = ListSessions]
    /\ UNCHANGED <<index, saves, kept, clock, contextVars, treeVars>>

\* The list read, with the entry replaced or added
Updated(w) == [read[w] EXCEPT ![saves[w]] = clock + 1]

\* SaveSessionIndex: what others wrote since the list was read is gone; a save
\* that meets none keeps what was kept.
SaveSessionIndex(w) ==
    /\ at[w] = "read" /\ at' = [at EXCEPT ![w] = "idle"] /\ clock' = clock + 1
    /\ saves' \in {[saves EXCEPT ![w] = s] : s \in Sessions}
    /\ \/ /\ index' = Updated(w)
          /\ kept' = [s \in Sessions |-> IF s = saves[w] THEN clock + 1
                                         ELSE IF ListSessions[s] = read[w][s] THEN kept[s] ELSE 0]
       \/ UNCHANGED <<index, kept>>
    /\ UNCHANGED <<read, contextVars, treeVars>>

\* The process dies while the file is written.
Cut ==
    /\ \E w \in Writers : at[w] = "read"
    /\ index' = Torn /\ kept' = NoList
    /\ at' = [w \in Writers |-> "idle"]
    /\ UNCHANGED <<saves, read, clock, contextVars, treeVars>>

-----------------------------------------------------------------------------
\* Compaction.
Say(role) ==
    /\ said < MaxMessages /\ said' = said + 1
    /\ context' = Append(context, [role |-> role, says |-> {said + 1}])
    /\ UNCHANGED <<told, indexVars, treeVars>>

IsSystem(m) == m.role = "system"
firstSystem(ms) == SelectInSeq(ms, IsSystem)
rest(ms) == IF firstSystem(ms) = 0 THEN ms ELSE RemoveAt(ms, firstSystem(ms))

\* buildSummary: of what the user said (at most ten in the code)
buildSummary(ms) == UNION {m.says : m \in {m \in Range(ms) : m.role = "user"}}

preserveCount(ms) == Min({2 * PreserveRecent, Len(rest(ms))})

Compact ==
    /\ Len(context) > MaxTokens
    /\ LET old == SubSeq(rest(context), 1, Len(rest(context)) - preserveCount(context))
           recent == SubSeq(rest(context), Len(old) + 1, Len(rest(context)))
           system == IF firstSystem(context) = 0 THEN << >> ELSE <<context[firstSystem(context)]>>
       IN /\ Len(context) > PreserveRecent + 1 /\ old # << >>
          /\ context' = system \o <<[role |-> "system", says |-> buildSummary(old)]>> \o recent
          /\ told' = buildSummary(old)
    /\ UNCHANGED <<said, indexVars, treeVars>>

-----------------------------------------------------------------------------
\* The tree: node n is the n-th message, its children in the order they came.
Nodes == DOMAIN parent

AddMessage ==
    /\ Len(parent) < MaxMessages
    /\ parent' = Append(parent, current)
    /\ line' = Append(line, (IF current = 0 THEN << >> ELSE line[current]) \o <<Len(parent) + 1>>)
    /\ current' = Len(parent) + 1
    /\ UNCHANGED <<indexVars, contextVars>>

Moved(n) == current' = n /\ UNCHANGED <<parent, line, indexVars, contextVars>>

\* ForkAt and GoTo
GoTo(n) == Moved(n)

Siblings == IF current = 0 THEN {} ELSE {n \in Nodes : parent[n] = parent[current]}
NextSibling == \E n \in Siblings : n > current /\ (\A o \in Siblings : o > current => n <= o) /\ Moved(n)
PrevSibling == \E n \in Siblings : n < current /\ (\A o \in Siblings : o < current => n >= o) /\ Moved(n)

PathToRoot ==
    LET path[n \in {0} \cup Nodes] == IF n = 0 THEN << >> ELSE Append(path[parent[n]], n)
    IN path[current]

IndexNext == Cut \/ \E w \in Writers : ReadIndex(w) \/ SaveSessionIndex(w)
ContextNext == Say("user") \/ Say("assistant") \/ Compact
TreeNext == AddMessage \/ NextSibling \/ PrevSibling \/ \E n \in {0} \cup Nodes : GoTo(n)
Next == IndexNext \/ ContextNext \/ TreeNext

-----------------------------------------------------------------------------
TypeOK ==
    /\ index \in [Sessions -> Nat] \cup {Missing, Torn}
    /\ said \in 0..MaxMessages /\ \A i \in DOMAIN parent : parent[i] \in 0..(i - 1)
    /\ current \in {0} \cup Nodes

\* Updates that do not overlap are all in the index, and what is resumed is
\* then the session saved last.
IndexKeeps ==
    /\ \A s \in Sessions : kept[s] > 0 => ListSessions[s] = kept[s]
    /\ (\A s \in Sessions : kept[s] = ListSessions[s]) /\ kept # NoList
         => \A s \in GetLastSession(ListSessions) : kept[s] = Max(Range(kept))

\* However often it was compacted, a context begins with the system message it
\* had, tells of the last messages word for word and in their order, and of
\* the messages before them by the last summary alone: the topics of earlier
\* summaries are gone, unless the first stands where a system message would.
CompactionKeepsRecent ==
    LET spoken == {i \in DOMAIN context : ~IsSystem(context[i])}
    IN /\ UNION {context[i].says : i \in spoken} = (said - Cardinality(spoken) + 1)..said
       /\ \A i, j \in spoken : i < j => Max(context[i].says) < Min(context[j].says)
       /\ Cardinality(spoken) >= Min({said, 2 * PreserveRecent})
       /\ told # {} => \E i \in {1, 2} : IsSystem(context[i]) /\ context[i].says = told

\* Wherever the conversation is resumed, the context is the messages that led
\* there, in order, and none of another branch.
PathIsTheLine == PathToRoot = IF current = 0 THEN << >> ELSE line[current]
=============================================================================
