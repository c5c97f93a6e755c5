------------------------------ MODULE Memories ------------------------------
(***************************************************************************)
(* What the assistant remembers: the memories that its skills keep         *)
(* (internal/memory), in one JSON file or in SQLite, and the facts that are*)
(* taken out of conversations (internal/automemory).  Each store writes its*)
(* whole file after every change; a write may fail, and the process may die*)
(* within it.                                                              *)
(***************************************************************************)
EXTENDS Naturals, Sequences, SequencesExt, FiniteSets, FiniteSetsExt

CONSTANTS Topics, Contents,
          Facts, Similar,   \* sentences; the pairs that count as the same
          MaxFacts,         \* 100 in the code
          PerSession,       \* facts of one conversation, 3 in the code
          MaxInject,        \* memories put into a prompt, 5 in the code
          None, Torn, MaxChanges, MaxStops

Memory == [id : Nat, content : Contents]
MemoriesAssumption ==
    /\ None \notin Contents /\ None \notin Memory /\ Torn \notin [Topics -> Memory \cup {None}]
    /\ Torn \notin Seq(Facts)
    /\ \A f \in Facts : <<f, f>> \in Similar
    /\ MaxFacts \in Nat \ {0} /\ PerSession \in Nat /\ MaxInject \in Nat

VARIABLES kind,            \* "file" or "sqlite"
          memories, disk,  \* by topic; of "sqlite" the table alone
          facts, factFile,
          acked,           \* history: what the model was last told it saved
          damaged,         \* history: a write failed or was cut
          changes, stops

vars == <<kind, memories, disk, facts, factFile, acked, damaged, changes, stops>>

Nothing == [t \in Topics |-> None]
Init ==
    /\ kind \in {"file", "sqlite"}
    /\ memories = Nothing /\ disk = Nothing /\ acked = Nothing
    /\ facts = << >> /\ factFile = << >>
    /\ damaged = {} /\ changes = 0 /\ stops = 0

Known(ms) == {t \in Topics : ms[t] # None}
Changed == changes < MaxChanges /\ changes' = changes + 1

-----------------------------------------------------------------------------
\* The whole map becomes the file.
persist(ms) == disk' = ms

\* A number for a new memory: after a deletion it may be another's.
NextID(ms) == Cardinality(Known(ms)) + 1

\* INSERT ... ON CONFLICT keeps the row's number; a new row has the next one.
RowID(ms) == Max({0} \cup {ms[t].id : t \in Known(ms)}) + 1

Stored(ms, t, c) ==
    [ms EXCEPT ![t] = [id |-> IF @ # None THEN @.id ELSE IF kind = "file" THEN NextID(ms) ELSE RowID(ms),
                       content |-> c]]

\* A change of the memories, ms.  When the file cannot be written, or not as a
\* whole, the skill reports an error, but the change is in memory; SQLite has
\* then done nothing.
Apply(ms, t, c) ==
    \/ memories' = ms /\ persist(ms) /\ acked' = [acked EXCEPT ![t] = c] /\ UNCHANGED damaged
    \/ kind = "file" /\ memories' = ms /\ disk' \in {disk, Torn}
       /\ damaged' = damaged \cup {"memories"} /\ UNCHANGED acked
    \/ kind = "sqlite" /\ UNCHANGED <<memories, disk, acked, damaged>>

\* save_memory
Save(t, c) ==
    /\ Changed /\ Apply(Stored(memories, t, c), t, c)
    /\ UNCHANGED <<kind, facts, factFile, stops>>

\* delete_memory; an unknown topic is an error.
Delete(t) ==
    /\ t \in Known(memories) /\ Changed
    /\ Apply([memories EXCEPT ![t] = None], t, None)
    /\ UNCHANGED <<kind, facts, factFile, stops>>

\* recall_memory: a word is in a topic or in a content.
Search(word) == {t \in Known(memories) : t = word \/ memories[t].content = word}

\* The memories that may go into a prompt: some of those found.
AutoInject(word) == {ts \in SUBSET Search(word) :
                        Cardinality(ts) = Min({MaxInject, Cardinality(Search(word))})}

-----------------------------------------------------------------------------
\* similarity above 0.8 with a fact that is kept (it counts the words of the
\* one that are in the other, so the order matters)
New(fs, f) == \A i \in DOMAIN fs : <<fs[i], f>> \notin Similar

Add(fs, f) ==
    IF ~New(fs, f) THEN fs
    ELSE LET all == Append(fs, f)
         IN SubSeq(all, 1 + Max({0, Len(all) - MaxFacts}), Len(all))

\* ExtractFromConversation, and Add for each of what it finds; whether the
\* file can be written nobody looks at.
Extract(found) ==
    /\ found # << >> /\ Changed
    /\ facts' = FoldLeft(Add, facts, SubSeq(found, 1, Min({PerSession, Len(found)})))
    /\ \/ factFile' = facts' /\ UNCHANGED damaged
       \/ facts' # facts /\ damaged' = damaged \cup {"facts"} /\ factFile' \in {factFile, Torn}
    /\ UNCHANGED <<kind, memories, disk, acked, stops>>

-----------------------------------------------------------------------------
\* The process ends, perhaps within the write of a file, and starts again: a
\* file it cannot read counts for an empty one.
Restart ==
    /\ stops < MaxStops /\ stops' = stops + 1
    /\ \/ UNCHANGED <<disk, factFile, damaged>>
       \/ kind = "file" /\ disk' = Torn /\ damaged' = damaged \cup {"memories"} /\ UNCHANGED factFile
       \/ factFile' = Torn /\ damaged' = damaged \cup {"facts"} /\ UNCHANGED disk
    /\ memories' = IF disk' = Torn THEN Nothing ELSE disk'
    /\ facts' = IF factFile' = Torn THEN << >> ELSE factFile'
    /\ UNCHANGED <<kind, acked, changes>>

Next ==
    \/ \E t \in Topics : (\E c \in Contents : Save(t, c)) \/ Delete(t)
    \/ \E n \in 1..PerSession + 1 : \E found \in [1..n -> Facts] : Extract(found)
    \/ Restart

-----------------------------------------------------------------------------
TypeOK ==
    /\ memories \in [Topics -> Memory \cup {None}]
    /\ facts \in Seq(Facts) /\ damaged \subseteq {"memories", "facts"}

\* What the model was told it saved is what it recalls, also after a restart,
\* as long as no write of the file has failed or been cut; a prompt is given
\* nothing else; and the rows of the database, not those of the file,
\* keep numbers of their own.
RecallsWhatItSaved ==
    /\ "memories" \notin damaged =>
         \A t \in Topics : IF acked[t] = None THEN memories[t] = None
                           ELSE /\ t \in Search(t) \cap Search(acked[t])
                                /\ memories[t].content = acked[t]
    /\ "memories" \notin damaged =>
         \A w \in Topics \cup Contents : \A ts \in AutoInject(w) : \A t \in ts : w \in {t, acked[t]}
    /\ kind = "sqlite" => \A s, t \in Known(memories) : s # t => memories[s].id # memories[t].id

\* No two of the facts count as the same, there are no more than the limit,
\* and a new process finds them all unless a write of theirs was lost.
FactsAreKept ==
    /\ \A i, j \in DOMAIN facts : i < j => <<facts[i], facts[j]>> \notin Similar
    /\ Len(facts) <= MaxFacts
    /\ "facts" \notin damaged => factFile = facts
=============================================================================
