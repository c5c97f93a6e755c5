----------------------------- MODULE Knowledge -----------------------------
(***************************************************************************)
(* The knowledge base: the schema and its migrations (internal/database),  *)
(* the ingest command (cmd/ingest), which cuts a file into chunks and      *)
(* stores each with its embedding, and the search that gives the most      *)
(* relevant ones to a prompt (internal/knowledge).  Programs and ingest    *)
(* commands share one database, SQLite or PostgreSQL.                      *)
(***************************************************************************)
EXTENDS Integers, Sequences, SequencesExt, FiniteSets, FiniteSetsExt

CONSTANTS Programs, Ingests,  \* processes
          Files, Texts,       \* documents, and what may be in them
          Paragraphs,         \* of each text: [name, bytes, runes]
          Vector,             \* the embedding of what ends in a paragraph
          Queries,            \* embeddings of questions
          Sizes, Overlap,     \* --chunk-size, --overlap
          TopK,               \* 5 in the code
          Versions,           \* statements or migrations, in order
          Documents,          \* the one with the table of documents
          MaxStarts, MaxEdits

Paragraph == [name : DOMAIN Vector, bytes : Nat, runes : Nat]

KnowledgeAssumption ==
    /\ Programs \cap Ingests = {} /\ Paragraphs \in [Texts -> Seq(Paragraph)]
    /\ \A n \in DOMAIN Vector : Vector[n] \in Seq(Nat)
    /\ Queries \subseteq Seq(Nat)
    /\ Versions \in Nat /\ Documents \in 1..Versions /\ TopK \in Nat \ {0} /\ Overlap \in Nat
    /\ Sizes \subseteq Nat \ {0}

VARIABLES driver,           \* "sqlite" or "postgres"
          tables, recorded, \* what exists; what schema_migrations says
          applied,          \* history: how often each version was committed
          text,             \* of each file
          pc, at,           \* a process: where it is, at which version or chunk
          run,              \* an ingest: file, size, chunks, failed ones
          rows,             \* the table of documents
          answer,           \* what the last search gave, and was given
          starts, edits

schema == <<tables, recorded, applied>>
vars == <<driver, schema, text, pc, at, run, rows, answer, starts, edits>>
Processes == Programs \cup Ingests

-----------------------------------------------------------------------------
\* A chunk that starts with the end of the one before, or does not, and goes
\* on with whole paragraphs, a blank line before each but the first.
Chunk(tail, ps) == [tail |-> tail, paras |-> ps]
Empty(c) == c.paras = << >> /\ ~c.tail
Bytes(c) ==
    LET lengths == FoldLeft(LAMBDA n, p : n + p.bytes + 2, 0, c.paras)
    IN IF c.tail THEN Overlap + 1 + lengths ELSE IF Empty(c) THEN 0 ELSE lengths - 2

\* The length so far is in bytes, the paragraph's in characters; what follows
\* a cut is taken whatever its length, and so is what follows nothing.
Cuts(s, p, size) == Bytes(s.current) + p.runes > size /\ ~Empty(s.current)
Add(s, p, size) ==
    IF p.runes = 0 THEN s
    ELSE IF Cuts(s, p, size)
    THEN [chunks |-> Append(s.chunks, s.current),
          current |-> Chunk(Overlap > 0 /\ Bytes(s.current) > Overlap, <<p>>)]
    ELSE [s EXCEPT !.current.paras = Append(@, p)]

ChunkText(ps, size) ==
    LET end == FoldLeft(LAMBDA s, p : Add(s, p, size),
                        [chunks |-> << >>, current |-> Chunk(FALSE, << >>)], ps)
    IN IF Empty(end.current) THEN end.chunks ELSE Append(end.chunks, end.current)

-----------------------------------------------------------------------------
NoRun == [no |-> 0, text |-> "none", size |-> 0, chunks |-> << >>, failed |-> {}]
NoAnswer == [query |-> << >>, found |-> {}, from |-> {}]

Init ==
    /\ driver \in {"sqlite", "postgres"}
    /\ tables = {} /\ recorded = {} /\ applied = [v \in 1..Versions |-> 0]
    /\ text \in [Files -> Texts]
    /\ pc = [p \in Processes |-> "idle"] /\ at = [p \in Processes |-> 1]
    /\ run = [p \in Ingests |-> NoRun]
    /\ rows = {} /\ answer = NoAnswer /\ starts = 0 /\ edits = 0

Goto(p, l) == pc' = [pc EXCEPT ![p] = l]
Step(p, l) == at' = [at EXCEPT ![p] = @ + 1] /\ Goto(p, l)
Exit(p) == Goto(p, "exited") /\ UNCHANGED at
Starts(p, l) ==
    /\ pc[p] = "idle" /\ starts < MaxStarts /\ starts' = starts + 1
    /\ Goto(p, l) /\ at' = [at EXCEPT ![p] = 1]

\* main.go connects to the database and migrates it.
StartProgram(p) ==
    /\ Starts(p, "migrate")
    /\ UNCHANGED <<driver, schema, text, run, rows, answer, edits>>

\* The ingest command reads the file and cuts it.  Only SQLite is migrated.
StartIngest(p, f, size) ==
    /\ Starts(p, IF driver = "sqlite" THEN "migrate" ELSE "embed")
    /\ run' = [run EXCEPT ![p] = [no |-> starts', text |-> text[f], size |-> size, failed |-> {},
                                  chunks |-> ChunkText(Paragraphs[text[f]], size)]]
    /\ UNCHANGED <<driver, schema, text, rows, answer, edits>>

\* The statements are over: a program serves, an ingest goes to its chunks.
Migrated(p) ==
    /\ pc[p] = "migrate" /\ at[p] > Versions
    /\ Goto(p, IF p \in Programs THEN "serve" ELSE "embed")
    /\ at' = [at EXCEPT ![p] = 1]
    /\ UNCHANGED <<driver, schema, text, run, rows, answer, starts, edits>>

\* CREATE ... IF NOT EXISTS; the database may be locked for too long.
MigrateSQLite(p) ==
    /\ driver = "sqlite" /\ pc[p] = "migrate" /\ at[p] <= Versions
    /\ \/ tables' = tables \cup {at[p]} /\ Step(p, "migrate")
       \/ Exit(p) /\ UNCHANGED tables
    /\ UNCHANGED <<driver, recorded, applied, text, run, rows, answer, starts, edits>>

\* Is the version recorded?
CheckVersion(p) ==
    /\ driver = "postgres" /\ pc[p] = "migrate" /\ at[p] <= Versions
    /\ IF at[p] \in recorded THEN Step(p, "migrate") ELSE Goto(p, "apply") /\ UNCHANGED at
    /\ UNCHANGED <<driver, schema, text, run, rows, answer, starts, edits>>

\* Mutant: a version that is there already is recorded again.
RecordsTwice(p) ==
    /\ pc[p] = "apply"
    /\ tables' = tables \cup {at[p]} /\ recorded' = recorded \cup {at[p]}
    /\ applied' = [applied EXCEPT ![at[p]] = @ + 1] /\ Step(p, "migrate")
    /\ UNCHANGED <<driver, text, run, rows, answer, starts, edits>>

\* The transaction: the file's statements and the row that records them, whose
\* primary key refuses what another process recorded since; then the program
\* exits, as it does when a statement fails.
ApplyVersion(p) ==
    /\ pc[p] = "apply"
    /\ \/ /\ at[p] \notin recorded
          /\ tables' = tables \cup {at[p]} /\ recorded' = recorded \cup {at[p]}
          /\ applied' = [applied EXCEPT ![at[p]] = @ + 1] /\ Step(p, "migrate")
       \/ Exit(p) /\ UNCHANGED schema
    /\ UNCHANGED <<driver, text, run, rows, answer, starts, edits>>

-----------------------------------------------------------------------------
AtChunk(p, l) == pc[p] = l /\ at[p] \in DOMAIN run[p].chunks
Missed(r, n) == [r EXCEPT !.failed = @ \cup {n}]
Skips(p) ==
    /\ Step(p, "embed")
    /\ run' = [run EXCEPT ![p] = Missed(@, at[p])]
    /\ UNCHANGED rows

\* A chunk that cannot be embedded is left out.
Embed(p) ==
    /\ AtChunk(p, "embed")
    /\ \/ Goto(p, "insert") /\ UNCHANGED <<at, run, rows>>
       \/ Skips(p)
    /\ UNCHANGED <<driver, schema, text, answer, starts, edits>>

\* Nothing says that the row is there already, from an earlier run.
Row(p) ==
    LET c == run[p].chunks[at[p]]
    IN [run |-> run[p].no, index |-> at[p], chunk |-> c, vector |-> Vector[Last(c.paras).name]]

\* So is one that cannot be stored: without the table, for one.
Ingest(p) ==
    /\ AtChunk(p, "insert")
    /\ \/ Documents \in tables /\ rows' = rows \cup {Row(p)} /\ Step(p, "embed") /\ UNCHANGED run
       \/ Skips(p)
    /\ UNCHANGED <<driver, schema, text, answer, starts, edits>>

Complete(p) ==
    /\ pc[p] = "embed" /\ at[p] > Len(run[p].chunks)
    /\ Goto(p, "done")
    /\ UNCHANGED <<driver, schema, text, at, run, rows, answer, starts, edits>>

\* The process is killed, or ends and may be started again.
Kill(p) ==
    /\ pc[p] # "idle" /\ Goto(p, "idle")
    /\ run' = [q \in Ingests |-> IF q = p THEN NoRun ELSE run[q]]
    /\ UNCHANGED <<driver, schema, text, at, rows, answer, starts, edits>>

Edit(f, t) ==
    /\ text[f] # t /\ edits < MaxEdits /\ edits' = edits + 1
    /\ text' = [text EXCEPT ![f] = t]
    /\ UNCHANGED <<driver, schema, pc, at, run, rows, answer, starts>>

-----------------------------------------------------------------------------
Dot(a, b) == FoldLeft(LAMBDA n, i : n + a[i] * b[i], 0, [i \in DOMAIN a |-> i])

\* cosineSimilarity of a vector with the query's, as a fraction whose parts
\* are squared: components are not negative here.
Score(q, v) ==
    IF Len(q) # Len(v) \/ Dot(q, q) * Dot(v, v) = 0 THEN [over |-> 0, under |-> 1]
    ELSE [over |-> Dot(q, v) * Dot(q, v), under |-> Dot(q, q) * Dot(v, v)]
AtLeast(a, b) == a.over * b.under >= b.over * a.under
Relevant(s) == 100 * s.over > 9 * s.under      \* above 0.3

\* The best TopK of the rows that have a vector; ties are in any order.
Search(q, stored) ==
    {S \in SUBSET stored :
       /\ Cardinality(S) = Min({TopK, Cardinality(stored)})
       /\ \A r \in S, s \in stored \ S : AtLeast(Score(q, r.vector), Score(q, s.vector))}

\* Service.Search for a prompt: those of them above the threshold; nothing
\* when the query cannot be embedded.  Some of the rows may pass for all: the
\* index PostgreSQL uses is approximate, and SQLite's rows end at an error as at
\* the last one.
Answer(p, q) ==
    /\ p \in Programs /\ pc[p] = "serve"
    /\ LET stored == {r \in rows : r.vector # << >>}
       IN \E seen \in SUBSET stored :
            \E S \in Search(q, seen) :
              answer' = [query |-> q, from |-> seen,
                         found |-> {r \in S : Relevant(Score(q, r.vector))}]
    /\ UNCHANGED <<driver, schema, text, pc, at, run, rows, starts, edits>>

Next ==
    \/ \E p \in Programs : StartProgram(p) \/ (\E q \in Queries : Answer(p, q))
    \/ \E p \in Ingests : \/ \E f \in Files, size \in Sizes : StartIngest(p, f, size)
                          \/ Embed(p) \/ Ingest(p) \/ Complete(p)
    \/ \E p \in Processes : \/ Migrated(p) \/ MigrateSQLite(p) \/ CheckVersion(p)
                            \/ ApplyVersion(p) \/ Kill(p)
    \/ \E f \in Files, t \in Texts : Edit(f, t)

Spec == Init /\ [][Next]_vars

-----------------------------------------------------------------------------
TypeOK ==
    /\ tables \subseteq 1..Versions /\ recorded \subseteq tables
    /\ pc \in [Processes -> {"idle", "migrate", "apply", "embed", "insert", "serve", "done", "exited"}]
    /\ at \in [Processes -> Nat \ {0}]
    /\ \A r \in rows : r.run \in 1..starts /\ r.index \in Nat \ {0}

\* However programs race through the migrations, fail and are killed, a version
\* is applied once and recorded with it, none before an earlier one, and who
\* serves or stores finds the table.
SchemaIsWhole ==
    /\ \A v \in tables : 1..v \subseteq tables
    /\ driver = "postgres" => recorded = tables /\ \A v \in 1..Versions : applied[v] <= 1
    /\ \A p \in Programs : pc[p] = "serve" => tables = 1..Versions
    /\ driver = "sqlite" => \A p \in Ingests : pc[p] = "insert" => Documents \in tables

\* The paragraphs in which something is written.
Written(ps) == FoldLeft(LAMBDA s, q : IF q.runes = 0 THEN s ELSE Append(s, q), << >>, ps)

\* The chunks hold every paragraph of the text that was read, whole, once and
\* in order; one that is longer than asked has a single paragraph or owes it to
\* a blank line or to characters of several bytes.
ChunksAreWhole ==
    \A p \in Ingests : run[p] # NoRun =>
       /\ FlattenSeq([i \in DOMAIN run[p].chunks |-> run[p].chunks[i].paras])
            = Written(Paragraphs[run[p].text])
       /\ \A i \in DOMAIN run[p].chunks :
            LET c == run[p].chunks[i]
            IN /\ c.paras # << >>
               /\ \/ Len(c.paras) = 1
                  \/ Bytes(c) <= run[p].size + 2 + Last(c.paras).bytes - Last(c.paras).runes

\* A command that ended by itself stored every chunk it did not report, once.
EveryChunkStored ==
    \A p \in Ingests : pc[p] = "done" =>
       LET stored == {r \in rows : r.run = run[p].no}
       IN /\ {r.index : r \in stored} = DOMAIN run[p].chunks \ run[p].failed
          /\ \A r \in stored : r.chunk = run[p].chunks[r.index]

\* A prompt gets the best of the relevant rows: no more than TopK, and one that
\* is left out is no better than any that is in.  Cutting before the threshold
\* is applied loses nothing.
AnswersAreBest ==
    LET S(r) == Score(answer.query, r.vector)
        relevant == {r \in answer.from : Relevant(S(r))}
    IN /\ answer.found \subseteq relevant
       /\ Cardinality(answer.found) = Min({TopK, Cardinality(relevant)})
       /\ \A r \in answer.found, s \in relevant \ answer.found : AtLeast(S(r), S(s))
=============================================================================
