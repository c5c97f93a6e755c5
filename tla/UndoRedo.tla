------------------------------ MODULE UndoRedo ------------------------------
(***************************************************************************)
(* internal/undoredo/undoredo.go: before the assistant changes files, the  *)
(* manager records what they hold; Undo puts the last record back, Redo    *)
(* takes it from the redo buffer to the history again.  Removing a file is *)
(* assumed to succeed.                                                     *)
(***************************************************************************)
EXTENDS Naturals, Sequences

CONSTANTS Paths,
          Contents,    \* what a file may hold
          Empty,       \* the content of an empty file
          HistoryMax,  \* actions kept, 50 in the code
          MaxChanges,  \* bound on BeforeChange
          Absent       \* no such file

UndoAssumption ==
    /\ Empty \in Contents /\ Absent \notin Contents
    /\ HistoryMax \in Nat \ {0} /\ MaxChanges \in Nat

VARIABLES tree,     \* the files
          history,  \* recorded actions: the old contents of the files of each
          redoBuf,  \* undone actions
          open,     \* the files the announced change may touch
          changes,  \* changes announced so far
          base,     \* history: the files at the start
          faithful  \* history: no record was wrong or dropped, no Undo failed

vars == <<tree, history, redoBuf, open, changes, base, faithful>>

Trees == [Paths -> Contents \cup {Absent}]
FileSets == (SUBSET Paths) \ {{}}
\* Files, NewFiles of an Action: a new file's old content is Absent.
Actions == UNION {[ps -> Contents \cup {Absent}] : ps \in FileSets}
Last(s) == s[Len(s)]
Front(s) == SubSeq(s, 1, Len(s) - 1)
Over(action, files) == [p \in Paths |-> IF p \in DOMAIN action THEN action[p] ELSE files[p]]

Init ==
    /\ tree \in Trees /\ base = tree
    /\ history = << >> /\ redoBuf = << >>
    /\ open = {} /\ changes = 0 /\ faithful = TRUE

\* Mutant: what was undone stays to be redone.
BeforeChangeKeepsRedo(ps) ==
    /\ changes < MaxChanges
    /\ changes' = changes + 1
    /\ \E unread \in SUBSET {p \in ps : tree[p] # Absent} :
         LET action == [p \in ps |-> IF p \in unread THEN Absent ELSE tree[p]]
             all == Append(history, action)
         IN /\ history' = IF Len(all) > HistoryMax THEN Tail(all) ELSE all
            /\ faithful' = (faithful /\ unread = {} /\ Len(all) <= HistoryMax)
    /\ open' = ps
    /\ UNCHANGED <<tree, base, redoBuf>>

\* The files are recorded; one that cannot be read counts as new.
BeforeChange(ps) ==
    /\ changes < MaxChanges
    /\ changes' = changes + 1
    /\ \E unread \in SUBSET {p \in ps : tree[p] # Absent} :
         LET action == [p \in ps |-> IF p \in unread THEN Absent ELSE tree[p]]
             all == Append(history, action)
         IN /\ history' = IF Len(all) > HistoryMax THEN Tail(all) ELSE all
            /\ faithful' = (faithful /\ unread = {} /\ Len(all) <= HistoryMax)
    /\ redoBuf' = << >>
    /\ open' = ps
    /\ UNCHANGED <<tree, base>>

\* The change itself (external): the files announced are written.
Write(p) ==
    /\ p \in open
    /\ \E c \in Contents \cup {Absent} : c # tree[p] /\ tree' = [tree EXCEPT ![p] = c]
    /\ UNCHANGED <<history, redoBuf, open, changes, base, faithful>>

\* Mutant: the files that were created stay.
UndoKeepsNew ==
    /\ history # << >>
    /\ history' = Front(history)
    /\ LET action == Last(history)
       IN tree' = Over([p \in {q \in DOMAIN action : action[q] # Absent} |-> action[p]], tree)
    /\ redoBuf' = Append(redoBuf, Last(history))
    /\ open' = {}
    /\ UNCHANGED <<changes, base, faithful>>

Undo ==
    /\ history # << >>
    /\ history' = Front(history)
    /\ tree' = Over(Last(history), tree)
    /\ redoBuf' = Append(redoBuf, Last(history))
    /\ open' = {}
    /\ UNCHANGED <<changes, base, faithful>>

\* A file cannot be written, or only cut to nothing: the action is gone, some
\* files restored.
UndoFails ==
    /\ history # << >>
    /\ history' = Front(history)
    /\ LET action == Last(history)
           old == {p \in DOMAIN action : action[p] # Absent}
       IN \E f \in old, before \in SUBSET old, cut \in BOOLEAN :
            /\ f \notin before
            /\ tree' = [Over([p \in before |-> action[p]], tree) EXCEPT ![f] = IF cut THEN Empty ELSE @]
    /\ open' = {} /\ faithful' = FALSE
    /\ UNCHANGED <<redoBuf, changes, base>>

\* Redo moves the record only.
Redo ==
    /\ redoBuf # << >>
    /\ history' = Append(history, Last(redoBuf))
    /\ redoBuf' = Front(redoBuf)
    /\ open' = {}
    /\ UNCHANGED <<tree, changes, base, faithful>>

Next ==
    \/ \E ps \in FileSets : BeforeChange(ps)
    \/ \E p \in Paths : Write(p)
    \/ Undo \/ UndoFails \/ Redo

Spec == Init /\ [][Next]_vars

-----------------------------------------------------------------------------
TypeOK ==
    /\ tree \in Trees /\ base \in Trees
    /\ history \in Seq(Actions) /\ redoBuf \in Seq(Actions)
    /\ Len(history) + Len(redoBuf) <= HistoryMax
    /\ open \subseteq Paths /\ changes \in 0..MaxChanges /\ faithful \in BOOLEAN

\* The files once the last n actions of the history are undone.
Unrolled[n \in Nat] == IF n = 0 THEN tree ELSE Over(history[Len(history) + 1 - n], Unrolled[n - 1])

\* Undoing everything leads back to the files of the start, whatever changes
\* overlapped and whatever was undone and redone before, unless a record was
\* wrong, trimmed, or lost to a failed Undo.
UndoLeadsBack == faithful => Unrolled[Len(history)] = base
=============================================================================
