------------------------------- MODULE Staging -------------------------------
(***************************************************************************)
(* Staged changes of files (internal/diffsandbox): they are collected and  *)
(* shown, and then carried out one after the other or dropped.  The        *)
(* sandbox has one lock; the files are anybody's.                          *)
(***************************************************************************)
EXTENDS Naturals, Sequences, FiniteSets

CONSTANTS Paths, Contents,
          None, Torn,                 \* no file, one that was cut
          MaxChanges, MaxOutside      \* bounds

StagingAssumption ==
    /\ None \notin Contents /\ Torn \notin Contents \cup {None} /\ MaxChanges \in Nat /\ MaxOutside \in Nat

VARIABLES disk,     \* the files
          changes,  \* Sandbox.changes
          applying, \* the change Apply is at, 0 when nobody applies
          last,     \* what the last Apply or Reject returned
          touched,  \* history: files others changed since Apply began
          staged, outside

vars == <<disk, changes, applying, last, touched, staged, outside>>

Change == [path : Paths, action : {"create", "edit"}, new : Contents]
          \cup [path : Paths, action : {"delete"}, new : {None}]

Init ==
    /\ disk \in [Paths -> Contents \cup {None}]
    /\ changes = << >> /\ applying = 0 /\ last = "none" /\ touched = {}
    /\ staged = 0 /\ outside = 0

Locked == applying # 0

\* StageCreate, StageEdit, StageDelete: the files are not looked at.
Stage(c) ==
    /\ ~Locked /\ staged < MaxChanges /\ staged' = staged + 1
    /\ changes' = Append(changes, c)
    /\ UNCHANGED <<disk, applying, last, touched, outside>>

\* FormatDiff: what it counts for each change, a creation once more for every
\* time it was staged.
FormatDiff == [added |-> Cardinality({i \in DOMAIN changes : changes[i].new # None}),
               removed |-> Cardinality({i \in DOMAIN changes : changes[i].action # "create"})]

Apply ==
    /\ ~Locked /\ changes # << >>
    /\ applying' = 1 /\ touched' = {}
    /\ UNCHANGED <<disk, changes, last, staged, outside>>

\* A change that fails, perhaps within the write of its file, ends Apply: those
\* before it are done, and all of them stay staged.
Failed(c) ==
    /\ applying' = 0 /\ last' = "error" /\ UNCHANGED changes
    /\ \/ UNCHANGED disk
       \/ c.action # "delete" /\ disk' = [disk EXCEPT ![c.path] = Torn]

\* The next change; writing may fail, deleting fails when there is no file.
Carry ==
    /\ Locked /\ applying <= Len(changes)
    /\ LET c == changes[applying]
       IN \/ Failed(c)
          \/ /\ c.action = "delete" => disk[c.path] # None
             /\ disk' = [disk EXCEPT ![c.path] = c.new]
             /\ applying' = applying + 1 /\ UNCHANGED <<changes, last>>
    /\ UNCHANGED <<touched, staged, outside>>

Applied ==
    /\ applying > Len(changes)
    /\ applying' = 0 /\ last' = "applied" /\ changes' = << >>
    /\ UNCHANGED <<disk, touched, staged, outside>>

Reject ==
    /\ ~Locked /\ changes # << >>
    /\ changes' = << >> /\ last' = "rejected"
    /\ UNCHANGED <<disk, applying, touched, staged, outside>>

\* Somebody else writes or deletes a file.
Outside(p, v) ==
    /\ outside < MaxOutside /\ outside' = outside + 1
    /\ disk' = [disk EXCEPT ![p] = v]
    /\ touched' = touched \cup {p}
    /\ UNCHANGED <<changes, applying, last, staged>>

Next ==
    \/ \E c \in Change : Stage(c)
    \/ Apply \/ Carry \/ Applied \/ Reject
    \/ \E p \in Paths, v \in Contents \cup {None} : Outside(p, v)

Spec == Init /\ [][Next]_vars
-----------------------------------------------------------------------------
TypeOK ==
    /\ disk \in [Paths -> Contents \cup {None, Torn}]
    /\ changes \in Seq(Change) /\ applying \in 0..Len(changes) + 1
    /\ FormatDiff.added + FormatDiff.removed >= Len(changes)

\* Changes leave the list when they are dropped on request, or all of them
\* were carried out: each file then holds what its last change says, unless
\* somebody else wrote it meanwhile.
NoChangeIsLost ==
    [][changes # << >> /\ changes' = << >> =>
          \/ last' = "rejected"
          \/ /\ last' = "applied"
             /\ \A i \in DOMAIN changes :
                  (\A j \in DOMAIN changes : changes[j].path = changes[i].path => j <= i)
                     => changes[i].path \in touched \/ disk[changes[i].path] = changes[i].new]_vars
=============================================================================
