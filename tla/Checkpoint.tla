----------------------------- MODULE Checkpoint -----------------------------
(***************************************************************************)
(* internal/checkpoint/checkpoint.go: snapshots of files, kept in memory   *)
(* and on disk, from which a rewind restores the files and a fork copies   *)
(* them.  A checkpoint's id is the clock's millisecond, the name of its    *)
(* copy of a file the file's path with the separators replaced.            *)
(* Writing into the data directory and the directory of a fork is assumed  *)
(* to succeed, and so is removing a file.                                  *)
(***************************************************************************)
EXTENDS Naturals, Sequences

CONSTANTS Paths,
          Contents,    \* what a file may hold
          Empty,       \* the content of an empty file
          Copy,        \* sanitizePath: the name of each path's copy
          MaxHistory,  \* checkpoints kept in memory, 50 in the code
          MaxTime,     \* bound on the clock
          MaxRestarts, \* bound on restarts
          Absent,      \* no such file
          Unread       \* a file that could not be read

CheckpointAssumption ==
    /\ Empty \in Contents /\ Absent \notin Contents /\ Unread \notin Contents
    /\ MaxHistory \in Nat \ {0} /\ MaxTime \in Nat /\ MaxRestarts \in Nat

VARIABLES tree,        \* the files
          clock,       \* milliseconds
          checkpoints, \* Manager.checkpoints, oldest first
          snapshots,   \* Manager.snapshots: id -> the files as they were
          disk,        \* the copies, by id and name
          index,       \* index.json: the checkpoints as last saved
          made,        \* history: the files each id was last made of
          reused,      \* history: ids given to two checkpoints
          copied,      \* the last rewind or fork
          restarts

vars == <<tree, clock, checkpoints, snapshots, disk, index, made, reused, copied, restarts>>

Id == 0..MaxTime
Names == {Copy[p] : p \in Paths}
Trees == [Paths -> Contents \cup {Absent}]
FileSets == (SUBSET Paths) \ {{}}
\* The contents of a checkpoint's files; Absent and Unread are both recorded
\* as "did not exist".
Snapshots == UNION {[ps -> Contents \cup {Absent, Unread}] : ps \in {{}} \cup FileSets}
NoFiles == [p \in {} |-> Absent]
Exists(s) == {p \in DOMAIN s : s[p] \in Contents}
Restored == [id : Id, from : {"memory", "disk"}, op : {"rewind", "fork", "none"}, dir : Trees]
NothingCopied == [id |-> 0, from |-> "memory", op |-> "none", dir |-> [p \in Paths |-> Absent]]

Init ==
    /\ tree \in Trees
    /\ clock = 0 /\ checkpoints = << >> /\ index = << >>
    /\ snapshots = [i \in Id |-> NoFiles] /\ made = [i \in Id |-> NoFiles]
    /\ disk = [i \in Id |-> [n \in Names |-> Absent]]
    /\ reused = {} /\ copied = NothingCopied /\ restarts = 0

Tick ==
    /\ clock < MaxTime
    /\ clock' = clock + 1
    /\ UNCHANGED <<tree, checkpoints, snapshots, disk, index, made, reused, copied, restarts>>

\* Somebody changes, creates or deletes a file.
Edit(p) ==
    /\ \E c \in Contents \cup {Absent} : c # tree[p] /\ tree' = [tree EXCEPT ![p] = c]
    /\ copied' = NothingCopied
    /\ UNCHANGED <<clock, checkpoints, snapshots, disk, index, made, reused, restarts>>

\* What reading the files gives: some of those that are there fail.
Read(ps) ==
    {s \in [ps -> Contents \cup {Absent, Unread}] :
        \A p \in ps : s[p] = tree[p] \/ (s[p] = Unread /\ tree[p] # Absent)}

\* The copies after those of s were written; of two with the same name the
\* one written last stays.
Copies(old, s) ==
    {new \in [Names -> Contents \cup {Absent}] :
        \A n \in Names :
           LET ps == {p \in Exists(s) : Copy[p] = n}
           IN IF ps = {} THEN new[n] = old[n] ELSE \E p \in ps : new[n] = s[p]}

Create(ps) ==
    /\ \E s \in Read(ps), ds \in [Names -> Contents \cup {Absent}] :
         LET all == Append(checkpoints, [id |-> clock, files |-> Exists(s)])
             full == Len(all) > MaxHistory
             kept == IF full THEN Tail(all) ELSE all
         IN /\ ds \in Copies(disk[clock], s)
            /\ disk' = [disk EXCEPT ![clock] = ds]
            /\ checkpoints' = kept /\ index' = kept
            /\ snapshots' = LET new == [snapshots EXCEPT ![clock] = s]
                            IN IF full THEN [new EXCEPT ![Head(all).id] = NoFiles] ELSE new
            /\ made' = [made EXCEPT ![clock] = s]
    /\ reused' = IF made[clock] = NoFiles THEN reused ELSE reused \cup {clock}
    /\ copied' = NothingCopied
    /\ UNCHANGED <<tree, clock, restarts>>

\* loadSnapshots: the files of the first checkpoint with this id in the index,
\* as far as their copies can be read.
Loaded(i) ==
    LET found == {k \in DOMAIN index : index[k].id = i}
        first == CHOOSE k \in found : \A l \in found : k <= l
        ps == IF found = {} THEN {} ELSE {p \in index[first].files : disk[i][Copy[p]] # Absent}
    IN [p \in ps |-> disk[i][Copy[p]]]

InMemory(i) == snapshots[i] # NoFiles
Indexed(i) == \E k \in DOMAIN index : index[k].id = i

\* The content a file is restored with: an empty one is read from its copy.
Content(i, s, p) ==
    IF s[p] \in {Absent, Unread} THEN Absent
    ELSE IF s[p] = Empty THEN disk[i][Copy[p]] ELSE s[p]

\* Mutant: only the files that existed are handled.
RestoreNoRemoval(i, s) == [p \in Paths |-> IF p \in Exists(s) THEN Content(i, s, p) ELSE tree[p]]

\* The files once all of s are restored, those that did not exist removed.
Restore(i, s) == [p \in Paths |-> IF p \in DOMAIN s THEN Content(i, s, p) ELSE tree[p]]

\* Rewind, also called by RewindLast.  A file that cannot be written ends it,
\* the files before it restored, the file itself perhaps cut to nothing.
Rewind(i) ==
    /\ InMemory(i) \/ Indexed(i)
    /\ LET s == IF InMemory(i) THEN snapshots[i] ELSE Loaded(i)
           goal == Restore(i, s)
       IN \/ /\ tree' = goal
             /\ copied' = [id |-> i, from |-> IF InMemory(i) THEN "memory" ELSE "disk",
                           op |-> "rewind", dir |-> goal]
          \/ /\ \E f \in Exists(s), before \in SUBSET DOMAIN s :
                  /\ f \notin before
                  /\ tree' \in {[p \in Paths |-> IF p \in before THEN goal[p]
                                                 ELSE IF p = f THEN c ELSE tree[p]] :
                                  c \in {tree[f], Empty}}
             /\ copied' = NothingCopied
    /\ UNCHANGED <<clock, checkpoints, snapshots, disk, index, made, reused, restarts>>

\* Fork copies the files that existed into a new directory; it knows the
\* checkpoints in memory only.
Fork(i) ==
    /\ InMemory(i)
    /\ copied' = [id |-> i, from |-> "memory", op |-> "fork",
                  dir |-> [p \in Paths |-> IF p \in Exists(snapshots[i])
                                           THEN Content(i, snapshots[i], p) ELSE Absent]]
    /\ UNCHANGED <<tree, clock, checkpoints, snapshots, disk, index, made, reused, restarts>>

\* The process starts again: NewManager reads nothing.
Restart ==
    /\ restarts < MaxRestarts
    /\ restarts' = restarts + 1
    /\ checkpoints' = << >> /\ snapshots' = [i \in Id |-> NoFiles]
    /\ copied' = NothingCopied
    /\ UNCHANGED <<tree, clock, disk, index, made, reused>>

Next ==
    \/ Tick \/ Restart
    \/ \E p \in Paths : Edit(p)
    \/ \E ps \in FileSets : Create(ps)
    \/ \E i \in Id : Rewind(i) \/ Fork(i)

Spec == Init /\ [][Next]_vars

-----------------------------------------------------------------------------
TypeOK ==
    /\ tree \in Trees /\ clock \in Id /\ restarts \in 0..MaxRestarts
    /\ \A k \in DOMAIN checkpoints : checkpoints[k] \in [id : Id, files : SUBSET Paths]
    /\ Len(checkpoints) <= MaxHistory /\ Len(index) <= MaxHistory
    /\ \A i \in Id : snapshots[i] \in Snapshots /\ made[i] \in Snapshots
    /\ disk \in [Id -> [Names -> Contents \cup {Absent}]]
    /\ reused \subseteq Id /\ copied \in Restored

\* No other file of the checkpoint has a copy of the same name.
OwnCopy(s, p) == \A q \in Exists(s) : Copy[q] = Copy[p] => q = p

\* What a rewind or a fork that succeeds gives back is what the checkpoint was
\* made of, across trimming, edits and restarts, as long as its id is its own:
\* every file it read then, from memory one that was not empty whatever the
\* names of the copies, and no file it found missing, from memory.
CopiesAreFaithful ==
    copied.op # "none" /\ copied.id \notin reused =>
        LET was == made[copied.id]
        IN \A p \in DOMAIN was :
             /\ was[p] \in Contents /\ (OwnCopy(was, p) \/ (copied.from = "memory" /\ was[p] # Empty))
                  => copied.dir[p] = was[p]
             /\ was[p] = Absent /\ copied.from = "memory" => copied.dir[p] = Absent
=============================================================================
