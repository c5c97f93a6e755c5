-------------------------- MODULE WorkspaceProofs --------------------------
(***************************************************************************)
(* Proofs about what is kept in files, for every set of files and contents *)
(* and every bound of the run.                                             *)
(***************************************************************************)
EXTENDS MCWorkspace, Integers, FiniteSetTheorems, WellFoundedInduction, TLAPS

\* A set of numbers has a least one.
LEMMA Least == ASSUME NEW T \in SUBSET Nat, T # {} PROVE \E x \in T : \A y \in T : x <= y
<1> DEFINE Less == OpToRel(<, Nat)
<1>1. IsWellFoundedOn(Less, Nat)
  BY NatLessThanWellFounded
<1>2. Less = {ss \in Nat \X Nat : ss[1] < ss[2]}
  BY DEF OpToRel
<1>3. \A x, y \in Nat : <<y, x>> \in Less <=> y < x
  BY <1>2
<1> HIDE DEF Less
<1>4. \E x \in T : \A y \in T : ~ (<<y, x>> \in Less)
  BY <1>1, WFMin
<1>5. PICK x \in T : \A y \in T : ~ (<<y, x>> \in Less)
  BY <1>4
<1>6. ASSUME NEW y \in T PROVE x <= y
  <2>1. x \in Nat /\ y \in Nat
    OBVIOUS
  <2>2. ~ (y < x)
    BY <1>3, <1>5, <2>1, Zenon
  <2>3. QED
    BY <2>1, <2>2
<1>7. QED
  BY <1>6

-----------------------------------------------------------------------------
(* Checkpoints.                                                             *)

Entry == [id : Id, files : SUBSET Paths]

\* Files as they were read.
WasRead(s) == DOMAIN s \subseteq Paths /\ \A p \in DOMAIN s : s[p] \in Contents \cup {Absent, Unread}

CopyTypes ==
    /\ clock \in Id
    /\ checkpoints \in Seq(Entry) /\ index \in Seq(Entry)
    /\ snapshots = [i \in Id |-> snapshots[i]]
    /\ made = [i \in Id |-> made[i]] /\ \A i \in Id : WasRead(made[i])
    /\ disk \in [Id -> [Names -> Contents \cup {Absent}]]
    /\ reused \subseteq Id

\* The entries of a list of checkpoints say what was read.
ListsWhatWasRead(list) ==
    \A k \in DOMAIN list :
       /\ made[list[k].id] # NoFiles
       /\ list[k].id \notin reused => list[k].files = Exists(made[list[k].id])

\* A checkpoint in memory is what its id was last made of; the copies on disk
\* are those of the one checkpoint that has the id.
CopiesInv ==
    /\ CopyTypes
    /\ \A i \in Id : snapshots[i] \in {NoFiles, made[i]}
    /\ ListsWhatWasRead(checkpoints) /\ ListsWhatWasRead(index)
    /\ \A i \in Id \ reused : \A p \in Exists(made[i]) :
          OwnCopy(made[i], p) => disk[i][Copy[p]] = made[i][p]
    /\ CopiesAreFaithful

LEMMA InitCopies == Init => CopiesInv
<1>1. SUFFICES ASSUME Init PROVE CopiesInv
  OBVIOUS
<1>2. 0 \in Id
  BY FilesAssumption DEF CheckpointAssumption, Id
<1>3. CopyTypes
  BY <1>1, <1>2 DEF Init, CopyTypes, WasRead, NoFiles
<1>4. CopiesAreFaithful
  BY <1>1 DEF Init, CopiesAreFaithful, NothingCopied
<1>5. QED
  BY <1>1, <1>3, <1>4 DEF Init, CopiesInv, ListsWhatWasRead, Exists, NoFiles

\* Nothing but the files, or the clock, changes; the last copy may be forgotten.
LEMMA SameCopies ==
    ASSUME CopiesInv, UNCHANGED <<checkpoints, snapshots, disk, index, made, reused>>, clock' \in Id,
           CopiesAreFaithful'
    PROVE  CopiesInv'
BY DEF CopiesInv, CopyTypes, ListsWhatWasRead

\* The checkpoint of an id that was loaded from disk.
LEMMA LoadedFiles ==
    ASSUME CopiesInv, NEW i \in Id, Indexed(i), i \notin reused
    PROVE  LET ps == {p \in Exists(made[i]) : disk[i][Copy[p]] # Absent}
           IN Loaded(i) = [p \in ps |-> disk[i][Copy[p]]]
<1> DEFINE found == {k \in DOMAIN index : index[k].id = i}
           first == CHOOSE k \in found : \A l \in found : k <= l
<1>1. found # {} /\ found \in SUBSET Nat
  BY DEF Indexed, CopiesInv, CopyTypes
<1>2. \E k \in found : \A l \in found : k <= l
  BY <1>1, Least
<1>3. first \in found
  BY <1>2
<1>4. index[first].files = Exists(made[i])
  BY <1>3 DEF CopiesInv, ListsWhatWasRead
<1>5. QED
  BY <1>1, <1>4 DEF Loaded

\* What a file is restored with.
LEMMA RestoredContent ==
    ASSUME CopiesInv, NEW i \in Id, i \notin reused, InMemory(i) \/ Indexed(i)
    PROVE  LET s == IF InMemory(i) THEN snapshots[i] ELSE Loaded(i)
               was == made[i]
           IN \A p \in DOMAIN was :
                /\ was[p] \in Contents /\ (OwnCopy(was, p) \/ (InMemory(i) /\ was[p] # Empty))
                     => p \in Exists(s) /\ Content(i, s, p) = was[p]
                /\ was[p] = Absent /\ InMemory(i) => p \in DOMAIN s /\ Content(i, s, p) = Absent
<1> DEFINE was == made[i]
<1> SUFFICES ASSUME NEW p \in DOMAIN was
             PROVE  LET s == IF InMemory(i) THEN snapshots[i] ELSE Loaded(i)
                    IN /\ was[p] \in Contents /\ (OwnCopy(was, p) \/ (InMemory(i) /\ was[p] # Empty))
                            => p \in Exists(s) /\ Content(i, s, p) = was[p]
                       /\ was[p] = Absent /\ InMemory(i)
                            => p \in DOMAIN s /\ Content(i, s, p) = Absent
  OBVIOUS
<1>1. Absent \notin Contents /\ Unread \notin Contents
  BY FilesAssumption DEF CheckpointAssumption
<1>2. was[p] \in Contents => p \in Exists(was)
  BY DEF Exists
<1>3. was[p] \in Contents /\ OwnCopy(was, p) => disk[i][Copy[p]] = was[p]
  BY <1>2 DEF CopiesInv
<1>4. CASE InMemory(i)
  <2>1. snapshots[i] = was
    BY <1>4 DEF CopiesInv, InMemory
  <2>2. QED
    BY <1>1, <1>2, <1>3, <1>4, <2>1 DEF Content
<1>5. CASE ~InMemory(i)
  <2> DEFINE ps == {q \in Exists(was) : disk[i][Copy[q]] # Absent}
             s == [q \in ps |-> disk[i][Copy[q]]]
  <2>1. Loaded(i) = s
    BY <1>5, LoadedFiles
  <2>2. ASSUME was[p] \in Contents, OwnCopy(was, p)
        PROVE  p \in Exists(s) /\ Content(i, s, p) = was[p]
    BY <1>1, <1>2, <1>3, <2>2 DEF Content, Exists
  <2>3. QED
    BY <1>5, <2>1, <2>2
<1>6. QED
  BY <1>4, <1>5

LEMMA RewindCopies == ASSUME CopiesInv, NEW i \in Id, Rewind(i) PROVE CopiesInv'
<1> DEFINE s == IF InMemory(i) THEN snapshots[i] ELSE Loaded(i)
<1>1. UNCHANGED <<clock, checkpoints, snapshots, disk, index, made, reused>>
  BY DEF Rewind
<1>2. \/ copied' = NothingCopied
      \/ copied' = [id |-> i, from |-> IF InMemory(i) THEN "memory" ELSE "disk",
                    op |-> "rewind", dir |-> Restore(i, s)]
  BY DEF Rewind
<1>3. InMemory(i) \/ Indexed(i)
  BY DEF Rewind
<1>4. ASSUME i \notin reused,
             copied' = [id |-> i, from |-> IF InMemory(i) THEN "memory" ELSE "disk",
                        op |-> "rewind", dir |-> Restore(i, s)]
      PROVE  CopiesAreFaithful'
  <2>1. \A p \in DOMAIN made[i] : p \in Paths
    BY DEF CopiesInv, CopyTypes, WasRead
  <2>2. \A p \in DOMAIN made[i] : p \in DOMAIN s => Restore(i, s)[p] = Content(i, s, p)
    BY <2>1 DEF Restore
  <2>3. /\ copied'.id = i /\ copied'.dir = Restore(i, s)
        /\ copied'.from = IF InMemory(i) THEN "memory" ELSE "disk"
    BY <1>4
  <2> HIDE DEF s
  <2>4. \A p \in DOMAIN made[i] :
          /\ made[i][p] \in Contents /\ (OwnCopy(made[i], p) \/ (InMemory(i) /\ made[i][p] # Empty))
               => Restore(i, s)[p] = made[i][p]
          /\ made[i][p] = Absent /\ InMemory(i) => Restore(i, s)[p] = Absent
    BY <1>3, <1>4, <2>2, RestoredContent DEF s, Exists
  <2>5. QED
    BY <1>1, <2>3, <2>4 DEF CopiesAreFaithful, OwnCopy
<1>5. CopiesAreFaithful'
  <2>1. CASE copied' = NothingCopied
    BY <2>1 DEF CopiesAreFaithful, NothingCopied
  <2>2. CASE i \in reused
    BY <1>1, <1>2, <2>1, <2>2 DEF CopiesAreFaithful
  <2>3. QED
    BY <1>2, <1>4, <2>1, <2>2
<1>6. QED
  BY <1>1, <1>5, SameCopies DEF CopiesInv, CopyTypes

LEMMA ForkCopies == ASSUME CopiesInv, NEW i \in Id, Fork(i) PROVE CopiesInv'
<1> DEFINE s == snapshots[i]
           dir == [p \in Paths |-> IF p \in Exists(s) THEN Content(i, s, p) ELSE Absent]
<1>1. UNCHANGED <<clock, checkpoints, snapshots, disk, index, made, reused>>
  BY DEF Fork
<1>2. InMemory(i) /\ copied' = [id |-> i, from |-> "memory", op |-> "fork", dir |-> dir]
  BY DEF Fork
<1>3. copied'.id = i /\ copied'.from = "memory" /\ copied'.dir = dir
  BY <1>2
<1>4. ASSUME i \notin reused PROVE CopiesAreFaithful'
  <2>1. \A p \in DOMAIN made[i] : p \in Paths
    BY DEF CopiesInv, CopyTypes, WasRead
  <2>2. s = made[i]
    BY <1>2 DEF CopiesInv, InMemory
  <2>3. \A p \in DOMAIN made[i] :
          /\ made[i][p] \in Contents /\ (OwnCopy(made[i], p) \/ made[i][p] # Empty)
               => dir[p] = made[i][p]
          /\ made[i][p] = Absent => dir[p] = Absent
    <3>1. \A p \in DOMAIN made[i] :
            /\ made[i][p] \in Contents /\ (OwnCopy(made[i], p) \/ made[i][p] # Empty)
                 => p \in Exists(s) /\ Content(i, s, p) = made[i][p]
            /\ made[i][p] = Absent => p \notin Exists(s)
      BY <1>2, <1>4, <2>2, RestoredContent, FilesAssumption DEF Exists, CheckpointAssumption
    <3>2. QED
      BY <2>1, <3>1
  <2> HIDE DEF dir, s
  <2>4. QED
    BY <1>1, <1>3, <2>3 DEF CopiesAreFaithful, OwnCopy
<1>5. i \in reused => CopiesAreFaithful'
  BY <1>1, <1>3 DEF CopiesAreFaithful
<1>6. QED
  BY <1>1, <1>4, <1>5, SameCopies DEF CopiesInv, CopyTypes

\* A checkpoint that is made, and the list it is put into.
LEMMA CreateCopies == ASSUME CopiesInv, NEW ps \in FileSets, Create(ps) PROVE CopiesInv'
<1>1. PICK s \in Read(ps), ds \in [Names -> Contents \cup {Absent}] :
        LET all == Append(checkpoints, [id |-> clock, files |-> Exists(s)])
            full == Len(all) > MaxHistory
            keep == IF full THEN Tail(all) ELSE all
        IN /\ ds \in Copies(disk[clock], s)
           /\ disk' = [disk EXCEPT ![clock] = ds]
           /\ checkpoints' = keep /\ index' = keep
           /\ snapshots' = LET new == [snapshots EXCEPT ![clock] = s]
                           IN IF full THEN [new EXCEPT ![Head(all).id] = NoFiles] ELSE new
           /\ made' = [made EXCEPT ![clock] = s]
  BY DEF Create
<1> DEFINE new == [id |-> clock, files |-> Exists(s)]
           all == Append(checkpoints, new)
           full == Len(all) > MaxHistory
           keep == IF full THEN Tail(all) ELSE all
<1>2. /\ UNCHANGED <<clock, tree>> /\ clock \in Id /\ copied' = NothingCopied
      /\ reused' = IF made[clock] = NoFiles THEN reused ELSE reused \cup {clock}
  BY DEF Create, CopiesInv, CopyTypes
<1>3. /\ DOMAIN s = ps /\ ps # {} /\ ps \subseteq Paths /\ WasRead(s) /\ s # NoFiles
  <2>1. s \in [ps -> Contents \cup {Absent, Unread}] /\ ps # {} /\ ps \subseteq Paths
    BY DEF Read, FileSets
  <2>2. DOMAIN NoFiles = {}
    BY DEF NoFiles
  <2>3. QED
    BY <2>1, <2>2 DEF WasRead
<1>4. /\ all \in Seq(Entry) /\ Len(all) = Len(checkpoints) + 1 /\ Len(checkpoints) \in Nat
      /\ \A k \in DOMAIN all : IF k \in DOMAIN checkpoints THEN all[k] = checkpoints[k] ELSE all[k] = new
  <2>1. new \in Entry
    BY <1>2, <1>3 DEF Entry, Exists
  <2>2. checkpoints \in Seq(Entry)
    BY DEF CopiesInv, CopyTypes
  <2> HIDE DEF new
  <2>3. QED
    BY <2>1, <2>2
<1> HIDE DEF all
<1>5. /\ keep \in Seq(Entry)
      /\ \A k \in DOMAIN keep : \E l \in DOMAIN all : keep[k] = all[l]
  <2>1. all # << >>
    BY <1>4
  <2>2. Tail(all) \in Seq(Entry) /\ \A k \in DOMAIN Tail(all) : k + 1 \in DOMAIN all /\ Tail(all)[k] = all[k + 1]
    BY <1>4, <2>1
  <2>3. QED
    BY <1>4, <2>2
<1>6. /\ disk' = [disk EXCEPT ![clock] = ds] /\ ds \in Copies(disk[clock], s)
      /\ made' = [made EXCEPT ![clock] = s] /\ checkpoints' = keep /\ index' = keep
      /\ snapshots' = IF full THEN [[snapshots EXCEPT ![clock] = s] EXCEPT ![Head(all).id] = NoFiles]
                      ELSE [snapshots EXCEPT ![clock] = s]
  BY <1>1 DEF all
<1> HIDE DEF keep, full
<1>7. CopyTypes'
  BY <1>2, <1>3, <1>5, <1>6 DEF CopiesInv, CopyTypes
<1>8. \A i \in Id : made'[i] = IF i = clock THEN s ELSE made[i]
  BY <1>6 DEF CopiesInv, CopyTypes
<1>9. \A i \in Id : snapshots'[i] \in {NoFiles, made'[i]}
  <2>1. \A i \in Id : [snapshots EXCEPT ![clock] = s][i] \in {NoFiles, made'[i]}
    BY <1>2, <1>8 DEF CopiesInv, CopyTypes
  <2>2. QED
    BY <1>6, <2>1 DEF CopiesInv, CopyTypes
<1>10. ListsWhatWasRead(checkpoints)' /\ ListsWhatWasRead(index)'
  <2>1. ASSUME NEW l \in DOMAIN all
        PROVE  /\ all[l].id \in Id /\ made'[all[l].id] # NoFiles
               /\ all[l].id \notin reused' => all[l].files = Exists(made'[all[l].id])
    <3>1. CASE l \in DOMAIN checkpoints
      <4>1. all[l] = checkpoints[l] /\ checkpoints[l] \in Entry
        BY <1>4, <3>1 DEF CopiesInv, CopyTypes
      <4>2. CASE checkpoints[l].id = clock
        BY <1>2, <1>3, <1>8, <3>1, <4>1, <4>2 DEF CopiesInv, ListsWhatWasRead
      <4>3. CASE checkpoints[l].id # clock
        BY <1>2, <1>8, <3>1, <4>1, <4>3 DEF CopiesInv, ListsWhatWasRead, Entry
      <4>4. QED
        BY <4>2, <4>3
    <3>2. CASE l \notin DOMAIN checkpoints
      <4>1. all[l].id = clock /\ all[l].files = Exists(s)
        BY <1>4, <3>2
      <4>2. QED
        BY <1>2, <1>3, <1>8, <4>1
    <3>3. QED
      BY <3>1, <3>2
  <2>2. ASSUME NEW k \in DOMAIN keep
        PROVE  /\ made'[keep[k].id] # NoFiles
               /\ keep[k].id \notin reused' => keep[k].files = Exists(made'[keep[k].id])
    BY <1>5, <2>1
  <2>3. QED
    BY <1>6, <2>2 DEF ListsWhatWasRead
<1>11. \A i \in Id \ reused' : \A p \in Exists(made'[i]) :
          OwnCopy(made'[i], p) => disk'[i][Copy[p]] = made'[i][p]
  <2>1. ASSUME NEW i \in Id \ reused', NEW p \in Exists(made'[i]), OwnCopy(made'[i], p)
        PROVE  disk'[i][Copy[p]] = made'[i][p]
    <3>1. CASE i = clock
      <4>1. p \in Exists(s) /\ OwnCopy(s, p) /\ Copy[p] \in Names /\ disk'[i] = ds /\ made'[i] = s
        BY <1>2, <1>3, <1>6, <1>8, <2>1, <3>1 DEF CopiesInv, CopyTypes, Names, Exists
      <4>2. {q \in Exists(s) : Copy[q] = Copy[p]} = {p}
        BY <4>1 DEF OwnCopy
      <4>3. ds[Copy[p]] = s[p]
        BY <1>6, <4>1, <4>2 DEF Copies
      <4>4. QED
        BY <4>1, <4>3
    <3>2. CASE i # clock
      BY <1>2, <1>6, <1>8, <2>1, <3>2 DEF CopiesInv, CopyTypes
    <3>3. QED
      BY <3>1, <3>2
  <2>2. QED
    BY <2>1
<1>12. CopiesAreFaithful'
  BY <1>2 DEF CopiesAreFaithful, NothingCopied
<1>13. QED
  BY <1>6, <1>7, <1>9, <1>10, <1>11, <1>12 DEF CopiesInv

LEMMA NextCopies == CopiesInv /\ Next => CopiesInv'
<1>1. SUFFICES ASSUME CopiesInv, Next PROVE CopiesInv'
  OBVIOUS
<1>2. CASE Tick
  <2>1. clock' \in Id
    BY <1>1, <1>2, FilesAssumption DEF CheckpointAssumption, Tick, CopiesInv, CopyTypes, Id
  <2>2. QED
    BY <1>1, <1>2, <2>1, SameCopies DEF Tick, CopiesInv, CopiesAreFaithful
<1>3. CASE Restart
  <2>1. /\ snapshots' = [i \in Id |-> NoFiles] /\ checkpoints' = << >> /\ copied' = NothingCopied
        /\ UNCHANGED <<clock, disk, index, made, reused>>
    BY <1>3 DEF Restart
  <2>2. CopyTypes'
    BY <1>1, <2>1 DEF CopiesInv, CopyTypes
  <2>3. CopiesAreFaithful'
    BY <2>1 DEF CopiesAreFaithful, NothingCopied
  <2>4. QED
    BY <1>1, <2>1, <2>2, <2>3 DEF CopiesInv, ListsWhatWasRead
<1>4. ASSUME NEW p \in Paths, Edit(p) PROVE CopiesInv'
  <2>1. CopiesAreFaithful'
    BY <1>4 DEF Edit, CopiesAreFaithful, NothingCopied
  <2>2. QED
    BY <1>1, <1>4, <2>1, SameCopies DEF Edit, CopiesInv, CopyTypes
<1>5. QED
  BY <1>1, <1>2, <1>3, <1>4, CreateCopies, RewindCopies, ForkCopies DEF Next

LEMMA CopiesHold == WorkspaceSpec => []CopiesInv
<1>1. WorkspaceInit => CopiesInv
  BY InitCopies DEF WorkspaceInit
<1>2. CopiesInv /\ UNCHANGED <<clock, checkpoints, snapshots, disk, index, made, reused, copied>>
        => CopiesInv'
  BY SameCopies DEF CopiesInv, CopyTypes, CopiesAreFaithful
<1>3. CopiesInv /\ [WorkspaceNext]_<<part, histories, dVars, rVars, hVars, wVars, mVars, bVars, cVars>>
        => CopiesInv'
  BY <1>2, NextCopies DEF WorkspaceNext, histories, vars
<1>4. QED
  BY <1>1, <1>3, PTL DEF WorkspaceSpec

\* What a rewind or a fork that succeeds gives back is what the checkpoint was
\* made of, for any files, contents, names of copies and length of the history
\* (checkpoint.go's Create, Rewind, Fork and loadSnapshots).
THEOREM RewindGivesBack == WorkspaceSpec => []CopiesAreFaithful
<1>1. CopiesInv => CopiesAreFaithful
  BY DEF CopiesInv
<1>2. QED
  BY <1>1, CopiesHold, PTL

-----------------------------------------------------------------------------
(* Undo.                                                                    *)

In(p, action) == p \in DOMAIN action
Recorded(p) == \E i \in DOMAIN history : In(p, history[i])

UndoTypes ==
    /\ tree \in Trees /\ base \in Trees
    /\ history \in Seq(U!Actions) /\ redoBuf \in Seq(U!Actions)
    /\ open # {} => history # << >> /\ open \subseteq DOMAIN history[Len(history)]

\* The first record of a file, in the history or among what was undone, holds
\* what it held at the start; a file without one in the history holds it still.
FirstRecords ==
    /\ \A j \in DOMAIN history : \A p \in DOMAIN history[j] :
          (\A i \in 1..(j - 1) : ~In(p, history[i])) => history[j][p] = base[p]
    /\ \A j \in DOMAIN redoBuf : \A p \in DOMAIN redoBuf[j] :
          ~Recorded(p) /\ (\A i \in DOMAIN redoBuf : i > j => ~In(p, redoBuf[i]))
             => redoBuf[j][p] = base[p]
    /\ \A p \in Paths : ~Recorded(p) => tree[p] = base[p]

UndoInv == UndoTypes /\ (faithful => FirstRecords)

\* What a sequence of records is when one is put behind it, or its last is taken.
LEMMA Behind ==
    ASSUME NEW S, NEW seq \in Seq(S), NEW x \in S
    PROVE  LET new == Append(seq, x)
           IN /\ new \in Seq(S) /\ new # << >> /\ Len(new) = Len(seq) + 1 /\ DOMAIN new = 1..(Len(seq) + 1)
              /\ new[Len(seq) + 1] = x /\ \A i \in 1..Len(seq) : new[i] = seq[i]
              /\ DOMAIN seq = 1..Len(seq) /\ Len(seq) \in Nat
OBVIOUS

LEMMA WithoutFirst ==
    ASSUME NEW S, NEW seq \in Seq(S), seq # << >>
    PROVE  /\ Tail(seq) \in Seq(S) /\ Len(Tail(seq)) = Len(seq) - 1 /\ Len(seq) \in Nat \ {0}
           /\ DOMAIN Tail(seq) = 1..(Len(seq) - 1)
           /\ \A i \in 1..(Len(seq) - 1) : Tail(seq)[i] = seq[i + 1]
OBVIOUS

LEMMA WithoutLast ==
    ASSUME NEW S, NEW seq \in Seq(S), seq # << >>
    PROVE  /\ U!Front(seq) \in Seq(S) /\ Len(U!Front(seq)) = Len(seq) - 1 /\ Len(seq) \in Nat \ {0}
           /\ DOMAIN U!Front(seq) = 1..(Len(seq) - 1) /\ DOMAIN seq = 1..Len(seq)
           /\ \A i \in 1..(Len(seq) - 1) : U!Front(seq)[i] = seq[i]
           /\ U!Last(seq) = seq[Len(seq)] /\ U!Last(seq) \in S
<1>1. Len(seq) \in Nat \ {0} /\ DOMAIN seq = 1..Len(seq) /\ seq[Len(seq)] \in S
  OBVIOUS
<1>2. U!Front(seq) = [i \in 1..(Len(seq) - 1) |-> seq[i]]
  BY <1>1 DEF U!Front
<1>3. U!Front(seq) \in Seq(S)
  BY <1>1, <1>2
<1>4. Len(U!Front(seq)) = Len(seq) - 1
  BY <1>1, <1>2
<1>5. QED
  BY <1>1, <1>2, <1>3, <1>4 DEF U!Last

LEMMA ActionType ==
    ASSUME NEW action \in U!Actions
    PROVE  DOMAIN action \subseteq Paths /\ \A p \in DOMAIN action : action[p] \in Contents \cup {Absent}
BY DEF U!Actions, U!FileSets

LEMMA OverType ==
    ASSUME NEW action \in U!Actions, NEW f \in Trees
    PROVE  /\ U!Over(action, f) \in Trees
           /\ \A p \in Paths : U!Over(action, f)[p] = IF In(p, action) THEN action[p] ELSE f[p]
BY ActionType DEF U!Over, Trees, In

LEMMA BeforeChangeInv == ASSUME UndoInv, NEW ps \in U!FileSets, U!BeforeChange(ps) PROVE UndoInv'
<1>1. PICK unread \in SUBSET {p \in ps : tree[p] # Absent} :
        LET action == [p \in ps |-> IF p \in unread THEN Absent ELSE tree[p]]
            all == Append(history, action)
        IN /\ history' = IF Len(all) > HistoryMax THEN Tail(all) ELSE all
           /\ faithful' = (faithful /\ unread = {} /\ Len(all) <= HistoryMax)
  BY DEF U!BeforeChange
<1> DEFINE action == [p \in ps |-> IF p \in unread THEN Absent ELSE tree[p]]
           all == Append(history, action)
<1>2. /\ redoBuf' = << >> /\ open' = ps /\ UNCHANGED <<tree, base>>
      /\ ps # {} /\ ps \subseteq Paths /\ tree \in Trees /\ history \in Seq(U!Actions)
      /\ HistoryMax \in Nat \ {0}
  BY FilesAssumption DEF U!BeforeChange, U!FileSets, UndoInv, UndoTypes, U!UndoAssumption
<1>3. /\ DOMAIN action = ps /\ action \in U!Actions
      /\ unread = {} => \A p \in ps : action[p] = tree[p]
  <2>1. action \in [ps -> Contents \cup {Absent}]
    BY <1>2 DEF Trees
  <2>2. QED
    BY <2>1 DEF U!Actions
<1> HIDE DEF action
<1>4. /\ all \in Seq(U!Actions) /\ Len(all) = Len(history) + 1 /\ DOMAIN all = 1..(Len(history) + 1)
      /\ all[Len(history) + 1] = action /\ \A i \in 1..Len(history) : all[i] = history[i]
      /\ DOMAIN history = 1..Len(history) /\ Len(history) \in Nat /\ all # << >>
  BY <1>2, <1>3, Behind
<1>5. /\ history' = IF Len(all) > HistoryMax THEN Tail(all) ELSE all
      /\ faithful' = (faithful /\ unread = {} /\ Len(all) <= HistoryMax)
  BY <1>1 DEF action
<1> HIDE DEF all
<1>6. UndoTypes'
  <2>1. CASE Len(all) > HistoryMax
    <3>1. /\ Tail(all) \in Seq(U!Actions) /\ Tail(all) # << >> /\ Len(Tail(all)) = Len(history)
          /\ Tail(all)[Len(history)] = action
      <4>1. Len(history) \in Nat \ {0} /\ Len(all) = Len(history) + 1
        BY <1>2, <1>4, <2>1
      <4>2. /\ Tail(all) \in Seq(U!Actions) /\ Len(Tail(all)) = Len(history)
            /\ Tail(all)[Len(history)] = all[Len(history) + 1]
        BY <1>4, <4>1, WithoutFirst
      <4>3. Tail(all) # << >>
        BY <4>1, <4>2
      <4>4. QED
        BY <1>4, <4>2, <4>3
    <3>2. QED
      BY <1>2, <1>3, <1>5, <2>1, <3>1 DEF UndoInv, UndoTypes
  <2>2. CASE ~(Len(all) > HistoryMax)
    BY <1>2, <1>3, <1>4, <1>5, <2>2 DEF UndoInv, UndoTypes
  <2>3. QED
    BY <2>1, <2>2
<1>7. ASSUME faithful' PROVE FirstRecords'
  <2>1. /\ faithful /\ unread = {} /\ history' = all
    <3>1. faithful /\ unread = {} /\ Len(all) <= HistoryMax
      BY <1>5, <1>7, Zenon
    <3>2. ~(Len(all) > HistoryMax)
      BY <1>2, <1>4, <3>1
    <3>3. QED
      BY <1>5, <3>1, <3>2, Zenon
  <2>2. \A p \in Paths : Recorded(p)' <=> Recorded(p) \/ p \in ps
    BY <1>3, <1>4, <2>1 DEF Recorded, In
  <2>3. ASSUME NEW j \in DOMAIN all, NEW p \in DOMAIN all[j], \A i \in 1..(j - 1) : ~In(p, all[i])
        PROVE  all[j][p] = base[p]
    <3>1. CASE j \in DOMAIN history
      BY <1>4, <2>1, <2>3, <3>1 DEF UndoInv, FirstRecords
    <3>2. CASE j = Len(history) + 1
      <4>1. all[j] = action /\ p \in ps /\ action[p] = tree[p] /\ p \in Paths
        BY <1>2, <1>3, <1>4, <2>1, <3>2
      <4>2. ~Recorded(p)
        BY <1>4, <2>3, <3>2 DEF Recorded
      <4>3. QED
        BY <2>1, <4>1, <4>2 DEF UndoInv, FirstRecords
    <3>3. QED
      BY <1>4, <3>1, <3>2
  <2>4. \A p \in Paths : ~Recorded(p)' => tree[p] = base[p]
    BY <2>1, <2>2 DEF UndoInv, FirstRecords
  <2>5. QED
    BY <1>2, <2>1, <2>3, <2>4 DEF FirstRecords
<1>8. QED
  BY <1>6, <1>7 DEF UndoInv

\* A file that is written has its record in the history.
LEMMA WriteInv == ASSUME UndoInv, NEW p \in Paths, U!Write(p) PROVE UndoInv'
<1>1. /\ UNCHANGED <<history, redoBuf, open, base, faithful>> /\ p \in open
      /\ \E c \in Contents \cup {Absent} : tree' = [tree EXCEPT ![p] = c]
  BY DEF U!Write
<1>2. UndoTypes'
  BY <1>1 DEF UndoInv, UndoTypes, Trees
<1>3. Recorded(p)
  <2>1. history # << >> /\ In(p, history[Len(history)]) /\ history \in Seq(U!Actions)
    BY <1>1 DEF UndoInv, UndoTypes, In
  <2>2. Len(history) \in DOMAIN history
    BY <2>1
  <2>3. QED
    BY <2>1, <2>2 DEF Recorded
<1>4. \A q \in Paths : q # p => tree'[q] = tree[q]
  BY <1>1 DEF UndoInv, UndoTypes, Trees
<1>5. faithful => FirstRecords'
  BY <1>1, <1>3, <1>4 DEF UndoInv, FirstRecords, Recorded
<1>6. QED
  BY <1>1, <1>2, <1>5 DEF UndoInv

\* The record that is undone is the first of those files that no other in the
\* history holds.
LEMMA UndoneInv == ASSUME UndoInv, U!Undo PROVE UndoInv'
<1> DEFINE action == U!Last(history)
           rest == U!Front(history)
           all == Append(redoBuf, action)
<1>1. /\ history # << >> /\ history' = rest /\ redoBuf' = all /\ open' = {}
      /\ tree' = U!Over(action, tree) /\ UNCHANGED <<base, faithful>>
  BY DEF U!Undo
<1>2. history \in Seq(U!Actions) /\ redoBuf \in Seq(U!Actions) /\ tree \in Trees
  BY DEF UndoInv, UndoTypes
<1>3. /\ rest \in Seq(U!Actions) /\ Len(history) \in Nat \ {0} /\ DOMAIN rest = 1..(Len(history) - 1)
      /\ DOMAIN history = 1..Len(history) /\ \A i \in 1..(Len(history) - 1) : rest[i] = history[i]
      /\ action = history[Len(history)] /\ action \in U!Actions
  BY <1>1, <1>2, WithoutLast
<1> HIDE DEF action, rest
<1>4. /\ all \in Seq(U!Actions) /\ DOMAIN all = 1..(Len(redoBuf) + 1) /\ all[Len(redoBuf) + 1] = action
      /\ \A i \in 1..Len(redoBuf) : all[i] = redoBuf[i]
      /\ DOMAIN redoBuf = 1..Len(redoBuf) /\ Len(redoBuf) \in Nat
  BY <1>2, <1>3, Behind
<1>5. /\ tree' \in Trees /\ DOMAIN action \subseteq Paths
      /\ \A p \in Paths : tree'[p] = IF In(p, action) THEN action[p] ELSE tree[p]
  BY <1>1, <1>2, <1>3, OverType, ActionType
<1> HIDE DEF all
<1>6. UndoTypes'
  BY <1>1, <1>3, <1>4, <1>5 DEF UndoInv, UndoTypes
<1>7. ASSUME faithful PROVE FirstRecords'
  <2>1. FirstRecords
    BY <1>7 DEF UndoInv
  <2>2. \A p : Recorded(p) <=> Recorded(p)' \/ In(p, action)
    BY <1>1, <1>3 DEF Recorded
  <2>3. ASSUME NEW j \in DOMAIN rest, NEW p \in DOMAIN rest[j], \A i \in 1..(j - 1) : ~In(p, rest[i])
        PROVE  rest[j][p] = base[p]
    BY <1>3, <2>1, <2>3 DEF FirstRecords
  <2>4. ASSUME NEW p \in DOMAIN action, ~Recorded(p)' PROVE action[p] = base[p]
    <3>1. \A i \in 1..(Len(history) - 1) : ~In(p, history[i])
      BY <1>1, <1>3, <2>4 DEF Recorded
    <3>2. QED
      BY <1>3, <2>1, <3>1 DEF FirstRecords
  <2>5. ASSUME NEW j \in DOMAIN all, NEW p \in DOMAIN all[j], ~Recorded(p)',
               \A i \in DOMAIN all : i > j => ~In(p, all[i])
        PROVE  all[j][p] = base[p]
    <3>1. CASE j = Len(redoBuf) + 1
      BY <1>4, <2>4, <2>5, <3>1
    <3>2. CASE j \in DOMAIN redoBuf
      <4>1. ~In(p, action) /\ \A i \in DOMAIN redoBuf : i > j => ~In(p, redoBuf[i])
        BY <1>4, <2>5, <3>2
      <4>2. QED
        BY <1>4, <2>1, <2>2, <2>5, <3>2, <4>1 DEF FirstRecords
    <3>3. QED
      BY <1>4, <3>1, <3>2
  <2>6. ASSUME NEW p \in Paths, ~Recorded(p)' PROVE tree'[p] = base[p]
    BY <1>5, <2>1, <2>2, <2>4, <2>6 DEF FirstRecords, In
  <2>7. QED
    BY <1>1, <2>3, <2>5, <2>6 DEF FirstRecords
<1>8. QED
  BY <1>1, <1>6, <1>7 DEF UndoInv

LEMMA UndoFailsInv == ASSUME UndoInv, U!UndoFails PROVE UndoInv'
<1>1. /\ history # << >> /\ history' = U!Front(history) /\ open' = {} /\ ~faithful'
      /\ UNCHANGED <<redoBuf, base>>
  BY DEF U!UndoFails
<1>2. history \in Seq(U!Actions) /\ tree \in Trees /\ Empty \in Contents
  BY FilesAssumption DEF UndoInv, UndoTypes, CheckpointAssumption
<1>3. history' \in Seq(U!Actions) /\ U!Last(history) \in U!Actions
  BY <1>1, <1>2, WithoutLast
<1>4. tree' \in Trees
  <2> DEFINE action == U!Last(history)
             old == {p \in DOMAIN action : action[p] # Absent}
  <2>1. PICK f \in old, before \in SUBSET old, cut \in BOOLEAN :
          tree' = [U!Over([p \in before |-> action[p]], tree) EXCEPT ![f] = IF cut THEN Empty ELSE @]
    BY DEF U!UndoFails
  <2>2. U!Over([p \in before |-> action[p]], tree) \in Trees
    BY <1>2, <1>3, ActionType DEF U!Over, Trees
  <2> HIDE DEF action
  <2>3. QED
    BY <1>2, <2>1, <2>2 DEF Trees
<1>5. QED
  BY <1>1, <1>3, <1>4 DEF UndoInv, UndoTypes

\* A record that is put back was the first of the files that none holds.
LEMMA RedoInv == ASSUME UndoInv, U!Redo PROVE UndoInv'
<1> DEFINE action == U!Last(redoBuf)
           rest == U!Front(redoBuf)
           all == Append(history, action)
<1>1. /\ redoBuf # << >> /\ redoBuf' = rest /\ history' = all /\ open' = {}
      /\ UNCHANGED <<tree, base, faithful>>
  BY DEF U!Redo
<1>2. history \in Seq(U!Actions) /\ redoBuf \in Seq(U!Actions)
  BY DEF UndoInv, UndoTypes
<1>3. /\ rest \in Seq(U!Actions) /\ Len(redoBuf) \in Nat \ {0} /\ DOMAIN rest = 1..(Len(redoBuf) - 1)
      /\ DOMAIN redoBuf = 1..Len(redoBuf) /\ \A i \in 1..(Len(redoBuf) - 1) : rest[i] = redoBuf[i]
      /\ action = redoBuf[Len(redoBuf)] /\ action \in U!Actions
  BY <1>1, <1>2, WithoutLast
<1> HIDE DEF action, rest
<1>4. /\ all \in Seq(U!Actions) /\ DOMAIN all = 1..(Len(history) + 1) /\ all[Len(history) + 1] = action
      /\ \A i \in 1..Len(history) : all[i] = history[i]
      /\ DOMAIN history = 1..Len(history) /\ Len(history) \in Nat
  BY <1>2, <1>3, Behind
<1> HIDE DEF all
<1>5. UndoTypes'
  BY <1>1, <1>3, <1>4 DEF UndoInv, UndoTypes
<1>6. ASSUME faithful PROVE FirstRecords'
  <2>1. FirstRecords
    BY <1>6 DEF UndoInv
  <2>2. \A p : Recorded(p)' <=> Recorded(p) \/ In(p, action)
    BY <1>1, <1>4 DEF Recorded
  <2>3. ASSUME NEW j \in DOMAIN all, NEW p \in DOMAIN all[j], \A i \in 1..(j - 1) : ~In(p, all[i])
        PROVE  all[j][p] = base[p]
    <3>1. CASE j \in DOMAIN history
      BY <1>4, <2>1, <2>3, <3>1 DEF FirstRecords
    <3>2. CASE j = Len(history) + 1
      <4>1. ~Recorded(p) /\ p \in DOMAIN redoBuf[Len(redoBuf)] /\ all[j] = redoBuf[Len(redoBuf)]
        BY <1>3, <1>4, <2>3, <3>2 DEF Recorded
      <4>2. \A i \in DOMAIN redoBuf : ~(i > Len(redoBuf))
        BY <1>3
      <4>3. QED
        BY <1>3, <2>1, <4>1, <4>2 DEF FirstRecords
    <3>3. QED
      BY <1>4, <3>1, <3>2
  <2>4. ASSUME NEW j \in DOMAIN rest, NEW p \in DOMAIN rest[j], ~Recorded(p)',
               \A i \in DOMAIN rest : i > j => ~In(p, rest[i])
        PROVE  rest[j][p] = base[p]
    <3>1. ~In(p, action) /\ ~Recorded(p)
      BY <2>2, <2>4
    <3>2. ASSUME NEW i \in DOMAIN redoBuf, i > j PROVE ~In(p, redoBuf[i])
      BY <1>3, <2>4, <3>1, <3>2
    <3>3. rest[j] = redoBuf[j] /\ j \in DOMAIN redoBuf
      BY <1>3
    <3>4. QED
      BY <2>1, <3>1, <3>2, <3>3 DEF FirstRecords
  <2>5. ASSUME NEW p \in Paths, ~Recorded(p)' PROVE tree[p] = base[p]
    BY <2>1, <2>2, <2>5 DEF FirstRecords
  <2>6. QED
    BY <1>1, <2>3, <2>4, <2>5 DEF FirstRecords
<1>7. QED
  BY <1>1, <1>5, <1>6 DEF UndoInv

\* What undoing the last n actions gives, without recursion: a file holds what
\* the oldest of them recorded of it.
Undoes(n, p) == {d \in 1..n : In(p, history[Len(history) + 1 - d])}
Oldest(n, p) == CHOOSE d \in Undoes(n, p) : \A e \in Undoes(n, p) : e <= d
Rolled == [n \in Nat |-> [p \in Paths |->
             IF Undoes(n, p) = {} THEN tree[p] ELSE history[Len(history) + 1 - Oldest(n, p)][p]]]

LEMMA RolledIsUnrolled ==
    ASSUME tree \in Trees, Len(history) \in Nat
    PROVE  /\ Rolled[0] = tree
           /\ \A n \in Nat : Rolled[n + 1] = U!Over(history[Len(history) + 1 - (n + 1)], Rolled[n])
<1>1. Rolled[0] = tree
  <2>1. \A p : Undoes(0, p) = {}
    BY DEF Undoes
  <2>2. QED
    BY <2>1 DEF Rolled, Trees
<1>2. ASSUME NEW n \in Nat
      PROVE  Rolled[n + 1] = U!Over(history[Len(history) + 1 - (n + 1)], Rolled[n])
  <2> DEFINE action == history[Len(history) + 1 - (n + 1)]
  <2>1. ASSUME NEW p \in Paths
        PROVE  Rolled[n + 1][p] = IF In(p, action) THEN action[p] ELSE Rolled[n][p]
    <3>1. Undoes(n + 1, p) = Undoes(n, p) \cup {d \in {n + 1} : In(p, action)}
      BY DEF Undoes
    <3>2. CASE In(p, action)
      <4>1. n + 1 \in Undoes(n + 1, p) /\ \A e \in Undoes(n + 1, p) : e <= n + 1 /\ e \in Nat
        BY <3>1, <3>2 DEF Undoes
      <4>2. Oldest(n + 1, p) = n + 1
        BY <4>1 DEF Oldest
      <4>3. QED
        BY <3>2, <4>1, <4>2 DEF Rolled
    <3>3. CASE ~In(p, action)
      <4>1. Undoes(n + 1, p) = Undoes(n, p)
        BY <3>1, <3>3
      <4>2. QED
        BY <3>3, <4>1 DEF Rolled, Oldest
    <3>4. QED
      BY <3>2, <3>3
  <2> HIDE DEF action
  <2>2. DOMAIN Rolled[n + 1] = Paths /\ Rolled[n + 1] = [p \in Paths |-> Rolled[n + 1][p]]
    <3> DEFINE to(p) == IF Undoes(n + 1, p) = {} THEN tree[p]
                        ELSE history[Len(history) + 1 - Oldest(n + 1, p)][p]
    <3>1. Rolled[n + 1] = [p \in Paths |-> to(p)]
      BY DEF Rolled
    <3> HIDE DEF to
    <3>2. QED
      BY <3>1
  <2>3. Rolled[n + 1] = U!Over(action, Rolled[n])
    BY <2>1, <2>2 DEF U!Over, In
  <2>4. QED
    BY <2>3 DEF action
<1>3. QED
  BY <1>1, <1>2

\* The recursive definition has this solution, and it is its only one.
LEMMA UnrolledIs ==
    ASSUME tree \in Trees, Len(history) \in Nat
    PROVE  \A n \in Nat : U!Unrolled[n] = Rolled[n]
<1> DEFINE Rec(f) == [n \in Nat |-> IF n = 0 THEN tree
                                  ELSE U!Over(history[Len(history) + 1 - n], f[n - 1])]
<1>1. U!Unrolled = CHOOSE f : f = Rec(f)
  BY Zenon DEF U!Unrolled
<1>2. Rolled = Rec(Rolled)
  <2>1. ASSUME NEW n \in Nat PROVE Rolled[n] = Rec(Rolled)[n]
    <3>1. CASE n = 0
      BY <3>1, RolledIsUnrolled
    <3>2. CASE n # 0
      <4>1. n - 1 \in Nat /\ (n - 1) + 1 = n
        BY <3>2
      <4>2. QED
        BY <3>2, <4>1, RolledIsUnrolled
    <3>3. QED
      BY <3>1, <3>2
  <2>2. Rolled = [n \in Nat |-> Rolled[n]]
    BY DEF Rolled
  <2>3. QED
    BY <2>1, <2>2
<1> DEFINE Solves(f) == f = Rec(f)
<1>3. U!Unrolled = CHOOSE f : Solves(f)
  BY <1>1
<1>4. Solves(Rolled)
  BY <1>2
<1> HIDE DEF Solves
<1>5. Solves(U!Unrolled)
  BY <1>3, <1>4
<1> USE DEF Solves
<1>6. U!Unrolled = Rec(U!Unrolled)
  BY <1>5
<1> HIDE DEF Solves
<1> DEFINE wrong == {n \in Nat : U!Unrolled[n] # Rolled[n]}
<1>7. SUFFICES ASSUME wrong # {} PROVE FALSE
  OBVIOUS
<1>8. PICK n \in wrong : \A m \in wrong : n <= m
  <2>1. wrong \in SUBSET Nat
    OBVIOUS
  <2> HIDE DEF wrong
  <2>2. QED
    BY <1>7, <2>1, Least
<1>9. CASE n = 0
  BY <1>6, <1>9, RolledIsUnrolled
<1>10. CASE n # 0
  <2>1. n - 1 \in Nat /\ (n - 1) + 1 = n /\ ~(n <= n - 1) /\ n \in Nat
    BY <1>10
  <2>2. U!Unrolled[n - 1] = Rolled[n - 1]
    BY <1>8, <2>1
  <2>3. U!Unrolled[n] = U!Over(history[Len(history) + 1 - n], U!Unrolled[n - 1])
    BY <1>6, <1>10, <2>1
  <2>4. QED
    BY <2>1, <2>2, <2>3, RolledIsUnrolled
<1>11. QED
  BY <1>9, <1>10

LEMMA UnrollsToBase == ASSUME UndoTypes, FirstRecords PROVE U!Unrolled[Len(history)] = base
<1> DEFINE n == Len(history)
<1>1. /\ n \in Nat /\ tree \in Trees /\ base \in Trees /\ DOMAIN history = 1..n
      /\ history \in Seq(U!Actions)
  BY DEF UndoTypes
<1> HIDE DEF n
<1>2. ASSUME NEW p \in Paths PROVE Rolled[n][p] = base[p]
  <2>1. Rolled[n][p] = IF Undoes(n, p) = {} THEN tree[p] ELSE history[n + 1 - Oldest(n, p)][p]
    BY <1>1 DEF Rolled, n
  <2>2. CASE Undoes(n, p) = {}
    <3>1. ASSUME NEW i \in DOMAIN history PROVE ~In(p, history[i])
      <4>1. n + 1 - i \in 1..n /\ n + 1 - (n + 1 - i) = i
        BY <1>1
      <4>2. QED
        BY <2>2, <4>1 DEF Undoes, n
    <3>2. QED
      BY <2>1, <2>2, <3>1 DEF FirstRecords, Recorded
  <2>3. CASE Undoes(n, p) # {}
    <3> DEFINE places == {i \in 1..n : In(p, history[i])}
    <3>1. places # {} /\ places \in SUBSET Nat
      <4>1. PICK d \in 1..n : In(p, history[n + 1 - d])
        BY <2>3 DEF Undoes, n
      <4>2. n + 1 - d \in 1..n
        BY <1>1
      <4>3. QED
        BY <1>1, <4>1, <4>2
    <3>2. PICK j \in places : \A i \in places : j <= i
      <4> HIDE DEF places
      <4>1. QED
        BY <3>1, Least
    <3>3. /\ n + 1 - j \in Undoes(n, p)
          /\ \A e \in Undoes(n, p) : e <= n + 1 - j /\ e \in Nat
      <4>1. n + 1 - j \in 1..n /\ n + 1 - (n + 1 - j) = j
        BY <1>1
      <4>2. ASSUME NEW e \in Undoes(n, p) PROVE e <= n + 1 - j /\ e \in Nat
        <5>1. e \in 1..n /\ In(p, history[n + 1 - e]) /\ n + 1 - e \in 1..n
          BY <1>1 DEF Undoes, n
        <5>2. j <= n + 1 - e
          BY <3>2, <5>1
        <5>3. QED
          BY <1>1, <5>1, <5>2
      <4>3. QED
        BY <4>1, <4>2 DEF Undoes, n
    <3>4. Oldest(n, p) = n + 1 - j
      BY <1>1, <3>3 DEF Oldest
    <3>5. n + 1 - Oldest(n, p) = j
      BY <1>1, <3>4
    <3>6. \A i \in 1..(j - 1) : ~In(p, history[i])
      BY <1>1, <3>2
    <3>7. history[j][p] = base[p]
      BY <1>1, <3>6 DEF FirstRecords, In
    <3>8. QED
      BY <2>1, <2>3, <3>5, <3>7
  <2>4. QED
    BY <2>2, <2>3
<1>3. Rolled[n] = base
  BY <1>1, <1>2 DEF Rolled, Trees
<1>4. QED
  BY <1>1, <1>3, UnrolledIs DEF n

LEMMA UndoHolds == WorkspaceSpec => [](part = "undo" => UndoInv)
<1> DEFINE Inv == part = "undo" => UndoInv
<1>1. WorkspaceInit => Inv
  BY DEF WorkspaceInit, U!Init, UndoInv, UndoTypes, FirstRecords, Recorded, Trees, U!Trees
<1>2. Inv /\ [WorkspaceNext]_<<part, histories, dVars, rVars, hVars, wVars, mVars, bVars, cVars>> => Inv'
  <2>1. SUFFICES ASSUME part = "undo", UndoInv,
                        [WorkspaceNext]_<<part, histories, dVars, rVars, hVars, wVars, mVars, bVars, cVars>>
                 PROVE  UndoInv'
    BY DEF WorkspaceNext
  <2>2. CASE U!Next
    BY <2>1, <2>2, BeforeChangeInv, WriteInv, UndoneInv, UndoFailsInv, RedoInv DEF U!Next
  <2>3. CASE UNCHANGED histories
    BY <2>1, <2>3 DEF histories, vars, uVars, UndoInv, UndoTypes, FirstRecords, Recorded
  <2>4. QED
    BY <2>1, <2>2, <2>3 DEF WorkspaceNext
<1>3. QED
  BY <1>1, <1>2, PTL DEF WorkspaceSpec

\* Undoing everything leads back to the files of the start, for any files,
\* contents and length of the history (undoredo.go's BeforeChange, Undo, Redo).
THEOREM UndoingLeadsBack == WorkspaceSpec => []UndoLeadsBack
<1>1. (part = "undo" => UndoInv) => UndoLeadsBack
  BY UnrollsToBase DEF UndoInv, UndoLeadsBack, U!UndoLeadsBack
<1>2. QED
  BY <1>1, UndoHolds, PTL

-----------------------------------------------------------------------------
(* Staged changes.                                                          *)

\* What the first n changes say, as far as nobody else wrote the file.
CarriedOut(n) ==
    \A i \in 1..n :
      (\A j \in 1..n : stagedChanges[j].path = stagedChanges[i].path => j <= i)
        => stagedChanges[i].path \in touched \/ target[stagedChanges[i].path] = stagedChanges[i].new

StageInv ==
    /\ target \in [Targets -> Drafts \cup {None, Torn}]
    /\ stagedChanges \in Seq(D!Change) /\ applying \in 0..(Len(stagedChanges) + 1)
    /\ CarriedOut(applying - 1)

LEMMA ChangeFacts == \A c \in D!Change : c.path \in Targets /\ c.new \in Drafts \cup {None}
BY DEF D!Change

LEMMA StageInit == D!Init => StageInv
BY DEF D!Init, StageInv, CarriedOut

LEMMA CarryInv == ASSUME StageInv, D!Carry PROVE StageInv'
<1> DEFINE c == stagedChanges[applying]
<1>1. /\ Len(stagedChanges) \in Nat /\ applying \in 1..Len(stagedChanges)
      /\ stagedChanges \in Seq(D!Change) /\ c \in D!Change
  BY DEF StageInv, D!Carry, D!Locked
<1>2. CASE D!Failed(c)
  <2>1. target' \in [Targets -> Drafts \cup {None, Torn}]
    BY <1>2 DEF StageInv, D!Failed
  <2>2. applying' = 0 /\ stagedChanges' = stagedChanges
    BY <1>2 DEF D!Failed
  <2>3. QED
    BY <1>1, <2>1, <2>2 DEF StageInv, CarriedOut
<1>3. CASE ~ D!Failed(c)
  <2>1. /\ target' = [target EXCEPT ![c.path] = c.new] /\ applying' = applying + 1
        /\ UNCHANGED <<stagedChanges, touched>>
    BY <1>3 DEF D!Carry
  <2>2. c.path \in Targets /\ c.new \in Drafts \cup {None} /\ target \in [Targets -> Drafts \cup {None, Torn}]
    BY <1>1, ChangeFacts DEF StageInv
  <2>3. CarriedOut(applying - 1)'
    <3> SUFFICES ASSUME NEW i \in 1..applying,
                        \A j \in 1..applying : stagedChanges[j].path = stagedChanges[i].path => j <= i
                 PROVE  stagedChanges[i].path \in touched
                        \/ target'[stagedChanges[i].path] = stagedChanges[i].new
      <4>1. applying' - 1 = applying
        BY <1>1, <2>1
      <4>2. QED
        BY <2>1, <4>1 DEF CarriedOut
    <3>1. CASE i = applying
      BY <2>1, <2>2, <3>1
    <3>2. CASE i # applying
      <4>1. i \in 1..(applying - 1) /\ applying \in 1..applying /\ ~(applying <= i)
        BY <1>1, <3>2
      <4>2. stagedChanges[i].path # c.path
        BY <4>1
      <4>3. \A j \in 1..(applying - 1) : stagedChanges[j].path = stagedChanges[i].path => j <= i
        BY <1>1
      <4>4. stagedChanges[i].path \in touched \/ target[stagedChanges[i].path] = stagedChanges[i].new
        BY <4>1, <4>3 DEF StageInv, CarriedOut
      <4>5. QED
        BY <2>1, <2>2, <4>2, <4>4
    <3>3. QED
      BY <3>1, <3>2
  <2>4. applying' \in 0..(Len(stagedChanges) + 1)
    BY <1>1, <2>1
  <2>5. QED
    BY <1>1, <2>1, <2>2, <2>3, <2>4 DEF StageInv, CarriedOut
<1>4. QED
  BY <1>2, <1>3

LEMMA StageNext == ASSUME StageInv, D!Next PROVE StageInv'
<1>0. /\ Len(stagedChanges) \in Nat /\ applying \in 0..(Len(stagedChanges) + 1)
      /\ stagedChanges \in Seq(D!Change) /\ target \in [Targets -> Drafts \cup {None, Torn}]
  BY DEF StageInv
<1>1. ASSUME NEW c \in D!Change, D!Stage(c) PROVE StageInv'
  <2>1. /\ applying' = 0 /\ target' = target /\ stagedChanges' = Append(stagedChanges, c)
    BY <1>1 DEF D!Stage, D!Locked
  <2>2. stagedChanges' \in Seq(D!Change) /\ Len(stagedChanges') \in Nat
    BY <1>0, <2>1
  <2>3. QED
    BY <1>0, <2>1, <2>2 DEF StageInv, CarriedOut
<1>2. CASE D!Apply
  <2>1. applying' = 1 /\ UNCHANGED <<target, stagedChanges>>
    BY <1>2 DEF D!Apply
  <2>2. QED
    BY <1>0, <2>1 DEF StageInv, CarriedOut
<1>3. CASE D!Applied \/ D!Reject
  <2>1. applying' = 0 /\ stagedChanges' = << >> /\ target' = target
    BY <1>3 DEF D!Applied, D!Reject, D!Locked
  <2>2. << >> \in Seq(D!Change) /\ Len(<< >>) = 0
    OBVIOUS
  <2>3. QED
    BY <1>0, <2>1, <2>2 DEF StageInv, CarriedOut
<1>4. ASSUME NEW p \in Targets, NEW v \in Drafts \cup {None}, D!Outside(p, v) PROVE StageInv'
  <2>1. /\ target' = [target EXCEPT ![p] = v] /\ touched' = touched \cup {p}
        /\ UNCHANGED <<stagedChanges, applying>>
    BY <1>4 DEF D!Outside
  <2>2. CarriedOut(applying - 1)'
    BY <1>0, <2>1 DEF StageInv, CarriedOut
  <2>3. QED
    BY <1>0, <2>1, <2>2 DEF StageInv
<1>5. QED
  BY <1>1, <1>2, <1>3, <1>4, CarryInv DEF D!Next

Settled ==
    \/ last' = "rejected"
    \/ /\ last' = "applied"
       /\ \A i \in DOMAIN stagedChanges :
            (\A j \in DOMAIN stagedChanges : stagedChanges[j].path = stagedChanges[i].path => j <= i)
              => stagedChanges[i].path \in touched \/ target[stagedChanges[i].path] = stagedChanges[i].new

\* The list is emptied by a Reject, or when all of it was carried out.
LEMMA StageSettles == ASSUME StageInv, D!Next, stagedChanges # << >>, stagedChanges' = << >> PROVE Settled
<1>0. /\ Len(stagedChanges) \in Nat /\ applying \in 0..(Len(stagedChanges) + 1)
      /\ stagedChanges \in Seq(D!Change) /\ DOMAIN stagedChanges = 1..Len(stagedChanges)
  BY DEF StageInv
<1>1. ASSUME NEW c \in D!Change, D!Stage(c) PROVE FALSE
  <2>1. stagedChanges' = Append(stagedChanges, c)
    BY <1>1 DEF D!Stage
  <2>2. Len(stagedChanges') = Len(stagedChanges) + 1 /\ Len(stagedChanges') = 0
    BY <1>0, <2>1
  <2>3. QED
    BY <1>0, <2>2
<1>2. CASE D!Applied
  <2>1. applying - 1 = Len(stagedChanges) /\ last' = "applied"
    BY <1>0, <1>2 DEF D!Applied
  <2>2. QED
    BY <1>0, <2>1 DEF Settled, StageInv, CarriedOut
<1>3. CASE D!Reject
  BY <1>3 DEF D!Reject, Settled
<1>4. CASE D!Apply \/ D!Carry \/ \E p \in Targets, v \in Drafts \cup {None} : D!Outside(p, v)
  BY <1>4 DEF D!Apply, D!Carry, D!Failed, D!Outside
<1>5. QED
  BY <1>1, <1>2, <1>3, <1>4 DEF D!Next

-----------------------------------------------------------------------------
(* Git.                                                                     *)

GitTrees == [GitFiles -> Seq(Words) \cup {None}]
GitCommits == [tree : GitTrees, parents : SUBSET Nat]
GitJobs == [path : GitFiles \cup {None}, text : Seq(Words), todo : Seq(GitFiles), asked : SUBSET GitFiles]
Stashes == [base : GitTrees, tree : GitTrees]

CommitTypes ==
    /\ commits \in Seq(GitCommits) /\ \A i \in DOMAIN commits : commits[i].parents \subseteq 1..(i - 1)
    /\ known \subseteq DOMAIN commits
RefTypes ==
    /\ heads \in [Branches -> known \cup {0}] /\ tags \in [Tags -> known \cup {0}]
    /\ remote \in [Branches -> 0..Len(commits)]
    /\ branch \in Branches \cup {None} /\ R!HEAD \in known
GitTypes ==
    /\ files \in GitTrees /\ stageArea \in GitTrees
    /\ CommitTypes /\ RefTypes
    /\ stash \in Seq(Stashes)
    /\ pc \in [GitCallers -> {"idle", "write", "add", "commit"}]
    /\ job \in [GitCallers -> GitJobs] /\ \A c \in GitCallers : pc[c] = "write" => job[c].path \in GitFiles
    /\ disturbed \subseteq GitCallers

\* What git_commit has still to add; what it added is in the index as it is.
ToAdd(c) == IF pc[c] = "commit" THEN {} ELSE IF job[c].todo = << >> THEN GitFiles ELSE R!ToSet(job[c].todo)
Added(c) == \A p \in job[c].asked \ ToAdd(c) : stageArea[p] = files[p]
AddsHold == \A c \in GitCallers : pc[c] \in {"add", "commit"} /\ c \notin disturbed => Added(c)

GitInv == GitTypes /\ AddsHold

\* What leads to a commit: a branch, a tag, a branch of the remote, or being the current one.
IsNamed(n) ==
    /\ n # 0
    /\ \/ n = R!HEAD
       \/ \E b \in Branches : n = heads[b] \/ n = remote[b]
       \/ \E t \in Tags : n = tags[t]
OnName(c) == \E n : IsNamed(n) /\ c \in R!Reach(n)
GoneWith(c) == \E n \in R!GivenUp : n # 0 /\ c \in R!Reach(n)

\* The commits of before are there, and what led to one leads to it still, or something
\* that follows it does, or it was given up by its name.
Grown ==
    /\ Len(commits) <= Len(commits')
    /\ \A c \in DOMAIN commits : /\ c \in DOMAIN commits' /\ commits'[c] = commits[c]
                                 /\ R!Reach(c) \subseteq R!Reach(c)'
NamesStay == \A n : IsNamed(n) => n \in R!GivenUp \/ \E m : IsNamed(m)' /\ n \in R!Reach(m)'
Moves == CommitTypes' /\ RefTypes' /\ Grown /\ NamesStay

LEMMA ReachItself ==
    /\ \A c \in DOMAIN commits : c \in R!Reach(c)
    /\ \A c \in DOMAIN commits' : c \in R!Reach(c)'
BY DEF R!Reach

LEMMA ReachFurther ==
    /\ \A c : \A d \in R!Reach(c) : R!Reach(d) \subseteq R!Reach(c)
    /\ \A c : \A d \in R!Reach(c)' : R!Reach(d)' \subseteq R!Reach(c)'
<1>1. \A c : \A d \in R!Reach(c) : R!Reach(d) \subseteq R!Reach(c)
  BY DEF R!Reach
<1>2. \A c : \A d \in R!Reach(c)' : R!Reach(d)' \subseteq R!Reach(c)'
  BY DEF R!Reach
<1>3. QED
  BY <1>1, <1>2

LEMMA ReachIsCommits == \A c : R!Reach(c) \subseteq DOMAIN commits
BY DEF R!Reach

LEMMA HeadIs ==
    ASSUME GitTypes
    PROVE  /\ R!HEAD \in known /\ R!HEAD \in DOMAIN commits /\ IsNamed(R!HEAD)
           /\ R!HeadTree \in GitTrees /\ R!HeadTree = commits[R!HEAD].tree
           /\ Len(commits) \in Nat /\ DOMAIN commits = 1..Len(commits)
           /\ \A c \in DOMAIN commits : commits[c] \in GitCommits /\ commits[c].tree \in GitTrees
<1>1. Len(commits) \in Nat /\ DOMAIN commits = 1..Len(commits)
  BY DEF GitTypes, CommitTypes
<1>2. \A c \in DOMAIN commits : commits[c] \in GitCommits
  BY DEF GitTypes, CommitTypes
<1>3. \A c \in DOMAIN commits : commits[c].tree \in GitTrees
  BY <1>2 DEF GitCommits
<1>4. R!HEAD \in known /\ R!HEAD \in DOMAIN commits
  BY DEF GitTypes, RefTypes, CommitTypes
<1>5. R!HEAD # 0
  BY <1>1, <1>4
<1>6. QED
  BY <1>1, <1>2, <1>3, <1>4, <1>5 DEF IsNamed, R!HeadTree

\* What a name stands for is a commit.
LEMMA NamedIsCommit == ASSUME GitTypes, NEW n, IsNamed(n) PROVE n \in DOMAIN commits
<1>1. n = R!HEAD \/ n \in known \cup {0} \/ n \in 0..Len(commits)
  BY DEF IsNamed, GitTypes, RefTypes
<1>2. n # 0
  BY DEF IsNamed
<1>3. QED
  BY <1>1, <1>2, HeadIs DEF GitTypes, CommitTypes

LEMMA SameCommits == ASSUME GitTypes, UNCHANGED commits PROVE Grown /\ \A c : R!Reach(c)' = R!Reach(c)
<1>1. \A c : R!Reach(c)' = R!Reach(c)
  BY DEF R!Reach, R!Closed
<1>2. Len(commits) <= Len(commits')
  BY HeadIs
<1>3. QED
  BY <1>1, <1>2 DEF Grown

LEMMA ReachGrows ==
    ASSUME GitTypes, NEW r \in GitCommits, r.parents \subseteq DOMAIN commits, commits' = Append(commits, r),
           NEW m, m = Len(commits) + 1
    PROVE  /\ Grown /\ \A d \in r.parents : d \in R!Reach(m)'
           /\ Len(commits') = m /\ commits'[m] = r
           /\ DOMAIN commits' = DOMAIN commits \cup {m}
           /\ commits' \in Seq(GitCommits)
           /\ \A i \in DOMAIN commits' : commits'[i].parents \subseteq 1..(i - 1)
<1>0. PICK n : n = Len(commits) /\ m = n + 1
  OBVIOUS
<1>1. /\ n \in Nat /\ m = n + 1 /\ DOMAIN commits = 1..n /\ DOMAIN commits' = 1..m
      /\ commits'[m] = r /\ \A i \in 1..n : commits'[i] = commits[i]
  BY <1>0 DEF GitTypes, CommitTypes
<1>2. \A i \in 1..n : commits[i].parents \subseteq 1..(i - 1)
  BY <1>1 DEF GitTypes, CommitTypes
<1>3. \A c : R!Reach(c)' = {d \in 1..m : \A s \in SUBSET (1..m) :
                               c \in s /\ (\A e \in s : commits'[e].parents \subseteq s) => d \in s}
  BY <1>1 DEF R!Reach, R!Closed
<1>4. ASSUME NEW c \in 1..n, NEW d \in R!Reach(c) PROVE d \in R!Reach(c)'
  <2>1. SUFFICES ASSUME NEW s \in SUBSET (1..m), c \in s,
                        \A e \in s : commits'[e].parents \subseteq s
                 PROVE  d \in s
    <3>1. d \in 1..m
      BY <1>1, <1>4 DEF R!Reach
    <3>2. QED
      BY <1>3, <3>1
  <2> DEFINE old == s \cap (1..n)
  <2>2. old \in SUBSET DOMAIN commits /\ c \in old
    BY <1>1, <2>1
  <2>3. ASSUME NEW e \in old PROVE commits[e].parents \subseteq old
    <3>1. commits'[e].parents \subseteq s /\ commits'[e] = commits[e] /\ commits[e].parents \subseteq 1..(e - 1)
          /\ e \in 1..n
      BY <1>1, <1>2, <2>1
    <3>2. 1..(e - 1) \subseteq 1..n
      BY <1>1, <3>1
    <3>3. QED
      BY <3>1, <3>2
  <2>4. d \in old
    BY <2>2, <2>3, <1>4 DEF R!Reach, R!Closed
  <2>5. QED
    BY <2>4
<1>5. ASSUME NEW d \in r.parents PROVE d \in R!Reach(m)'
  <2>1. SUFFICES ASSUME NEW s \in SUBSET (1..m), m \in s,
                        \A e \in s : commits'[e].parents \subseteq s
                 PROVE  d \in s
    <3>1. d \in 1..m
      BY <1>1, <1>5
    <3>2. QED
      BY <1>3, <3>1
  <2>2. QED
    BY <1>1, <1>5, <2>1
<1>6. commits' \in Seq(GitCommits)
  BY DEF GitTypes, CommitTypes
<1>7. \A i \in DOMAIN commits' : commits'[i].parents \subseteq 1..(i - 1)
  <2>1. ASSUME NEW i \in 1..m PROVE commits'[i].parents \subseteq 1..(i - 1)
    <3>1. CASE i \in 1..n
      BY <1>1, <1>2, <3>1
    <3>2. CASE i = m
      <4>1. r.parents \subseteq 1..n /\ m - 1 = n
        BY <1>1
      <4>2. QED
        BY <1>1, <3>2, <4>1
    <3>3. QED
      BY <1>1, <2>1, <3>1, <3>2
  <2>2. QED
    BY <1>1, <2>1
<1>8. Len(commits') = n + 1 /\ n <= n + 1 /\ 1..m = (1..n) \cup {m}
  BY <1>0, <1>1, <1>6
<1>9. Grown
  <2>1. Len(commits) <= Len(commits')
    BY <1>0, <1>8
  <2>2. QED
    BY <1>1, <1>4, <2>1 DEF Grown
<1>10. QED
  BY <1>0, <1>1, <1>5, <1>6, <1>7, <1>8, <1>9

\* A name that stays leads where it led.
LEMMA SameName ==
    ASSUME GitTypes, Grown, NEW n, IsNamed(n), IsNamed(n)'
    PROVE  \E m : IsNamed(m)' /\ n \in R!Reach(m)'
<1>1. n \in DOMAIN commits'
  BY NamedIsCommit DEF Grown
<1>2. n \in R!Reach(n)'
  BY <1>1, ReachItself
<1>3. QED
  BY <1>2

\* The current branch, or the current commit, goes on.
LEMMA AdvanceMoves ==
    ASSUME GitTypes, Grown, CommitTypes', NEW c, R!Advance(c), c \in known', known \subseteq known',
           R!HEAD \in R!Reach(c)'
    PROVE  Moves
<1>1. UNCHANGED <<tags, branch, remote>>
  BY DEF R!Advance
<1>2. R!HEAD' = c
  BY <1>1 DEF R!Advance, R!HEAD, GitTypes, RefTypes
<1>3. heads' \in [Branches -> known' \cup {0}]
  BY DEF R!Advance, GitTypes, RefTypes
<1>4. RefTypes'
  <2>1. tags' \in [Tags -> known' \cup {0}]
    BY <1>1 DEF GitTypes, RefTypes
  <2>2. remote' \in [Branches -> 0..Len(commits')]
    <3>1. 0..Len(commits) \subseteq 0..Len(commits')
      <4>1. Len(commits') \in Nat /\ Len(commits) \in Nat /\ Len(commits) <= Len(commits')
        BY HeadIs DEF Grown, CommitTypes
      <4>2. QED
        BY <4>1
    <3>2. QED
      BY <1>1, <3>1 DEF GitTypes, RefTypes
  <2>3. QED
    BY <1>1, <1>2, <1>3, <2>1, <2>2 DEF GitTypes, RefTypes
<1>5. c # 0
  BY DEF CommitTypes
<1>6. ASSUME NEW n, IsNamed(n), n # R!HEAD PROVE IsNamed(n)'
  <2>1. CASE \E b \in Branches : n = heads[b]
    <3>1. PICK b \in Branches : n = heads[b]
      BY <2>1
    <3>2. heads'[b] = heads[b]
      BY <1>6, <3>1 DEF R!Advance, R!HEAD, GitTypes, RefTypes
    <3>3. QED
      BY <1>6, <3>1, <3>2 DEF IsNamed
  <2>2. CASE ~ \E b \in Branches : n = heads[b]
    BY <1>1, <1>6, <2>2 DEF IsNamed
  <2>3. QED
    BY <2>1, <2>2
<1>7. IsNamed(c)'
  BY <1>2, <1>5 DEF IsNamed
<1>8. NamesStay
  BY <1>6, <1>7, SameName DEF NamesStay
<1>9. QED
  BY <1>4, <1>8 DEF Moves

LEMMA RecordMoves ==
    ASSUME GitTypes, NEW new \in GitTrees, NEW parents \in SUBSET (DOMAIN commits), R!HEAD \in parents,
           NEW here \in SUBSET (DOMAIN commits), known \subseteq here, R!Record(new, parents, here)
    PROVE  Moves
<1>1. PICK r, c : r = [tree |-> new, parents |-> parents] /\ c = Len(commits) + 1
  OBVIOUS
<1>2. r \in GitCommits /\ r.parents = parents
  <2>1. parents \in SUBSET Nat
    BY HeadIs
  <2>2. QED
    BY <1>1, <2>1 DEF GitCommits
<1>3. commits' = Append(commits, r) /\ known' = here \cup {Len(commits')} /\ R!Advance(c)
  BY <1>1 DEF R!Record
<1>4. /\ Grown /\ (\A d \in parents : d \in R!Reach(c)')
      /\ Len(commits') = c /\ DOMAIN commits' = DOMAIN commits \cup {c}
      /\ commits' \in Seq(GitCommits) /\ \A i \in DOMAIN commits' : commits'[i].parents \subseteq 1..(i - 1)
  BY <1>1, <1>2, <1>3, ReachGrows
<1>5. CommitTypes'
  BY <1>3, <1>4 DEF CommitTypes
<1>6. c \in known' /\ known \subseteq known'
  BY <1>3, <1>4
<1>7. QED
  BY <1>3, <1>4, <1>5, <1>6, AdvanceMoves

\* A step that changes files tells those who commit.
LEMMA Disturbing ==
    ASSUME GitTypes, R!Disturb,
           \A c \in GitCallers : pc'[c] \in {"add", "commit"} => pc[c] \in {"add", "commit"}
    PROVE  AddsHold' /\ disturbed' \subseteq GitCallers
BY DEF R!Disturb, R!Committing, AddsHold, GitTypes

LEMMA NoGitJob == R!NoJob \in GitJobs
BY DEF R!NoJob, GitJobs

LEMMA SameGit ==
    ASSUME GitTypes, UNCHANGED R!git
    PROVE  CommitTypes' /\ RefTypes' /\ stash' \in Seq(Stashes) /\ stageArea' \in GitTrees
BY DEF GitTypes, CommitTypes, RefTypes, R!git, R!refs, R!HEAD

\* Steps outside edit_file and git_commit.
LEMMA OtherStep ==
    ASSUME GitInv, CommitTypes', RefTypes', UNCHANGED <<pc, job>>, stash' \in Seq(Stashes),
           files' \in GitTrees, stageArea' \in GitTrees,
           R!Disturb \/ UNCHANGED <<files, stageArea, disturbed>>
    PROVE  GitInv'
<1>1. AddsHold' /\ disturbed' \subseteq GitCallers
  <2>1. CASE R!Disturb
    BY <2>1, Disturbing DEF GitInv
  <2>2. CASE UNCHANGED <<files, stageArea, disturbed>>
    BY <2>2 DEF GitInv, GitTypes, AddsHold, Added, ToAdd
  <2>3. QED
    BY <2>1, <2>2
<1>2. GitTypes'
  BY <1>1 DEF GitInv, GitTypes
<1>3. QED
  BY <1>1, <1>2 DEF GitInv

LEMMA EditFileInv ==
    ASSUME GitInv, NEW c \in GitCallers, NEW p \in GitFiles, NEW old \in Words, NEW new \in Words,
           NEW all \in BOOLEAN, R!EditFile(c, p, old, new, all)
    PROVE  GitInv'
<1> DEFINE places == {i \in DOMAIN files[p] : files[p][i] = old}
           edited == [i \in DOMAIN files[p] |-> IF i \in places THEN new ELSE files[p][i]]
           j == [R!NoJob EXCEPT !.path = p, !.text = edited]
<1>1. /\ files[p] # None /\ pc' = [pc EXCEPT ![c] = "write"] /\ job' = [job EXCEPT ![c] = j]
      /\ UNCHANGED <<files, R!git, disturbed>>
  BY DEF R!EditFile, R!Goto
<1>2. files[p] \in Seq(Words)
  BY <1>1 DEF GitInv, GitTypes, GitTrees
<1>3. edited \in Seq(Words)
  BY <1>2
<1> HIDE DEF edited
<1>4. j \in GitJobs /\ j.path = p
  BY <1>3, NoGitJob DEF GitJobs
<1> HIDE DEF j
<1>5. GitTypes'
  <2>1. CommitTypes' /\ RefTypes' /\ stash' \in Seq(Stashes) /\ stageArea' \in GitTrees
    BY <1>1, SameGit DEF GitInv
  <2>2. QED
    BY <1>1, <1>4, <2>1 DEF GitInv, GitTypes
<1>6. AddsHold'
  <2>1. ASSUME NEW q \in GitCallers, pc'[q] \in {"add", "commit"}
        PROVE  q # c /\ pc'[q] = pc[q] /\ job'[q] = job[q]
    BY <1>1, <2>1 DEF GitInv, GitTypes
  <2>2. UNCHANGED stageArea
    BY <1>1 DEF R!git
  <2>3. QED
    BY <1>1, <2>1, <2>2 DEF AddsHold, GitInv, Added, ToAdd
<1>7. QED
  BY <1>5, <1>6 DEF GitInv

LEMMA WriteEditInv == ASSUME GitInv, NEW c \in GitCallers, R!WriteEdit(c) PROVE GitInv'
<1>1. /\ pc[c] = "write" /\ pc' = [pc EXCEPT ![c] = "idle"] /\ job' = [job EXCEPT ![c] = R!NoJob]
      /\ UNCHANGED R!git /\ R!Disturb
  BY DEF R!WriteEdit, R!Return, R!Goto
<1>2. job[c].text \in Seq(Words) /\ << >> \in Seq(Words) /\ job[c].path \in GitFiles
  BY <1>1 DEF GitInv, GitTypes, GitJobs
<1>3. files' \in GitTrees
  BY <1>2 DEF R!WriteEdit, GitInv, GitTypes, GitTrees
<1>4. AddsHold' /\ disturbed' \subseteq GitCallers
  BY <1>1, Disturbing DEF GitInv, GitTypes
<1>5. CommitTypes' /\ RefTypes' /\ stash' \in Seq(Stashes) /\ stageArea' \in GitTrees
  BY <1>1, SameGit DEF GitInv
<1>6. GitTypes'
  BY <1>1, <1>3, <1>4, <1>5, NoGitJob DEF GitInv, GitTypes
<1>7. QED
  BY <1>4, <1>6 DEF GitInv

LEMMA PutInv ==
    ASSUME GitInv, NEW p \in GitFiles, NEW x \in Seq(Words) \cup {None}, R!Put(p, x)
    PROVE  GitInv'
<1>1. files' = [files EXCEPT ![p] = x] /\ UNCHANGED <<R!git, pc, job>> /\ R!Disturb
  BY DEF R!Put
<1>2. files' \in GitTrees
  BY <1>1 DEF GitInv, GitTypes, GitTrees
<1>3. QED
  BY <1>1, <1>2, SameGit, OtherStep DEF GitInv

LEMMA SwitchPathInv == ASSUME GitInv, NEW ps \in SUBSET GitFiles, R!SwitchPath(ps) PROVE GitInv'
<1>1. /\ files' = [p \in GitFiles |-> IF p \in ps /\ stageArea[p] # None THEN stageArea[p] ELSE files[p]]
      /\ UNCHANGED <<R!git, pc, job>> /\ R!Disturb
  BY DEF R!SwitchPath
<1>2. files' \in GitTrees
  BY <1>1 DEF GitInv, GitTypes, GitTrees
<1>3. QED
  BY <1>1, <1>2, SameGit, OtherStep DEF GitInv

LEMMA GitCommitInv ==
    ASSUME GitInv, NEW c \in GitCallers, NEW ps \in Seq(GitFiles), R!GitCommit(c, ps)
    PROVE  GitInv'
<1> DEFINE some == IF ps = << >> THEN GitFiles ELSE R!ToSet(ps)
           j == [R!NoJob EXCEPT !.todo = ps, !.asked = some]
<1>1. /\ pc' = [pc EXCEPT ![c] = "add"] /\ job' = [job EXCEPT ![c] = j] /\ disturbed' = disturbed \ {c}
      /\ UNCHANGED <<files, R!git>>
  BY DEF R!GitCommit, R!Goto
<1>2. some \in SUBSET GitFiles
  BY DEF R!ToSet
<1> HIDE DEF some
<1>3. j \in GitJobs /\ j.todo = ps /\ j.asked = some
  BY <1>2, NoGitJob DEF GitJobs
<1> HIDE DEF j
<1>4. GitTypes'
  <2>1. CommitTypes' /\ RefTypes' /\ stash' \in Seq(Stashes) /\ stageArea' \in GitTrees
    BY <1>1, SameGit DEF GitInv
  <2>2. QED
    BY <1>1, <1>3, <2>1 DEF GitInv, GitTypes
<1>5. Added(c)'
  <2>1. pc'[c] = "add" /\ job'[c] = j
    BY <1>1 DEF GitInv, GitTypes
  <2>2. ToAdd(c)' = some
    BY <1>3, <2>1 DEF ToAdd, some
  <2>3. QED
    BY <1>3, <2>1, <2>2 DEF Added
<1>6. AddsHold'
  <2>1. ASSUME NEW q \in GitCallers, q # c PROVE pc'[q] = pc[q] /\ job'[q] = job[q]
    BY <1>1, <2>1 DEF GitInv, GitTypes
  <2>2. UNCHANGED stageArea
    BY <1>1 DEF R!git
  <2>3. QED
    BY <1>1, <1>5, <2>1, <2>2 DEF AddsHold, GitInv, Added, ToAdd
<1>7. QED
  BY <1>4, <1>6 DEF GitInv

LEMMA HeadAndTail ==
    ASSUME NEW S, NEW seq \in Seq(S), seq # << >>
    PROVE  R!ToSet(seq) \subseteq {Head(seq)} \cup R!ToSet(Tail(seq))
<1>1. SUFFICES ASSUME NEW i \in 1..Len(seq), i # 1 PROVE seq[i] \in R!ToSet(Tail(seq))
  BY DEF R!ToSet
<1>2. i - 1 \in DOMAIN Tail(seq) /\ Tail(seq)[i - 1] = seq[i]
  BY <1>1, WithoutFirst
<1>3. QED
  BY <1>2 DEF R!ToSet

LEMMA AddInv == ASSUME GitInv, NEW c \in GitCallers, R!Add(c) PROVE GitInv'
<1> DEFINE ps == IF job[c].todo = << >> THEN GitFiles ELSE {Head(job[c].todo)}
<1>1. pc[c] = "add" /\ UNCHANGED <<files, commits, known, heads, tags, branch, detached, remote, stash>>
  BY DEF R!Add, R!refs
<1>2. \/ stageArea' = [p \in GitFiles |-> IF p \in ps THEN files[p] ELSE stageArea[p]] /\ disturbed' = disturbed
      \/ stageArea' = stageArea /\ disturbed' = disturbed \cup {c}
  BY DEF R!Add
<1>3. job[c] \in GitJobs /\ job[c].todo \in Seq(GitFiles)
  BY DEF GitInv, GitTypes, GitJobs
<1>4. \/ /\ Len(job[c].todo) <= 1 /\ pc' = [pc EXCEPT ![c] = "commit"] /\ job' = job
      \/ /\ ~(Len(job[c].todo) <= 1) /\ pc' = pc
         /\ job' = [job EXCEPT ![c] = [job[c] EXCEPT !.todo = Tail(job[c].todo)]]
  BY DEF R!Add, R!Goto
<1>5. /\ ~(Len(job[c].todo) <= 1) => /\ Tail(job[c].todo) \in Seq(GitFiles)
                                     /\ Tail(job[c].todo) # << >> /\ job[c].todo # << >>
      /\ Head(job[c].todo) \in GitFiles \/ job[c].todo = << >>
  BY <1>3
<1>6. R!ToSet(job[c].todo) \subseteq {Head(job[c].todo)} \cup R!ToSet(Tail(job[c].todo)) \/ job[c].todo = << >>
  BY <1>3, HeadAndTail
<1>7. Len(job[c].todo) <= 1 => R!ToSet(job[c].todo) \subseteq {Head(job[c].todo)}
  BY <1>3 DEF R!ToSet
<1>8. GitTypes'
  <2>1. stageArea' \in GitTrees /\ disturbed' \subseteq GitCallers
    BY <1>2 DEF GitInv, GitTypes, GitTrees
  <2>2. job' \in [GitCallers -> GitJobs]
    <3>1. ~(Len(job[c].todo) <= 1) => [job[c] EXCEPT !.todo = Tail(job[c].todo)] \in GitJobs
      BY <1>3, <1>5 DEF GitJobs
    <3>2. QED
      BY <1>4, <3>1 DEF GitInv, GitTypes
  <2>3. pc' \in [GitCallers -> {"idle", "write", "add", "commit"}]
    BY <1>4 DEF GitInv, GitTypes
  <2>4. \A q \in GitCallers : pc'[q] = "write" => pc[q] = "write" /\ job'[q] = job[q]
    BY <1>1, <1>4 DEF GitInv, GitTypes
  <2>5. CommitTypes' /\ RefTypes'
    BY <1>1 DEF GitInv, GitTypes, CommitTypes, RefTypes, R!HEAD
  <2>6. QED
    BY <1>1, <2>1, <2>2, <2>3, <2>4, <2>5 DEF GitInv, GitTypes
<1>9. ASSUME NEW q \in GitCallers, q # c, pc'[q] \in {"add", "commit"}, q \notin disturbed' PROVE Added(q)'
  <2>1. pc'[q] = pc[q] /\ job'[q] = job[q] /\ q \notin disturbed
    BY <1>2, <1>4, <1>9 DEF GitInv, GitTypes
  <2>2. Added(q) /\ ToAdd(q)' = ToAdd(q)
    BY <1>9, <2>1 DEF GitInv, AddsHold, ToAdd
  <2>3. job[q].asked \subseteq GitFiles
    BY DEF GitInv, GitTypes, GitJobs
  <2>4. QED
    BY <1>1, <1>2, <2>1, <2>2, <2>3 DEF Added
<1>10. ASSUME c \notin disturbed' PROVE Added(c)'
  <2>1. Added(c) /\ stageArea' = [p \in GitFiles |-> IF p \in ps THEN files[p] ELSE stageArea[p]]
    BY <1>1, <1>2, <1>10 DEF GitInv, AddsHold
  <2>2. job'[c].asked = job[c].asked /\ job[c].asked \subseteq GitFiles
    BY <1>3, <1>4 DEF GitInv, GitTypes, GitJobs
  <2>3. ToAdd(c) \subseteq ps \cup ToAdd(c)'
    <3>1. CASE Len(job[c].todo) <= 1
      BY <1>1, <1>7, <3>1 DEF ToAdd
    <3>2. CASE ~(Len(job[c].todo) <= 1)
      <4>1. job'[c].todo = Tail(job[c].todo) /\ pc'[c] = "add"
        BY <1>1, <1>3, <1>4, <3>2 DEF GitInv, GitTypes, GitJobs
      <4>2. QED
        BY <1>1, <1>5, <1>6, <3>2, <4>1 DEF ToAdd
    <3>3. QED
      BY <3>1, <3>2
  <2> HIDE DEF ps
  <2>4. QED
    BY <1>1, <2>1, <2>2, <2>3 DEF Added
<1>11. QED
  BY <1>8, <1>9, <1>10 DEF GitInv, AddsHold

\* Git itself: commits, branches, tags, the remote and what is not touched.
LEMMA CommitMoves == ASSUME GitInv, NEW c \in GitCallers, R!Commit(c) PROVE Moves
<1>1. CASE UNCHANGED <<commits, known, R!refs>>
  <2>1. UNCHANGED <<commits, known, heads, tags, branch, detached, remote>>
    BY <1>1 DEF R!refs
  <2>2. CommitTypes' /\ RefTypes' /\ \A n : IsNamed(n) => IsNamed(n)'
    BY <2>1 DEF GitInv, GitTypes, CommitTypes, RefTypes, R!HEAD, IsNamed
  <2>3. QED
    BY <2>1, <2>2, SameCommits, SameName DEF GitInv, Moves, NamesStay
<1>2. CASE R!Record(stageArea, {R!HEAD}, known)
  <2>1. {R!HEAD} \in SUBSET (DOMAIN commits) /\ stageArea \in GitTrees /\ known \in SUBSET (DOMAIN commits)
    BY HeadIs DEF GitInv, GitTypes, CommitTypes
  <2>2. QED
    BY <1>2, <2>1, RecordMoves DEF GitInv
<1>3. QED
  BY <1>1, <1>2 DEF R!Commit

LEMMA CommitInv == ASSUME GitInv, NEW c \in GitCallers, R!Commit(c) PROVE GitInv'
<1>1. /\ pc' = [pc EXCEPT ![c] = "idle"] /\ job' = [job EXCEPT ![c] = R!NoJob]
      /\ UNCHANGED <<files, stageArea, stash, disturbed>>
  BY DEF R!Commit, R!Return, R!Goto
<1>2. CommitTypes' /\ RefTypes'
  BY CommitMoves DEF Moves
<1>3. GitTypes'
  BY <1>1, <1>2, NoGitJob DEF GitInv, GitTypes
<1>4. AddsHold'
  <2>1. ASSUME NEW q \in GitCallers, pc'[q] \in {"add", "commit"}
        PROVE  q # c /\ pc'[q] = pc[q] /\ job'[q] = job[q]
    BY <1>1, <2>1 DEF GitInv, GitTypes
  <2>2. QED
    BY <1>1, <2>1 DEF AddsHold, GitInv, Added, ToAdd
<1>5. QED
  BY <1>3, <1>4 DEF GitInv

\* Names that stay and those that are given up.
LEMMA RefsMove ==
    ASSUME GitTypes, UNCHANGED <<commits, known>>, RefTypes',
           \A n : IsNamed(n) => \/ IsNamed(n)' \/ n \in R!GivenUp
                                \/ \E m \in DOMAIN commits : IsNamed(m)' /\ n \in R!Reach(m)
    PROVE  Moves
<1>1. Grown /\ CommitTypes' /\ \A c : R!Reach(c)' = R!Reach(c)
  BY SameCommits DEF GitTypes, CommitTypes
<1>2. ASSUME NEW n, IsNamed(n), n \notin R!GivenUp PROVE \E m : IsNamed(m)' /\ n \in R!Reach(m)'
  <2>1. CASE IsNamed(n)'
    BY <1>1, <1>2, <2>1, SameName
  <2>2. CASE \E m \in DOMAIN commits : IsNamed(m)' /\ n \in R!Reach(m)
    BY <1>1, <2>2
  <2>3. QED
    BY <1>2, <2>1, <2>2
<1>3. QED
  BY <1>1, <1>2 DEF Moves, NamesStay

LEMMA NoneIsNoBranch == Main \in Branches /\ None \notin Branches
BY ChangesAssumption DEF R!RepositoryAssumption

LEMMA CreateBranchMoves == ASSUME GitInv, NEW b \in Branches, R!CreateBranch(b) PROVE Moves
<1>1. /\ UNCHANGED <<commits, known, tags, remote>> /\ heads[b] = 0
      /\ heads' = [heads EXCEPT ![b] = R!HEAD] /\ branch' = b
  BY DEF R!CreateBranch
<1>2. heads' \in [Branches -> known \cup {0}] /\ R!HEAD' = R!HEAD
  <2>1. R!HEAD \in known
    BY HeadIs DEF GitInv
  <2>2. R!HEAD' = heads'[b]
    BY <1>1, NoneIsNoBranch DEF R!HEAD
  <2>3. heads'[b] = R!HEAD /\ heads' \in [Branches -> known \cup {0}]
    BY <1>1, <2>1 DEF GitInv, GitTypes, RefTypes
  <2>4. QED
    BY <2>2, <2>3
<1>3. RefTypes'
  BY <1>1, <1>2, HeadIs DEF GitInv, GitTypes, RefTypes
<1>4. ASSUME NEW n, IsNamed(n) PROVE IsNamed(n)'
  <2>1. ASSUME NEW a \in Branches, n = heads[a] PROVE IsNamed(n)'
    <3>1. a # b /\ heads'[a] = heads[a]
      BY <1>1, <1>4, <2>1 DEF IsNamed, GitInv, GitTypes, RefTypes
    <3>2. QED
      BY <1>4, <2>1, <3>1 DEF IsNamed
  <2>2. QED
    BY <1>1, <1>2, <1>4, <2>1 DEF IsNamed
<1>5. QED
  BY <1>1, <1>3, <1>4, RefsMove DEF GitInv

LEMMA DeleteBranchMoves == ASSUME GitInv, NEW b \in Branches, R!DeleteBranch(b) PROVE Moves
<1>1. /\ UNCHANGED <<commits, known, tags, branch, detached, remote>> /\ b # branch
      /\ heads' = [heads EXCEPT ![b] = 0]
      /\ heads[b] \in R!Reach(R!HEAD) \/ (remote[b] # 0 /\ heads[b] \in R!Reach(remote[b]))
  BY DEF R!DeleteBranch
<1>2. heads' \in [Branches -> known \cup {0}] /\ \A a \in Branches : a # b => heads'[a] = heads[a]
  BY <1>1 DEF GitInv, GitTypes, RefTypes
<1>3. R!HEAD' = R!HEAD
  BY <1>1, <1>2 DEF R!HEAD, GitInv, GitTypes, RefTypes
<1>4. RefTypes'
  BY <1>1, <1>2, <1>3 DEF GitInv, GitTypes, RefTypes
<1>5. ASSUME NEW n, IsNamed(n), ~IsNamed(n)' PROVE \E m \in DOMAIN commits : IsNamed(m)' /\ n \in R!Reach(m)
  <2>1. n = heads[b]
    BY <1>1, <1>2, <1>3, <1>5 DEF IsNamed
  <2>2. R!HEAD \in DOMAIN commits /\ R!HEAD # 0
    BY HeadIs DEF GitInv, IsNamed
  <2>3. PICK h, m : h = R!HEAD /\ m = remote[b]
    OBVIOUS
  <2>4. IsNamed(h)' /\ (m # 0 => IsNamed(m)' /\ m \in DOMAIN commits)
    <3>1. m # 0 => m \in DOMAIN commits
      BY <2>3, NamedIsCommit DEF GitInv, IsNamed
    <3>2. QED
      BY <1>1, <1>3, <2>2, <2>3, <3>1 DEF IsNamed
  <2>5. QED
    BY <1>1, <2>1, <2>2, <2>3, <2>4
<1>6. QED
  BY <1>1, <1>4, <1>5, RefsMove DEF GitInv

LEMMA TagMoves == ASSUME GitInv, NEW t \in Tags, R!CreateTag(t) \/ R!DeleteTag(t) PROVE Moves
<1>1. UNCHANGED <<commits, known, heads, branch, detached, remote>>
  BY DEF R!CreateTag, R!DeleteTag
<1>2. \/ tags' = [tags EXCEPT ![t] = R!HEAD] /\ tags[t] = 0
      \/ tags' = [tags EXCEPT ![t] = 0] /\ tags[t] # 0
  <2>1. CASE R!CreateTag(t)
    BY <2>1 DEF R!CreateTag
  <2>2. CASE R!DeleteTag(t)
    BY <2>2 DEF R!DeleteTag
  <2>3. QED
    BY <2>1, <2>2, Zenon
<1>3. tags' \in [Tags -> known \cup {0}]
  BY <1>2, HeadIs DEF GitInv, GitTypes, RefTypes
<1>4. R!HEAD' = R!HEAD
  BY <1>1 DEF R!HEAD
<1>5. RefTypes'
  BY <1>1, <1>3, <1>4 DEF GitInv, GitTypes, RefTypes
<1>6. ASSUME NEW n, IsNamed(n), ~IsNamed(n)' PROVE n \in R!GivenUp
  <2>1. PICK a \in Tags : n = tags[a]
    BY <1>1, <1>4, <1>6 DEF IsNamed
  <2>2. tags'[a] # tags[a]
    BY <1>6, <2>1 DEF IsNamed
  <2>3. QED
    BY <2>1, <2>2 DEF R!GivenUp
<1>7. QED
  BY <1>1, <1>5, <1>6, RefsMove DEF GitInv

LEMMA PushMoves == ASSUME GitInv, NEW b \in Branches, NEW force, R!Push(b, force) PROVE Moves
<1>1. /\ UNCHANGED <<commits, known, heads, tags, branch, detached>>
      /\ remote' = [remote EXCEPT ![b] = heads[b]]
  BY DEF R!Push
<1>2. heads[b] \in 0..Len(commits)
  BY HeadIs DEF GitInv, GitTypes, RefTypes, CommitTypes
<1>3. remote' \in [Branches -> 0..Len(commits)] /\ remote'[b] = heads[b]
      /\ \A a \in Branches : a # b => remote'[a] = remote[a]
  BY <1>1, <1>2 DEF GitInv, GitTypes, RefTypes
<1>4. R!HEAD' = R!HEAD
  BY <1>1 DEF R!HEAD
<1>5. RefTypes'
  BY <1>1, <1>3, <1>4 DEF GitInv, GitTypes, RefTypes
<1>6. ASSUME NEW n, IsNamed(n), ~IsNamed(n)' PROVE n \in R!GivenUp
  <2>1. n = remote[b]
    BY <1>1, <1>3, <1>4, <1>6 DEF IsNamed
  <2>2. QED
    BY <1>3, <2>1 DEF R!GivenUp
<1>7. QED
  BY <1>1, <1>5, <1>6, RefsMove DEF GitInv

LEMMA OthersMove ==
    ASSUME GitInv, NEW b \in Branches, NEW new \in Theirs, R!Others(b, new)
    PROVE  Moves
<1>1. PICK r, c : r = [tree |-> new, parents |-> {remote[b]}] /\ c = Len(commits) + 1
  OBVIOUS
<1>2. /\ remote[b] # 0 /\ commits' = Append(commits, r) /\ remote' = [remote EXCEPT ![b] = Len(commits')]
      /\ UNCHANGED <<known, heads, tags, branch, detached>>
  BY <1>1 DEF R!Others
<1>3. remote[b] \in DOMAIN commits
  BY <1>2, NamedIsCommit DEF GitInv, IsNamed
<1>4. r \in GitCommits /\ r.parents = {remote[b]}
  <2>1. new \in GitTrees
    BY ChangesAssumption DEF R!RepositoryAssumption, GitTrees
  <2>2. {remote[b]} \in SUBSET Nat
    BY <1>3, HeadIs DEF GitInv
  <2>3. QED
    BY <1>1, <2>1, <2>2 DEF GitCommits
<1>5. /\ Grown /\ remote[b] \in R!Reach(c)' /\ Len(commits') = c
      /\ DOMAIN commits' = DOMAIN commits \cup {c}
      /\ commits' \in Seq(GitCommits) /\ \A i \in DOMAIN commits' : commits'[i].parents \subseteq 1..(i - 1)
  <2>1. r.parents \subseteq DOMAIN commits
    BY <1>3, <1>4
  <2>2. /\ Grown /\ (\A d \in r.parents : d \in R!Reach(c)') /\ Len(commits') = c
        /\ DOMAIN commits' = DOMAIN commits \cup {c}
        /\ commits' \in Seq(GitCommits) /\ \A i \in DOMAIN commits' : commits'[i].parents \subseteq 1..(i - 1)
    BY <1>1, <1>2, <1>4, <2>1, ReachGrows DEF GitInv
  <2>3. QED
    BY <1>4, <2>2
<1>6. CommitTypes'
  BY <1>2, <1>5 DEF GitInv, GitTypes, CommitTypes
<1>7. R!HEAD' = R!HEAD
  BY <1>2 DEF R!HEAD
<1>8. /\ remote' \in [Branches -> 0..Len(commits')] /\ remote'[b] = c
      /\ \A a \in Branches : a # b => remote'[a] = remote[a]
  <2>1. Len(commits) \in Nat
    BY HeadIs DEF GitInv
  <2>2. 0..Len(commits) \subseteq 0..Len(commits') /\ c \in 0..Len(commits')
    BY <1>1, <1>5, <2>1
  <2>3. QED
    BY <1>2, <1>5, <2>2 DEF GitInv, GitTypes, RefTypes
<1>9. RefTypes'
  BY <1>2, <1>7, <1>8 DEF GitInv, GitTypes, RefTypes
<1>10. IsNamed(c)'
  <2>1. c # 0
    BY <1>1, HeadIs DEF GitInv
  <2>2. QED
    BY <1>8, <2>1 DEF IsNamed
<1>11. ASSUME NEW n, IsNamed(n) PROVE \E m : IsNamed(m)' /\ n \in R!Reach(m)'
  <2>1. CASE n = remote[b]
    BY <1>5, <1>10, <2>1
  <2>2. CASE n # remote[b]
    <3>1. IsNamed(n)'
      BY <1>2, <1>7, <1>8, <1>11, <2>2 DEF IsNamed
    <3>2. QED
      BY <1>5, <1>11, <3>1, SameName DEF GitInv
  <2>3. QED
    BY <2>1, <2>2
<1>12. QED
  BY <1>5, <1>6, <1>9, <1>11 DEF Moves, NamesStay

\* What changes a file without asking leaves those that differ from the last commit.
FilesStay == \A p \in GitFiles : files'[p] = files[p] \/ files[p] = R!HeadTree[p]

LEMMA UpdateDoes ==
    ASSUME GitTypes, NEW new \in GitTrees, R!Update(new)
    PROVE  files' \in GitTrees /\ stageArea' \in GitTrees /\ FilesStay
<1>1. PICK other \in SUBSET GitFiles :
         /\ \A p \in other : files[p] = R!HeadTree[p]
         /\ files' = [p \in GitFiles |-> IF p \in other THEN new[p] ELSE files[p]]
         /\ stageArea' = [p \in GitFiles |-> IF p \in other THEN new[p] ELSE stageArea[p]]
  <2>1. PICK other : other = {p \in GitFiles : new[p] \notin {R!HeadTree[p], stageArea[p]}}
    OBVIOUS
  <2>2. QED
    BY <2>1 DEF R!Update
<1>2. files' \in GitTrees /\ stageArea' \in GitTrees
  BY <1>1 DEF GitTypes, GitTrees
<1>3. QED
  BY <1>1, <1>2 DEF FilesStay

LEMMA SwitchBranchMoves ==
    ASSUME GitInv, NEW b \in Branches, R!SwitchBranch(b)
    PROVE  Moves /\ files' \in GitTrees /\ stageArea' \in GitTrees /\ FilesStay
<1>1. PICK c : c = IF heads[b] # 0 THEN heads[b] ELSE remote[b]
  OBVIOUS
<1>2. /\ b # branch /\ c \in known /\ R!Update(commits[c].tree) /\ heads' = [heads EXCEPT ![b] = c]
      /\ branch' = b /\ UNCHANGED <<commits, known, tags, remote>>
  BY <1>1 DEF R!SwitchBranch
<1>3. c \in DOMAIN commits /\ commits[c].tree \in GitTrees
  BY <1>2, HeadIs DEF GitInv, GitTypes, CommitTypes
<1>4. files' \in GitTrees /\ stageArea' \in GitTrees /\ FilesStay
  BY <1>2, <1>3, UpdateDoes DEF GitInv
<1>5. heads' \in [Branches -> known \cup {0}] /\ heads'[b] = c /\ \A a \in Branches : a # b => heads'[a] = heads[a]
  BY <1>2 DEF GitInv, GitTypes, RefTypes
<1>6. R!HEAD' = c
  BY <1>2, <1>5, NoneIsNoBranch DEF R!HEAD
<1>7. RefTypes'
  BY <1>2, <1>5, <1>6 DEF GitInv, GitTypes, RefTypes
<1>8. ASSUME NEW n, IsNamed(n), ~IsNamed(n)' PROVE n \in R!GivenUp
  <2>1. ASSUME NEW a \in Branches, n = heads[a] PROVE FALSE
    <3>1. heads'[a] = n
      BY <1>1, <1>5, <1>8, <2>1 DEF IsNamed
    <3>2. QED
      BY <1>8, <2>1, <3>1 DEF IsNamed
  <2>2. n = R!HEAD
    BY <1>2, <1>8, <2>1 DEF IsNamed
  <2>3. branch = None
    BY <2>1, <2>2 DEF R!HEAD, GitInv, GitTypes, RefTypes
  <2>4. QED
    BY <1>2, <2>2, <2>3 DEF R!GivenUp
<1>9. QED
  BY <1>2, <1>4, <1>7, <1>8, RefsMove DEF GitInv

LEMMA SwitchCommitMoves ==
    ASSUME GitInv, NEW c \in known, R!SwitchCommit(c)
    PROVE  Moves /\ files' \in GitTrees /\ stageArea' \in GitTrees /\ FilesStay
<1>1. /\ R!Update(commits[c].tree) /\ branch' = None /\ detached' = c
      /\ UNCHANGED <<commits, known, heads, tags, remote>>
  BY DEF R!SwitchCommit
<1>2. c \in DOMAIN commits /\ commits[c].tree \in GitTrees
  BY HeadIs DEF GitInv, GitTypes, CommitTypes
<1>3. files' \in GitTrees /\ stageArea' \in GitTrees /\ FilesStay
  BY <1>1, <1>2, UpdateDoes DEF GitInv
<1>4. R!HEAD' = c
  BY <1>1 DEF R!HEAD
<1>5. RefTypes'
  BY <1>1, <1>4 DEF GitInv, GitTypes, RefTypes
<1>6. ASSUME NEW n, IsNamed(n), ~IsNamed(n)' PROVE n \in R!GivenUp
  <2>1. n = R!HEAD /\ \A a \in Branches : n # heads[a]
    BY <1>1, <1>6 DEF IsNamed
  <2>2. branch = None
    BY <2>1 DEF R!HEAD, GitInv, GitTypes, RefTypes
  <2>3. QED
    BY <1>1, <2>1, <2>2 DEF R!GivenUp
<1>7. QED
  BY <1>1, <1>3, <1>5, <1>6, RefsMove DEF GitInv


\* A step that works on commits and files alike.
Lands == Moves /\ files' \in GitTrees /\ stageArea' \in GitTrees /\ FilesStay

LEMMA ApplyMoves ==
    ASSUME GitInv, NEW before \in GitTrees, NEW new \in GitTrees,
           NEW parents \in SUBSET (DOMAIN commits), R!HEAD \in parents,
           NEW here \in SUBSET (DOMAIN commits), known \subseteq here, R!Apply(before, new, parents, here)
    PROVE  Lands
<1>1. PICK joined : joined = R!Join(before, R!HeadTree, new)
  OBVIOUS
<1>2. joined \in GitTrees
  <2>1. R!HeadTree \in GitTrees
    BY HeadIs DEF GitInv
  <2>2. QED
    BY <1>1, <2>1 DEF R!Join, GitTrees
<1>3. R!Update(joined) /\ R!Record(joined, parents, here)
  BY <1>1 DEF R!Apply
<1>4. Moves
  BY <1>2, <1>3, RecordMoves DEF GitInv
<1>5. QED
  BY <1>2, <1>3, <1>4, UpdateDoes DEF Lands, GitInv

\* A merge: forward to c, or one more commit of both.
LEMMA UniteMoves ==
    ASSUME GitInv, NEW here \in SUBSET (DOMAIN commits), known \subseteq here, NEW c \in here,
           NEW ff \in BOOLEAN, R!Unite(c, ff, here)
    PROVE  Lands
<1>0. c \in DOMAIN commits /\ commits[c].tree \in GitTrees
  BY HeadIs DEF GitInv
<1>1. CASE /\ R!HEAD \in R!Reach(c) /\ R!Update(commits[c].tree)
           /\ R!Advance(c) /\ known' = here /\ UNCHANGED commits
  <2>1. files' \in GitTrees /\ stageArea' \in GitTrees /\ FilesStay
    BY <1>0, <1>1, UpdateDoes DEF GitInv
  <2>2. Grown /\ R!Reach(c)' = R!Reach(c)
    BY <1>1, SameCommits DEF GitInv
  <2>3. CommitTypes'
    BY <1>1 DEF GitInv, GitTypes, CommitTypes
  <2>4. c \in known' /\ known \subseteq known' /\ R!HEAD \in R!Reach(c)'
    BY <1>1, <2>2
  <2>5. Moves
    BY <1>1, <2>2, <2>3, <2>4, AdvanceMoves DEF GitInv
  <2>6. QED
    BY <2>1, <2>5 DEF Lands
<1>2. ASSUME NEW a \in R!Bases(R!HEAD, c), R!Apply(commits[a].tree, commits[c].tree, {R!HEAD, c}, here)
      PROVE  Lands
  <2>1. a \in DOMAIN commits
    BY <1>2, ReachIsCommits DEF R!Bases
  <2>2. commits[a].tree \in GitTrees
    BY <2>1, HeadIs DEF GitInv
  <2>3. {R!HEAD, c} \in SUBSET (DOMAIN commits) /\ R!HEAD \in {R!HEAD, c}
    BY <1>0, HeadIs DEF GitInv
  <2>4. QED
    BY <1>0, <1>2, <2>2, <2>3, ApplyMoves
<1>3. QED
  BY <1>1, <1>2 DEF R!Unite

LEMMA MergeMoves == ASSUME GitInv, NEW c \in known, NEW ff \in BOOLEAN, R!Merge(c, ff) PROVE Lands
<1>1. R!Unite(c, ff, known)
  BY DEF R!Merge
<1>2. known \in SUBSET (DOMAIN commits)
  BY DEF GitInv, GitTypes, CommitTypes
<1>3. QED
  BY <1>1, <1>2, UniteMoves

LEMMA CherryPickMoves == ASSUME GitInv, NEW c \in known, R!CherryPick(c) PROVE Lands
<1>1. PICK before : before = IF commits[c].parents = {} THEN R!NoFiles
                         ELSE commits[CHOOSE d \in commits[c].parents : TRUE].tree
  OBVIOUS
<1>2. R!Apply(before, commits[c].tree, {R!HEAD}, known)
  BY <1>1 DEF R!CherryPick
<1>3. known \in SUBSET (DOMAIN commits) /\ c \in DOMAIN commits
  BY DEF GitInv, GitTypes, CommitTypes
<1>4. before \in GitTrees
  <2>1. CASE commits[c].parents = {}
    BY <1>1, <2>1 DEF R!NoFiles, GitTrees
  <2>2. CASE commits[c].parents # {}
    <3>1. PICK d \in commits[c].parents : d = CHOOSE e \in commits[c].parents : TRUE
      BY <2>2
    <3>2. commits[c].parents \subseteq 1..(c - 1) /\ c \in 1..Len(commits) /\ Len(commits) \in Nat
      BY <1>3, HeadIs DEF GitInv, GitTypes, CommitTypes
    <3>3. d \in 1..Len(commits)
      BY <3>1, <3>2
    <3>4. QED
      BY <1>1, <2>2, <3>1, <3>3, HeadIs DEF GitInv
  <2>3. QED
    BY <2>1, <2>2
<1>5. commits[c].tree \in GitTrees /\ {R!HEAD} \in SUBSET (DOMAIN commits) /\ R!HEAD \in {R!HEAD}
  BY <1>3, HeadIs DEF GitInv
<1>6. QED
  BY <1>2, <1>3, <1>4, <1>5, ApplyMoves

LEMMA PullMoves == ASSUME GitInv, NEW b \in Branches, R!Pull(b) PROVE Lands
<1>1. PICK c, here : c = remote[b] /\ here = known \cup R!Reach(c)
  OBVIOUS
<1>2. /\ c # 0
      /\ \/ R!Unite(c, TRUE, here)
         \/ known' = here /\ UNCHANGED <<files, stageArea, commits, R!refs>>
  BY <1>1 DEF R!Pull
<1>3. c \in DOMAIN commits
  BY <1>1, <1>2, NamedIsCommit DEF GitInv, IsNamed
<1>4. here \in SUBSET (DOMAIN commits) /\ known \subseteq here /\ c \in here
  BY <1>1, <1>3, ReachIsCommits, ReachItself DEF GitInv, GitTypes, CommitTypes
<1>5. CASE known' = here /\ UNCHANGED <<files, stageArea, commits, R!refs>>
  <2>1. UNCHANGED <<files, stageArea, commits, heads, tags, branch, detached, remote>>
    BY <1>5 DEF R!refs
  <2>2. CommitTypes' /\ RefTypes' /\ \A n : IsNamed(n) => IsNamed(n)'
    BY <1>4, <1>5, <2>1 DEF GitInv, GitTypes, CommitTypes, RefTypes, R!HEAD, IsNamed
  <2>3. Moves
    BY <2>1, <2>2, SameCommits, SameName DEF GitInv, Moves, NamesStay
  <2>4. QED
    BY <2>1, <2>3 DEF Lands, FilesStay, GitInv, GitTypes
<1>6. CASE R!Unite(c, TRUE, here)
  BY <1>4, <1>6, UniteMoves
<1>7. QED
  BY <1>2, <1>5, <1>6

\* The stash.
Pushed == [base |-> R!HeadTree, tree |-> [p \in GitFiles |-> IF p \in R!Tracked THEN files[p] ELSE None]]

LEMMA SameRefs == ASSUME GitInv, UNCHANGED <<commits, known, R!refs>> PROVE Moves
<1>1. UNCHANGED <<commits, known, heads, tags, branch, detached, remote>>
  BY DEF R!refs
<1>2. CommitTypes' /\ RefTypes' /\ \A n : IsNamed(n) => IsNamed(n)'
  BY <1>1 DEF GitInv, GitTypes, CommitTypes, RefTypes, R!HEAD, IsNamed
<1>3. QED
  BY <1>1, <1>2, SameCommits, SameName DEF GitInv, Moves, NamesStay

LEMMA PushDoes ==
    ASSUME GitInv, R!StashPush
    PROVE  /\ Moves /\ files' \in GitTrees /\ stageArea' \in GitTrees /\ R!Disturb /\ UNCHANGED <<pc, job>>
           /\ stash' = Append(stash, Pushed) /\ Pushed \in Stashes /\ stash' \in Seq(Stashes)
           /\ \A p \in GitFiles : \/ files'[p] = files[p]
                                  \/ Pushed.tree[p] = files[p] /\ files'[p] = Pushed.base[p]
<1>1. /\ stash' = Append(stash, Pushed) /\ stageArea' = R!HeadTree /\ R!Disturb
      /\ files' = [p \in GitFiles |-> IF p \in R!Tracked THEN R!HeadTree[p] ELSE files[p]]
      /\ UNCHANGED <<commits, known, R!refs, pc, job>>
  BY DEF R!StashPush, Pushed
<1>2. R!HeadTree \in GitTrees /\ files \in GitTrees
  BY HeadIs DEF GitInv, GitTypes
<1>3. Pushed \in Stashes
  BY <1>2 DEF Pushed, Stashes, GitTrees
<1>4. files' \in GitTrees /\ stash' \in Seq(Stashes)
  BY <1>1, <1>2, <1>3 DEF GitInv, GitTypes, GitTrees
<1>5. ASSUME NEW p \in GitFiles PROVE files'[p] = files[p] \/ (Pushed.tree[p] = files[p] /\ files'[p] = Pushed.base[p])
  <2>1. Pushed.base = R!HeadTree /\ Pushed.tree = [q \in GitFiles |-> IF q \in R!Tracked THEN files[q] ELSE None]
    BY DEF Pushed
  <2>2. QED
    BY <1>1, <2>1
<1>6. Moves
  BY <1>1, SameRefs
<1>7. QED
  BY <1>1, <1>2, <1>3, <1>4, <1>5, <1>6

\* What pop takes and drop forgets is the newest.
LEMMA FrontIs ==
    ASSUME GitTypes, stash # << >>
    PROVE  /\ Len(stash) \in DOMAIN stash /\ R!Last(stash) = stash[Len(stash)] /\ R!Last(stash) \in Stashes
           /\ R!Front(stash) \in Seq(Stashes) /\ DOMAIN R!Front(stash) = 1..(Len(stash) - 1)
           /\ Len(stash) \in Nat /\ DOMAIN stash = 1..Len(stash)
           /\ \A i \in 1..(Len(stash) - 1) : R!Front(stash)[i] = stash[i]
<1>1. stash \in Seq(Stashes) /\ Len(stash) \in Nat \ {0} /\ DOMAIN stash = 1..Len(stash)
  BY DEF GitTypes
<1>2. Len(stash) \in DOMAIN stash /\ Len(stash) - 1 \in 0..Len(stash)
  BY <1>1
<1>3. stash[Len(stash)] \in Stashes
  BY <1>1, <1>2
<1>4. /\ SubSeq(stash, 1, Len(stash) - 1) \in Seq(Stashes)
      /\ DOMAIN SubSeq(stash, 1, Len(stash) - 1) = 1..(Len(stash) - 1)
      /\ \A i \in 1..(Len(stash) - 1) : SubSeq(stash, 1, Len(stash) - 1)[i] = stash[i]
  BY <1>1, <1>2
<1>5. QED
  BY <1>1, <1>2, <1>3, <1>4 DEF R!Last, R!Front

LEMMA PopDoes ==
    ASSUME GitInv, R!StashPop
    PROVE  /\ Moves /\ files' \in GitTrees /\ stageArea' \in GitTrees /\ R!Disturb /\ UNCHANGED <<pc, job>>
           /\ stash # << >> /\ stash' = R!Front(stash) /\ stash' \in Seq(Stashes) /\ FilesStay
           /\ \A p \in GitFiles : R!Last(stash).tree[p] # R!Last(stash).base[p] => files'[p] = R!Last(stash).tree[p]
<1>1. /\ stash # << >> /\ stash' = R!Front(stash) /\ R!Disturb
      /\ UNCHANGED <<commits, known, R!refs, pc, job>>
  BY DEF R!StashPop
<1>2. PICK s, changed : s = R!Last(stash) /\ changed = {p \in GitFiles : s.tree[p] # s.base[p]}
  OBVIOUS
<1>3. /\ \A p \in changed : files[p] = R!HeadTree[p]
      /\ files' = [p \in GitFiles |-> IF p \in changed THEN s.tree[p] ELSE files[p]]
      /\ stageArea' = [p \in GitFiles |-> IF p \in changed /\ s.base[p] = None
                                           THEN s.tree[p] ELSE stageArea[p]]
  BY <1>2 DEF R!StashPop
<1>4. s \in Stashes /\ stash' \in Seq(Stashes)
  BY <1>1, <1>2, FrontIs DEF GitInv
<1>5. s.tree \in GitTrees /\ files \in GitTrees /\ stageArea \in GitTrees
  BY <1>4 DEF Stashes, GitInv, GitTypes
<1>6. files' \in GitTrees /\ stageArea' \in GitTrees /\ FilesStay
  BY <1>3, <1>5 DEF GitTrees, FilesStay
<1>7. Moves
  BY <1>1, SameRefs
<1>8. ASSUME NEW p \in GitFiles, s.tree[p] # s.base[p] PROVE files'[p] = s.tree[p]
  BY <1>2, <1>3, <1>8
<1>9. QED
  BY <1>1, <1>2, <1>4, <1>6, <1>7, <1>8


LEMMA GitInit == R!Init => GitInv
<1> SUFFICES ASSUME R!Init PROVE GitInv
  OBVIOUS
<1>1. R!NoFiles \in GitTrees
  BY DEF R!NoFiles, GitTrees
<1>2. [tree |-> R!NoFiles, parents |-> {}] \in GitCommits
  BY <1>1 DEF GitCommits
<1>3. commits \in Seq(GitCommits) /\ Len(commits) = 1 /\ DOMAIN commits = {1} /\ commits[1].parents = {}
  BY <1>2 DEF R!Init
<1>4. CommitTypes
  BY <1>3 DEF CommitTypes, R!Init
<1>5. heads \in [Branches -> {0, 1}] /\ heads[Main] = 1 /\ branch = Main
  BY NoneIsNoBranch DEF R!Init
<1>6. R!HEAD = 1
  BY <1>5, NoneIsNoBranch DEF R!HEAD
<1>7. RefTypes
  <2>1. known = {1} /\ 0..Len(commits) = {0, 1} /\ remote = heads
    BY <1>3 DEF R!Init
  <2>2. tags \in [Tags -> {0}]
    BY DEF R!Init
  <2>3. QED
    BY <1>5, <1>6, <2>1, <2>2, NoneIsNoBranch DEF RefTypes
<1>8. stash \in Seq(Stashes)
  BY DEF R!Init
<1>9. GitTypes
  BY <1>1, <1>4, <1>7, <1>8, NoGitJob DEF R!Init, GitTypes
<1>10. QED
  BY <1>9 DEF R!Init, GitInv, AddsHold

\* The commands that move branches, tags and the remote.
RefStep ==
    \/ \E b \in Branches : \/ R!CreateBranch(b) \/ R!DeleteBranch(b)
                           \/ \E force \in BOOLEAN : R!Push(b, force)
                           \/ \E new \in Theirs : R!Others(b, new)
    \/ \E t \in Tags : R!CreateTag(t) \/ R!DeleteTag(t)

\* Those that work on the files as well.
TreeStep ==
    \/ \E b \in Branches : R!SwitchBranch(b) \/ R!Pull(b)
    \/ \E c \in known : R!SwitchCommit(c) \/ R!CherryPick(c) \/ \E ff \in BOOLEAN : R!Merge(c, ff)

\* Those that write files, and the steps of git_commit that leave git as it is.
FileStep ==
    \/ \E c \in GitCallers :
         \/ \E p \in GitFiles, old, new \in Words, all \in BOOLEAN : R!EditFile(c, p, old, new, all)
         \/ \E ps \in {<< >>} \cup {<<p>> : p \in GitFiles} \cup {<<p, q>> : p, q \in GitFiles} : R!GitCommit(c, ps)
         \/ R!WriteEdit(c)
    \/ \E p \in GitFiles : R!DeleteFile(p) \/ \E x \in Texts : R!CreateFile(p, x) \/ R!PatchFile(p, x)
    \/ \E ps \in {GitFiles} \cup {{p} : p \in GitFiles} : R!SwitchPath(ps)

LEMMA StepIs ==
    R!Next => \/ FileStep \/ RefStep \/ TreeStep
              \/ \E c \in GitCallers : R!Add(c) \/ R!Commit(c)
              \/ R!StashPush \/ R!StashPop \/ R!StashDrop
BY DEF R!Next, FileStep, RefStep, TreeStep

LEMMA RefStepDoes ==
    ASSUME GitInv, RefStep
    PROVE  Moves /\ UNCHANGED <<files, stageArea, stash, pc, job, disturbed>>
<1>1. ASSUME NEW b \in Branches, R!CreateBranch(b) \/ R!DeleteBranch(b)
      PROVE  Moves /\ UNCHANGED <<files, stageArea, stash, pc, job, disturbed>>
  <2>1. UNCHANGED <<files, stageArea, stash, pc, job, disturbed>>
    BY <1>1 DEF R!CreateBranch, R!DeleteBranch
  <2>2. QED
    BY <1>1, <2>1, CreateBranchMoves, DeleteBranchMoves
<1>2. ASSUME NEW b \in Branches, NEW force \in BOOLEAN, R!Push(b, force)
      PROVE  Moves /\ UNCHANGED <<files, stageArea, stash, pc, job, disturbed>>
  <2>1. UNCHANGED <<files, stageArea, stash, pc, job, disturbed>>
    BY <1>2 DEF R!Push
  <2>2. QED
    BY <1>2, <2>1, PushMoves
<1>3. ASSUME NEW b \in Branches, NEW new \in Theirs, R!Others(b, new)
      PROVE  Moves /\ UNCHANGED <<files, stageArea, stash, pc, job, disturbed>>
  <2>1. UNCHANGED <<files, stageArea, stash, pc, job, disturbed>>
    BY <1>3 DEF R!Others
  <2>2. QED
    BY <1>3, <2>1, OthersMove
<1>4. ASSUME NEW t \in Tags, R!CreateTag(t) \/ R!DeleteTag(t)
      PROVE  Moves /\ UNCHANGED <<files, stageArea, stash, pc, job, disturbed>>
  <2>1. UNCHANGED <<files, stageArea, stash, pc, job, disturbed>>
    BY <1>4 DEF R!CreateTag, R!DeleteTag
  <2>2. QED
    BY <1>4, <2>1, TagMoves
<1>5. QED
  BY <1>1, <1>2, <1>3, <1>4 DEF RefStep

LEMMA TreeStepDoes ==
    ASSUME GitInv, TreeStep
    PROVE  /\ Lands /\ UNCHANGED <<stash, pc, job>>
           /\ R!Disturb \/ UNCHANGED <<files, stageArea, disturbed>>
<1> DEFINE Rest == /\ UNCHANGED <<stash, pc, job>>
                   /\ R!Disturb \/ UNCHANGED <<files, stageArea, disturbed>>
<1>1. ASSUME NEW b \in Branches, R!SwitchBranch(b) PROVE Lands /\ Rest
  BY <1>1, SwitchBranchMoves DEF R!SwitchBranch, Lands
<1>2. ASSUME NEW b \in Branches, R!Pull(b) PROVE Lands /\ Rest
  BY <1>2, PullMoves DEF R!Pull
<1>3. ASSUME NEW c \in known, R!SwitchCommit(c) PROVE Lands /\ Rest
  BY <1>3, SwitchCommitMoves DEF R!SwitchCommit, Lands
<1>4. ASSUME NEW c \in known, R!CherryPick(c) PROVE Lands /\ Rest
  BY <1>4, CherryPickMoves DEF R!CherryPick
<1>5. ASSUME NEW c \in known, NEW ff \in BOOLEAN, R!Merge(c, ff) PROVE Lands /\ Rest
  BY <1>5, MergeMoves DEF R!Merge
<1> HIDE DEF Rest
<1>6. Lands /\ Rest
  BY <1>1, <1>2, <1>3, <1>4, <1>5 DEF TreeStep
<1>7. QED
  BY <1>6 DEF Rest

LEMMA FileStepInv == ASSUME GitInv, FileStep PROVE GitInv'
<1>1. ASSUME NEW ps \in {<< >>} \cup {<<p>> : p \in GitFiles} \cup {<<p, q>> : p, q \in GitFiles}
      PROVE  ps \in Seq(GitFiles)
  <2>1. CASE ps = << >>
    BY <2>1
  <2>2. ASSUME NEW p \in GitFiles, ps = <<p>> PROVE ps \in Seq(GitFiles)
    BY <2>2
  <2>3. ASSUME NEW p \in GitFiles, NEW q \in GitFiles, ps = <<p, q>> PROVE ps \in Seq(GitFiles)
    BY <2>3
  <2>4. QED
    BY <1>1, <2>1, <2>2, <2>3
<1>2. ASSUME NEW p \in GitFiles, NEW x \in Texts
      PROVE  x \in Seq(Words) \cup {None} /\ None \in Seq(Words) \cup {None}
  BY ChangesAssumption DEF R!RepositoryAssumption
<1>3. ASSUME NEW c \in GitCallers,
             \/ \E p \in GitFiles, old, new \in Words, all \in BOOLEAN : R!EditFile(c, p, old, new, all)
             \/ \E ps \in {<< >>} \cup {<<p>> : p \in GitFiles} \cup {<<p, q>> : p, q \in GitFiles} :
                   R!GitCommit(c, ps)
             \/ R!WriteEdit(c)
      PROVE  GitInv'
  BY <1>1, <1>3, EditFileInv, GitCommitInv, WriteEditInv
<1>4. ASSUME NEW p \in GitFiles, R!DeleteFile(p) \/ \E x \in Texts : R!CreateFile(p, x) \/ R!PatchFile(p, x)
      PROVE  GitInv'
  BY <1>2, <1>4, PutInv DEF R!DeleteFile, R!CreateFile, R!PatchFile
<1>5. QED
  BY <1>3, <1>4, SwitchPathInv DEF FileStep

LEMMA GitNext == ASSUME GitInv, R!Next PROVE GitInv'
<1>1. CASE RefStep
  BY <1>1, RefStepDoes, OtherStep DEF Moves, GitInv, GitTypes
<1>2. CASE TreeStep
  BY <1>2, TreeStepDoes, OtherStep DEF Lands, Moves, GitInv, GitTypes
<1>3. CASE R!StashPush
  BY <1>3, PushDoes, OtherStep DEF Moves
<1>4. CASE R!StashPop
  BY <1>4, PopDoes, OtherStep DEF Moves
<1>5. CASE R!StashDrop
  <2>1. stash # << >> /\ stash' = R!Front(stash) /\ UNCHANGED <<files, stageArea, commits, known, R!refs, pc, job, disturbed>>
    BY <1>5 DEF R!StashDrop
  <2>2. stash' \in Seq(Stashes) /\ Moves
    BY <2>1, FrontIs, SameRefs DEF GitInv
  <2>3. QED
    BY <2>1, <2>2, OtherStep DEF Moves, GitInv, GitTypes
<1>6. QED
  BY <1>1, <1>2, <1>3, <1>4, <1>5, StepIs, FileStepInv, AddInv, CommitInv


\* Where a content is kept, and where it was until the step.
HeldIn(p, x) ==
    \/ x = files[p]
    \/ \E c \in DOMAIN commits : OnName(c) /\ x = commits[c].tree[p]
    \/ \E i \in DOMAIN stash : stash[i].tree[p] # stash[i].base[p] /\ x = stash[i].tree[p]
GoneIn(p, x) == \E c \in DOMAIN commits : GoneWith(c) /\ x = commits[c].tree[p]

LEMMA NamedIs ==
    /\ GitTypes => \A n : n \in R!Named \ {0} <=> IsNamed(n)
    /\ GitTypes' => \A n : n \in R!Named' \ {0} <=> IsNamed(n)'
<1>1. ASSUME GitTypes, NEW n PROVE n \in R!Named \ {0} <=> IsNamed(n)
  <2>1. DOMAIN heads = Branches /\ DOMAIN remote = Branches /\ DOMAIN tags = Tags
    BY <1>1 DEF GitTypes, RefTypes
  <2>2. QED
    BY <2>1 DEF R!Named, R!Range, IsNamed
<1>2. ASSUME GitTypes', NEW n PROVE n \in R!Named' \ {0} <=> IsNamed(n)'
  <2>1. DOMAIN heads' = Branches /\ DOMAIN remote' = Branches /\ DOMAIN tags' = Tags
    BY <1>2 DEF GitTypes, RefTypes
  <2>2. QED
    BY <2>1 DEF R!Named, R!Range, IsNamed
<1>3. QED
  BY <1>1, <1>2

LEMMA InCommitsIs ==
    ASSUME NEW p \in GitFiles, NEW cs
    PROVE  /\ \A x : x \in R!InCommits(cs)[p]
                       <=> \E n \in cs \ {0} : \E d \in R!Reach(n) : x = commits[d].tree[p]
BY DEF R!InCommits

LEMMA InNamedIs ==
    ASSUME NEW p \in GitFiles
    PROVE  \A x : x \in R!InCommits(R!Named)'[p]
                     <=> \E n \in R!Named' \ {0} : \E d \in R!Reach(n)' : x = commits'[d].tree[p]
BY DEF R!InCommits

StashHas(p) == {s.tree[p] : s \in {s \in R!Range(stash) : s.tree[p] # s.base[p]}}

LEMMA StashHasIs ==
    ASSUME NEW p \in GitFiles
    PROVE  /\ \A x : x \in StashHas(p)
                       <=> \E i \in DOMAIN stash : stash[i].tree[p] # stash[i].base[p] /\ x = stash[i].tree[p]
           /\ \A x : x \in StashHas(p)'
                       <=> \E i \in DOMAIN stash' : stash'[i].tree[p] # stash'[i].base[p] /\ x = stash'[i].tree[p]
<1>1. \A x : x \in StashHas(p)
                <=> \E i \in DOMAIN stash : stash[i].tree[p] # stash[i].base[p] /\ x = stash[i].tree[p]
  BY DEF StashHas, R!Range
<1>2. \A x : x \in StashHas(p)'
                <=> \E i \in DOMAIN stash' : stash'[i].tree[p] # stash'[i].base[p] /\ x = stash'[i].tree[p]
  BY DEF StashHas, R!Range
<1>3. QED
  BY <1>1, <1>2

LEMMA HeldIs ==
    ASSUME GitTypes, GitTypes', NEW p \in GitFiles
    PROVE  /\ \A x : x \in R!Held[p] <=> HeldIn(p, x)
           /\ \A x : x \in R!Held'[p] <=> HeldIn(p, x)'
           /\ \A x : x \in R!InCommits(R!GivenUp)[p] <=> GoneIn(p, x)
<1>1. /\ R!Held[p] = {files[p]} \cup R!InCommits(R!Named)[p] \cup StashHas(p)
      /\ R!Held'[p] = {files'[p]} \cup R!InCommits(R!Named)'[p] \cup StashHas(p)'
  <2> DEFINE Places(q) == {files[q]} \cup R!InCommits(R!Named)[q] \cup StashHas(q)
  <2>1. R!Held = [q \in GitFiles |-> Places(q)] /\ R!Held' = [q \in GitFiles |-> Places(q)']
    BY Zenon DEF R!Held, StashHas
  <2> HIDE DEF Places
  <2>2. R!Held[p] = Places(p) /\ R!Held'[p] = Places(p)'
    BY <2>1
  <2>3. QED
    BY <2>2, Zenon DEF Places
<1>2. \A c : R!Reach(c) \subseteq DOMAIN commits /\ R!Reach(c)' \subseteq DOMAIN commits'
  BY DEF R!Reach
<1>3. ASSUME NEW x PROVE x \in R!InCommits(R!Named)[p] <=> \E c \in DOMAIN commits : OnName(c) /\ x = commits[c].tree[p]
  BY <1>2, NamedIs, InCommitsIs DEF OnName
<1>4. ASSUME NEW x
      PROVE x \in R!InCommits(R!Named)'[p] <=> \E c \in DOMAIN commits' : OnName(c)' /\ x = commits'[c].tree[p]
  BY <1>2, NamedIs, InNamedIs DEF OnName
<1>5. ASSUME NEW x PROVE x \in R!Held[p] <=> HeldIn(p, x)
  BY <1>1, <1>3, StashHasIs DEF HeldIn
<1>6. ASSUME NEW x PROVE x \in R!Held'[p] <=> HeldIn(p, x)'
  BY <1>1, <1>4, StashHasIs DEF HeldIn
<1>7. ASSUME NEW x PROVE x \in R!InCommits(R!GivenUp)[p] <=> GoneIn(p, x)
  BY <1>2, InCommitsIs DEF GoneIn, GoneWith
<1>8. QED
  BY <1>5, <1>6, <1>7

\* A commit that a name led to is led to still, or was given up with its name.
LEMMA NamesHold ==
    ASSUME GitTypes, Grown, NamesStay, NEW c, OnName(c)
    PROVE  OnName(c)' \/ GoneWith(c)
<1>1. PICK n : IsNamed(n) /\ c \in R!Reach(n)
  BY DEF OnName
<1>2. n # 0 /\ n \in DOMAIN commits
  BY <1>1, NamedIsCommit DEF IsNamed
<1>3. CASE n \in R!GivenUp
  BY <1>1, <1>2, <1>3 DEF GoneWith
<1>4. CASE n \notin R!GivenUp
  <2>1. PICK m : IsNamed(m)' /\ n \in R!Reach(m)'
    BY <1>1, <1>4 DEF NamesStay
  <2>2. c \in R!Reach(n)'
    BY <1>1, <1>2 DEF Grown
  <2>3. c \in R!Reach(m)'
    BY <2>1, <2>2, ReachFurther
  <2>4. QED
    BY <2>1, <2>3 DEF OnName
<1>5. QED
  BY <1>3, <1>4

\* What is left to show of a step: where the contents of the file and of the stash are.
LEMMA StillHeld ==
    ASSUME GitInv, GitInv', Moves, NEW p \in GitFiles,
           \A x : \/ x = files[p]
                  \/ \E i \in DOMAIN stash : stash[i].tree[p] # stash[i].base[p] /\ x = stash[i].tree[p]
                  => HeldIn(p, x)' \/ GoneIn(p, x)
    PROVE  R!Held[p] \subseteq R!Held'[p] \cup R!InCommits(R!GivenUp)[p] \cup {None}
<1>1. ASSUME NEW c \in DOMAIN commits, OnName(c), NEW x, x = commits[c].tree[p]
      PROVE  HeldIn(p, x)' \/ GoneIn(p, x)
  <2>1. c \in DOMAIN commits' /\ commits'[c] = commits[c]
    BY DEF Moves, Grown
  <2>2. OnName(c)' \/ GoneWith(c)
    BY <1>1, NamesHold DEF GitInv, Moves
  <2>3. QED
    BY <1>1, <2>1, <2>2 DEF HeldIn, GoneIn
<1>2. ASSUME NEW x, HeldIn(p, x) PROVE HeldIn(p, x)' \/ GoneIn(p, x)
  BY <1>1, <1>2 DEF HeldIn
<1>3. ASSUME NEW x \in R!Held[p] PROVE x \in R!Held'[p] \cup R!InCommits(R!GivenUp)[p]
  BY <1>2, HeldIs DEF GitInv
<1>4. QED
  BY <1>3

\* The content the last commit has.
LEMMA HeadIsHeld ==
    ASSUME GitInv, Moves, NEW p \in GitFiles
    PROVE  \A x : x = R!HeadTree[p] => HeldIn(p, x)' \/ GoneIn(p, x)
<1>1. PICK c : c = R!HEAD
  OBVIOUS
<1>2. c \in DOMAIN commits /\ IsNamed(c) /\ R!HeadTree = commits[c].tree
  BY <1>1, HeadIs DEF GitInv
<1>3. OnName(c)
  BY <1>2, ReachItself DEF OnName
<1>4. OnName(c)' \/ GoneWith(c)
  BY <1>3, NamesHold DEF GitInv, Moves
<1>5. c \in DOMAIN commits' /\ commits'[c] = commits[c]
  BY <1>2 DEF Moves, Grown
<1>6. QED
  BY <1>2, <1>4, <1>5 DEF HeldIn, GoneIn

LEMMA FilesStayKeeps ==
    ASSUME GitInv, GitInv', Moves, FilesStay, UNCHANGED stash, NEW p \in GitFiles
    PROVE  R!Held[p] \subseteq R!Held'[p] \cup R!InCommits(R!GivenUp)[p] \cup {None}
<1>1. \A x : x = files[p] => HeldIn(p, x)' \/ GoneIn(p, x)
  BY HeadIsHeld DEF FilesStay, HeldIn
<1>2. ASSUME NEW i \in DOMAIN stash, stash[i].tree[p] # stash[i].base[p]
      PROVE  \A x : x = stash[i].tree[p] => HeldIn(p, x)'
  BY <1>2 DEF HeldIn
<1>3. QED
  BY <1>1, <1>2, StillHeld

LEMMA PushKeeps ==
    ASSUME GitInv, GitInv', R!StashPush, NEW p \in GitFiles
    PROVE  R!Held[p] \subseteq R!Held'[p] \cup R!InCommits(R!GivenUp)[p] \cup {None}
<1>1. Moves /\ stash' = Append(stash, Pushed) /\ Pushed \in Stashes
      /\ (files'[p] = files[p] \/ (Pushed.tree[p] = files[p] /\ files'[p] = Pushed.base[p]))
  BY PushDoes
<1>2. /\ Len(stash) + 1 \in DOMAIN stash' /\ stash'[Len(stash) + 1] = Pushed
      /\ \A i \in DOMAIN stash : i \in DOMAIN stash' /\ stash'[i] = stash[i]
  BY <1>1 DEF GitInv, GitTypes
<1>3. \A x : x = files[p] => HeldIn(p, x)'
  BY <1>1, <1>2 DEF HeldIn
<1>4. ASSUME NEW i \in DOMAIN stash, stash[i].tree[p] # stash[i].base[p]
      PROVE  \A x : x = stash[i].tree[p] => HeldIn(p, x)'
  BY <1>2, <1>4 DEF HeldIn
<1>5. QED
  BY <1>1, <1>3, <1>4, StillHeld

LEMMA PopKeeps ==
    ASSUME GitInv, GitInv', R!StashPop, NEW p \in GitFiles
    PROVE  R!Held[p] \subseteq R!Held'[p] \cup R!InCommits(R!GivenUp)[p] \cup {None}
<1>1. PICK n, s : n = Len(stash) /\ s = stash[n]
  OBVIOUS
<1>2. /\ Moves /\ FilesStay /\ stash # << >> /\ stash' = R!Front(stash)
      /\ R!Last(stash).tree[p] # R!Last(stash).base[p] => files'[p] = R!Last(stash).tree[p]
  BY PopDoes
<1>3. /\ n \in DOMAIN stash /\ R!Last(stash) = s
      /\ \A i \in DOMAIN stash : i # n => i \in DOMAIN stash' /\ stash'[i] = stash[i]
  BY <1>1, <1>2, FrontIs DEF GitInv
<1>4. \A x : x = files[p] => HeldIn(p, x)' \/ GoneIn(p, x)
  BY <1>2, HeadIsHeld DEF FilesStay, HeldIn
<1>5. ASSUME NEW i \in DOMAIN stash, stash[i].tree[p] # stash[i].base[p]
      PROVE  \A x : x = stash[i].tree[p] => HeldIn(p, x)'
  BY <1>1, <1>2, <1>3, <1>5 DEF HeldIn
<1>6. QED
  BY <1>2, <1>4, <1>5, StillHeld

\* Each action keeps the contents, or is one that does not use git, or drops a stash.
KeptByGit ==
    \/ UNCHANGED R!git
    \/ UNCHANGED <<files, commits, R!refs>> /\ stash' = R!Front(stash)
    \/ \A p \in GitFiles : R!Held[p] \subseteq R!Held'[p] \cup R!InCommits(R!GivenUp)[p] \cup {None}

LEMMA FileStepLeaves == ASSUME FileStep PROVE UNCHANGED R!git
<1>1. ASSUME NEW c \in GitCallers,
             \/ \E p \in GitFiles, old, new \in Words, all \in BOOLEAN : R!EditFile(c, p, old, new, all)
             \/ \E ps \in {<< >>} \cup {<<p>> : p \in GitFiles} \cup {<<p, q>> : p, q \in GitFiles} :
                   R!GitCommit(c, ps)
             \/ R!WriteEdit(c)
      PROVE  UNCHANGED R!git
  <2>1. ASSUME NEW p \in GitFiles, NEW old \in Words, NEW new \in Words, NEW all \in BOOLEAN,
               R!EditFile(c, p, old, new, all)
        PROVE  UNCHANGED R!git
    BY <2>1 DEF R!EditFile
  <2>2. ASSUME NEW ps, R!GitCommit(c, ps) PROVE UNCHANGED R!git
    BY <2>2 DEF R!GitCommit
  <2>3. R!WriteEdit(c) => UNCHANGED R!git
    BY DEF R!WriteEdit
  <2>4. QED
    BY <1>1, <2>1, <2>2, <2>3
<1>2. ASSUME NEW p \in GitFiles, R!DeleteFile(p) \/ \E x \in Texts : R!CreateFile(p, x) \/ R!PatchFile(p, x)
      PROVE  UNCHANGED R!git
  BY <1>2 DEF R!DeleteFile, R!CreateFile, R!PatchFile, R!Put
<1>3. ASSUME NEW ps, R!SwitchPath(ps) PROVE UNCHANGED R!git
  BY <1>3 DEF R!SwitchPath
<1>4. QED
  BY <1>1, <1>2, <1>3 DEF FileStep

LEMMA GitKeeps == ASSUME GitInv, R!Next PROVE KeptByGit
<1>0. GitInv'
  BY GitNext
<1>1. CASE FileStep
  BY <1>1, FileStepLeaves DEF KeptByGit
<1>2. CASE RefStep
  <2>1. Moves /\ FilesStay /\ UNCHANGED stash
    BY <1>2, RefStepDoes DEF FilesStay
  <2>2. QED
    BY <1>0, <2>1, FilesStayKeeps DEF KeptByGit
<1>3. CASE TreeStep
  <2>1. Moves /\ FilesStay /\ UNCHANGED stash
    BY <1>3, TreeStepDoes DEF Lands
  <2>2. QED
    BY <1>0, <2>1, FilesStayKeeps DEF KeptByGit
<1>4. ASSUME NEW c \in GitCallers, R!Add(c) \/ R!Commit(c) PROVE KeptByGit
  <2>1. UNCHANGED <<files, stash>>
    BY <1>4 DEF R!Add, R!Commit
  <2>2. Moves
    <3>1. R!Add(c) => UNCHANGED <<commits, known, R!refs>>
      BY DEF R!Add
    <3>2. QED
      BY <1>4, <3>1, SameRefs, CommitMoves
  <2>3. FilesStay
    BY <2>1 DEF FilesStay
  <2>4. QED
    BY <1>0, <2>1, <2>2, <2>3, FilesStayKeeps DEF KeptByGit
<1>5. CASE R!StashPush \/ R!StashPop
  BY <1>0, <1>5, PushKeeps, PopKeeps DEF KeptByGit
<1>6. CASE R!StashDrop
  BY <1>6 DEF R!StashDrop, KeptByGit
<1>7. QED
  BY <1>1, <1>2, <1>3, <1>4, <1>5, <1>6, StepIs


AskedFor ==
    \A c \in GitCallers :
        pc[c] = "commit" /\ commits' # commits /\ pc'[c] = "idle" /\ c \notin disturbed =>
            \A p \in GitFiles : R!Last(commits').tree[p] = IF p \in job[c].asked THEN files[p] ELSE stageArea[p]

\* A commit of git_commit is of the caller that goes idle; all it was asked for is in
\* the index by then.
LEMMA CommitsAsAsked == ASSUME GitInv, R!Next PROVE AskedFor
<1>1. SUFFICES ASSUME NEW c \in GitCallers, pc[c] = "commit", commits' # commits, pc'[c] = "idle",
                      c \notin disturbed, NEW p \in GitFiles
               PROVE  R!Last(commits').tree[p] = IF p \in job[c].asked THEN files[p] ELSE stageArea[p]
  BY DEF AskedFor
<1>2. PICK d \in GitCallers : R!Commit(d)
  <2>1. ASSUME FileStep PROVE FALSE
    BY <1>1, <2>1, FileStepLeaves DEF R!git
  <2>2. ASSUME RefStep PROVE FALSE
    BY <1>1, <2>2, RefStepDoes
  <2>3. ASSUME TreeStep PROVE FALSE
    BY <1>1, <2>3, TreeStepDoes
  <2>4. ASSUME NEW q, R!Add(q) PROVE FALSE
    BY <1>1, <2>4 DEF R!Add
  <2>5. ~ (R!StashPush \/ R!StashPop \/ R!StashDrop)
    BY <1>1 DEF R!StashPush, R!StashPop, R!StashDrop
  <2>6. QED
    BY <2>1, <2>2, <2>3, <2>4, <2>5, StepIs
<1>3. PICK r : r = [tree |-> stageArea, parents |-> {R!HEAD}]
  OBVIOUS
<1>4. commits' = Append(commits, r) /\ r.tree = stageArea
  BY <1>1, <1>2, <1>3 DEF R!Commit, R!Record
<1>5. R!Last(commits') = r
  <2>1. commits \in Seq(GitCommits)
    BY DEF GitInv, GitTypes, CommitTypes
  <2>2. {R!HEAD} \in SUBSET Nat
    BY HeadIs DEF GitInv
  <2>3. r \in GitCommits
    BY <1>3, <2>2 DEF GitInv, GitTypes, GitCommits
  <2>4. QED
    BY <1>4, <2>1, <2>3 DEF R!Last
<1>6. p \in job[c].asked => stageArea[p] = files[p]
  BY <1>1 DEF GitInv, AddsHold, Added, ToAdd
<1>7. QED
  BY <1>4, <1>5, <1>6

LEMMA ChangesHold == WorkspaceSpec => [](StageInv /\ GitInv)
<1> DEFINE wVariables == <<part, histories, dVars, rVars, hVars, wVars, mVars, bVars, cVars>>
<1>1. WorkspaceInit => StageInv /\ GitInv
  BY StageInit, GitInit DEF WorkspaceInit
<1>2. [WorkspaceNext]_wVariables => (D!Next \/ UNCHANGED dVars) /\ (R!Next \/ UNCHANGED rVars)
  BY DEF WorkspaceNext
<1>3. ASSUME StageInv, UNCHANGED dVars PROVE StageInv'
  BY <1>3 DEF dVars, StageInv, CarriedOut
<1>4. ASSUME GitInv, UNCHANGED rVars PROVE GitInv'
  <2>1. UNCHANGED <<files, stageArea, commits, known, heads, tags, branch, detached, remote, stash,
                    pc, job, disturbed>>
    BY <1>4 DEF rVars
  <2>2. CommitTypes' /\ RefTypes'
    BY <1>4, <2>1 DEF GitInv, GitTypes, CommitTypes, RefTypes, R!HEAD
  <2>3. GitTypes'
    BY <1>4, <2>1, <2>2 DEF GitInv, GitTypes
  <2>4. AddsHold'
    BY <1>4, <2>1 DEF GitInv, AddsHold, Added, ToAdd
  <2>5. QED
    BY <2>3, <2>4 DEF GitInv
<1>5. StageInv /\ GitInv /\ [WorkspaceNext]_wVariables => StageInv' /\ GitInv'
  BY <1>2, <1>3, <1>4, StageNext, GitNext
<1>6. QED
  BY <1>1, <1>5, PTL DEF WorkspaceSpec

\* What is staged is carried out or rejected as a whole; no skill that works with git
\* loses a content of a file or of a commit, but the ones that give up what held it (a
\* stash that is dropped, a tag that is deleted, what a push replaces on the remote, a
\* commit that is left on no branch); and an undisturbed commit has what it was asked
\* for: for any files, contents, requests and numbers of calls
\* (staging.go's Apply and Reject, git/skills.go's handlers).
THEOREM ChangesAreKept == WorkspaceSpec => NoWorkIsLost
<1> DEFINE wVariables == <<part, histories, dVars, rVars, hVars, wVars, mVars, bVars, cVars>>
           DStep == stagedChanges # << >> /\ stagedChanges' = << >> => Settled
<1>1. [WorkspaceNext]_wVariables => (D!Next \/ UNCHANGED dVars) /\ (R!Next \/ UNCHANGED rVars)
  BY DEF WorkspaceNext
<1>2. StageInv /\ [WorkspaceNext]_wVariables => [DStep]_(D!vars)
  BY <1>1, StageSettles DEF dVars, D!vars
<1>3. GitInv /\ [WorkspaceNext]_wVariables => [KeptByGit]_(R!vars) /\ [AskedFor]_(R!vars)
  BY <1>1, GitKeeps, CommitsAsAsked DEF rVars, R!vars, R!git, R!refs
<1>4. /\ [][DStep]_(D!vars) => D!NoChangeIsLost
      /\ [][KeptByGit]_(R!vars) => R!GitKeepsContents
      /\ [][AskedFor]_(R!vars) => R!CommitHoldsWhatWasAsked
  BY PTL DEF D!NoChangeIsLost, R!GitKeepsContents, R!CommitHoldsWhatWasAsked, Settled, KeptByGit, AskedFor
<1>5. QED
  BY <1>2, <1>3, <1>4, ChangesHold, PTL DEF WorkspaceSpec, NoWorkIsLost

-----------------------------------------------------------------------------
(* The stores of the data directory, and the hooks.                         *)

HookFiles == OwnHooks \cup {NoHook, "ours", "cut"}
BakFiles == OwnHooks \cup {NoHook, "cut"}
HooksToKeep == (OwnHooks \ MentionHooks) \cup {NoHook}
HookTypes ==
    /\ hook \in [H!HookNames -> HookFiles] /\ bak \in [H!HookNames -> BakFiles]
    /\ mine \in [H!HookNames -> HooksToKeep] /\ command \in {"install", "uninstall"}
    /\ todo \in Seq(H!HookNames) /\ moved \in BOOLEAN /\ (moved = TRUE => todo # << >>)

\* Somebody's hook in place is the last that was written there; between the look at a
\* hook and the write it is in .bak, if it is to be kept.
HookInv ==
    /\ HookTypes
    /\ \A h \in H!HookNames :
          /\ hook[h] \in OwnHooks \ MentionHooks => mine[h] = hook[h]
          /\ hook[h] = "cut" => h \in lost
          /\ mine[h] # NoHook /\ h \notin lost =>
                mine[h] \in IF moved = TRUE /\ h = Head(todo) THEN {bak[h]} ELSE {hook[h], bak[h]}

LEMMA HookValues ==
    /\ NoHook \in HookFiles /\ "ours" \in HookFiles /\ "cut" \in HookFiles
    /\ NoHook \in BakFiles /\ NoHook \in HooksToKeep /\ NoHook \notin OwnHooks
    /\ NoHook # "ours" /\ NoHook # "cut"
    /\ "ours" \notin OwnHooks /\ "cut" \notin OwnHooks
    /\ \A v \in HookFiles : v \in OwnHooks \/ v = NoHook \/ v = "ours" \/ v = "cut"
    /\ \A v \in HookFiles : v # "ours" => v \in BakFiles
    /\ \A v \in OwnHooks : v \in HookFiles /\ (v \notin MentionHooks => v \in HooksToKeep)
    /\ \A v \in HooksToKeep : v # NoHook => v \in OwnHooks /\ v \notin MentionHooks
    /\ MentionHooks \subseteq OwnHooks
BY ChangesAssumption DEF H!GitHooksAssumption, HookFiles, BakFiles, HooksToKeep

LEMMA HookInit == H!Init => HookInv
<1> SUFFICES ASSUME H!Init PROVE HookInv
  OBVIOUS
<1>1. HookTypes
  <2>0. command \in {"install", "uninstall"}
    BY DEF H!Init
  <2>1. hook \in [H!HookNames -> HookFiles] /\ bak \in [H!HookNames -> BakFiles] /\ mine \in [H!HookNames -> HooksToKeep]
    BY HookValues DEF H!Init
  <2>2. todo \in Seq(H!HookNames)
    BY DEF H!Init
  <2>3. moved \in BOOLEAN /\ (moved = TRUE => todo # << >>)
    BY DEF H!Init
  <2>4. QED
    BY <2>0, <2>1, <2>2, <2>3 DEF HookTypes
<1>2. \A h \in H!HookNames : hook[h] = NoHook /\ mine[h] = NoHook
  BY DEF H!Init
<1>3. QED
  BY <1>1, <1>2, HookValues DEF HookInv

LEMMA BackupInv == ASSUME HookInv, H!Backup PROVE HookInv'
<1> DEFINE h == Head(todo)
<1>1. h \in H!HookNames /\ moved' = TRUE /\ moved = FALSE /\ UNCHANGED <<command, todo, mine>> /\ todo # << >>
  BY DEF HookInv, HookTypes, H!Backup, H!Idle
<1> HIDE DEF h
<1>2. CASE hook[h] # NoHook /\ ~H!Ours(h) /\ h \notin lost'
  <2>1. bak' = [bak EXCEPT ![h] = hook[h]] /\ hook' = [hook EXCEPT ![h] = NoHook] /\ UNCHANGED lost
    BY <1>2 DEF H!Backup, h
  <2>2. hook[h] \in OwnHooks \ MentionHooks
    <3>1. hook[h] \in HookFiles /\ hook[h] # "cut"
      BY <1>1, <1>2, <2>1 DEF HookInv, HookTypes
    <3>2. QED
      BY <1>2, <3>1, HookValues DEF H!Ours
  <2>3. h = Head(todo)
    BY DEF h
  <2>4. QED
    BY <1>1, <2>1, <2>2, <2>3, HookValues DEF HookInv, HookTypes
<1>3. CASE h \in lost' /\ UNCHANGED <<hook, bak>> /\ lost' = lost \cup {h}
  <2>1. h = Head(todo)
    BY DEF h
  <2>2. QED
    BY <1>1, <1>3, <2>1 DEF HookInv, HookTypes
<1>4. CASE (hook[h] = NoHook \/ H!Ours(h)) /\ UNCHANGED <<hook, bak, lost>>
  <2>1. h = Head(todo)
    BY DEF h
  <2>2. hook[h] # mine[h] \/ mine[h] = NoHook
    BY <1>1, <1>4, HookValues DEF HookInv, HookTypes, H!Ours
  <2>3. QED
    BY <1>1, <1>4, <2>1, <2>2 DEF HookInv, HookTypes
<1>5. CASE h \in lost' /\ bak' = [bak EXCEPT ![h] = hook[h]] /\ hook' = [hook EXCEPT ![h] = NoHook] /\ UNCHANGED lost
           /\ hook[h] # NoHook /\ ~H!Ours(h)
  <2>1. h = Head(todo)
    BY DEF h
  <2>2. QED
    BY <1>1, <1>5, <2>1, HookValues DEF HookInv, HookTypes, H!Ours
<1>6. QED
  BY <1>2, <1>3, <1>4, <1>5 DEF H!Backup, h

LEMMA WriteHookInv == ASSUME HookInv, H!writeHook PROVE HookInv'
<1> DEFINE h == Head(todo)
<1>1. h \in H!HookNames /\ moved = TRUE /\ moved' = FALSE /\ UNCHANGED <<bak, command, mine>>
      /\ todo' \in Seq(H!HookNames)
  <2>1. moved = TRUE /\ moved' = FALSE /\ UNCHANGED <<bak, command, mine>>
    BY DEF HookInv, HookTypes, H!writeHook
  <2>2. todo \in Seq(H!HookNames) /\ todo # << >>
    BY <2>1 DEF HookInv, HookTypes
  <2>3. todo' = Tail(todo) \/ todo' = << >>
    BY DEF H!writeHook
  <2>4. todo' \in Seq(H!HookNames)
    <3>1. CASE todo' = Tail(todo)
      BY <2>2, <3>1
    <3>2. CASE todo' = << >>
      BY <3>2
    <3>3. QED
      BY <2>3, <3>1, <3>2
  <2>5. h \in H!HookNames
    BY <2>2
  <2>6. QED
    BY <2>1, <2>4, <2>5, Zenon
<1>2. h = Head(todo)
  OBVIOUS
<1> HIDE DEF h
<1>3. CASE hook' = [hook EXCEPT ![h] = "ours"] /\ UNCHANGED lost
  <2>1. HookTypes'
    BY <1>1, <1>3, HookValues DEF HookInv, HookTypes
  <2>2. "ours" \notin OwnHooks /\ hook'[h] = "ours" /\ \A g \in H!HookNames : g # h => hook'[g] = hook[g]
    BY <1>1, <1>3, HookValues DEF HookInv, HookTypes
  <2>3. QED
    BY <1>1, <1>2, <1>3, <2>1, <2>2 DEF HookInv
<1>4. CASE UNCHANGED <<hook, lost>>
  BY <1>1, <1>2, <1>4 DEF HookInv, HookTypes
<1>5. CASE hook' = [hook EXCEPT ![h] = "cut"] /\ lost' = lost \cup {h}
  BY <1>1, <1>2, <1>5, HookValues DEF HookInv, HookTypes
<1>6. QED
  BY <1>3, <1>4, <1>5 DEF H!writeHook, h

\* What uninstall finds to be the program's is not the hook to keep, which is in .bak.
LEMMA LookInv == ASSUME HookInv, H!Look PROVE HookInv'
<1>1. /\ UNCHANGED <<hook, bak, command, mine, lost>> /\ moved = FALSE /\ todo # << >>
      /\ todo \in Seq(H!HookNames)
  BY DEF H!Look, H!Idle, HookInv, HookTypes
<1>2. CASE H!Ours(Head(todo)) /\ moved' = TRUE /\ UNCHANGED todo
  <2>1. PICK h \in H!HookNames : h = Head(todo)
    BY <1>1
  <2>2. hook[h] # mine[h] \/ mine[h] = NoHook
    BY <1>2, <2>1, HookValues DEF HookInv, HookTypes, H!Ours
  <2>3. QED
    BY <1>1, <1>2, <2>1, <2>2 DEF HookInv, HookTypes
<1>3. CASE todo' = Tail(todo) /\ UNCHANGED moved
  <2>1. todo' \in Seq(H!HookNames)
    BY <1>1, <1>3
  <2>2. QED
    BY <1>1, <1>3, <2>1 DEF HookInv, HookTypes
<1>4. QED
  BY <1>2, <1>3 DEF H!Look

LEMMA TakeAwayInv == ASSUME HookInv, H!TakeAway PROVE HookInv'
<1>1. /\ UNCHANGED <<bak, command, mine, lost>> /\ moved = TRUE /\ moved' = FALSE /\ todo # << >>
      /\ todo \in Seq(H!HookNames) /\ todo' = Tail(todo)
  BY DEF H!TakeAway, HookInv, HookTypes
<1>2. PICK h \in H!HookNames : h = Head(todo)
  BY <1>1
<1>3. todo' \in Seq(H!HookNames)
  BY <1>1
<1>4. hook' = hook \/ hook' = [hook EXCEPT ![h] = NoHook]
  BY <1>2 DEF H!TakeAway
<1>5. HookTypes'
  BY <1>1, <1>3, <1>4, HookValues DEF HookInv, HookTypes
<1>6. QED
  BY <1>1, <1>2, <1>4, <1>5, HookValues DEF HookInv, HookTypes

LEMMA HookNext == ASSUME HookInv, H!Next PROVE HookInv'
<1>1. ASSUME NEW h \in H!HookNames, NEW v \in OwnHooks, H!Write(h, v) PROVE HookInv'
  <2>1. /\ hook' = [hook EXCEPT ![h] = v] /\ mine' = [mine EXCEPT ![h] = IF v \in MentionHooks THEN NoHook ELSE v]
        /\ UNCHANGED <<bak, command, todo, moved>>
        /\ lost' = IF moved /\ h = Head(todo) THEN lost \cup {h} ELSE lost \ {h}
    BY <1>1 DEF H!Write
  <2>2. HookTypes'
    BY <2>1, HookValues DEF HookInv, HookTypes
  <2>3. /\ hook'[h] = v /\ mine'[h] = (IF v \in MentionHooks THEN NoHook ELSE v) /\ v \notin {NoHook, "ours", "cut"}
        /\ \A g \in H!HookNames : g # h => hook'[g] = hook[g] /\ mine'[g] = mine[g] /\ (g \in lost' <=> g \in lost)
    BY <2>1, HookValues DEF HookInv, HookTypes
  <2>4. ASSUME moved, h = Head(todo) PROVE h \in lost'
    BY <2>1, <2>4
  <2>5. ASSUME NEW g \in H!HookNames, g # h
        PROVE  /\ hook'[g] \in OwnHooks \ MentionHooks => mine'[g] = hook'[g]
               /\ hook'[g] = "cut" => g \in lost'
               /\ mine'[g] # NoHook /\ g \notin lost' =>
                     mine'[g] \in IF moved' = TRUE /\ g = Head(todo') THEN {bak'[g]} ELSE {hook'[g], bak'[g]}
    BY <2>1, <2>3, <2>5 DEF HookInv
  <2>6. /\ hook'[h] \in OwnHooks \ MentionHooks => mine'[h] = hook'[h]
        /\ hook'[h] # "cut"
        /\ mine'[h] # NoHook => mine'[h] = hook'[h]
    BY <2>3
  <2>7. mine'[h] # NoHook /\ h \notin lost' =>
           mine'[h] \in IF moved' = TRUE /\ h = Head(todo') THEN {bak'[h]} ELSE {hook'[h], bak'[h]}
    BY <2>1, <2>4, <2>6
  <2>8. QED
    BY <2>2, <2>5, <2>6, <2>7 DEF HookInv
<1>2. CASE H!Install \/ H!Uninstall
  <2>1. /\ moved = FALSE /\ todo' = HookOrder /\ UNCHANGED <<hook, bak, moved, mine, lost>>
        /\ command' \in {"install", "uninstall"}
    BY <1>2 DEF H!Install, H!Uninstall, H!Begin, H!Idle, HookInv, HookTypes
  <2>2. HookOrder \in Seq(H!HookNames)
    BY ChangesAssumption DEF H!GitHooksAssumption, H!HookNames
  <2>3. QED
    BY <2>1, <2>2 DEF HookInv, HookTypes
<1>3. CASE H!Look \/ H!TakeAway
  BY <1>3, LookInv, TakeAwayInv
<1>4. CASE H!Die
  <2>1. todo' = << >> /\ moved' = FALSE /\ UNCHANGED <<hook, bak, command, mine, lost>>
    BY <1>4 DEF H!Die
  <2>2. todo' \in Seq(H!HookNames)
    BY <2>1
  <2>3. HookTypes'
    BY <2>1, <2>2, Zenon DEF HookInv, HookTypes
  <2>4. QED
    BY <2>1, <2>3 DEF HookInv
<1>5. QED
  BY <1>1, <1>2, <1>3, <1>4, BackupInv, WriteHookInv DEF H!Next

LEMMA HooksKept == HookInv => H!OwnHookIsKept
BY HookValues DEF HookInv, HookTypes, H!OwnHookIsKept, H!Status, H!Ours

Entries == W!Entry
CachedOrNone == Entries \cup {None}
CacheFiles == Entries \cup {None, Torn}

\* What is in memory is what is in the file, both of them the latest, where files could
\* be written.
CacheTypes ==
    /\ time \in 0..MaxClock /\ latest \in [Searches -> SUBSET CachedOrNone]
    /\ entries \in [Searches -> CachedOrNone] /\ entryFiles \in [Searches -> CacheFiles]
KeptAsLatest(k) ==
    /\ entries[k] # None => entries[k] = entryFiles[k] /\ entries[k] \in latest[k]
    /\ entryFiles[k] \notin {None, Torn} => entries[k] \in {entryFiles[k], None} /\ entryFiles[k] \in latest[k]
CacheInv == CacheTypes /\ \A k \in Searches : k \notin unsaved => KeptAsLatest(k)

LEMMA EntryValues ==
    /\ None \in CachedOrNone /\ None \in CacheFiles /\ Torn \in CacheFiles /\ None # Torn
    /\ \A e \in Entries : e \in CachedOrNone /\ e \in CacheFiles /\ e \notin {None, Torn}
    /\ \A e \in CachedOrNone : e # None => e \in Entries
    /\ \A e \in CacheFiles : e \notin {None, Torn} => e \in Entries
    /\ \A e \in Entries : e.expiresAt \in Nat
    /\ MaxClock \in Nat /\ Lifetime \in Nat
<1>1. MaxClock \in Nat /\ Lifetime \in Nat /\ Given \subseteq Nat
  BY StoresAssumption DEF W!CacheAssumption
<1>2. None \notin Entries /\ Torn \notin Entries /\ None # Torn
  BY StoresAssumption, Zenon DEF W!CacheAssumption, Entries
<1>3. \A e \in Entries : e.expiresAt \in Nat
  <2>1. \A e \in Entries : e.expiresAt \in (0..(MaxClock + Lifetime)) \cup Given
    BY DEF Entries, W!Entry
  <2>2. \A x \in 0..(MaxClock + Lifetime) : x \in Nat
    BY <1>1
  <2>3. (0..(MaxClock + Lifetime)) \cup Given \subseteq Nat
    BY <1>1, <2>2
  <2>4. QED
    BY <2>1, <2>3
<1>4. QED
  BY <1>1, <1>2, <1>3 DEF CachedOrNone, CacheFiles

LEMMA NewEntry ==
    ASSUME CacheTypes, NEW r \in Results, NEW until \in W!Expiries
    PROVE  W!New(r, until) \in Entries
<1>1. time \in 0..MaxClock /\ until \in (0..(MaxClock + Lifetime)) \cup Given
  BY EntryValues DEF CacheTypes, W!Expiries
<1>2. QED
  BY <1>1 DEF Entries, W!Entry, W!New

LEMMA CacheInit == W!Init => CacheInv
<1> SUFFICES ASSUME W!Init PROVE CacheInv
  OBVIOUS
<1>1. /\ time = 0 /\ entries = [k \in Searches |-> None] /\ entryFiles = [k \in Searches |-> None]
      /\ latest = [k \in Searches |-> {None}]
  BY DEF W!Init, W!Nothing
<1>2. CacheTypes
  BY <1>1, EntryValues DEF CacheTypes
<1>3. QED
  BY <1>1, <1>2 DEF CacheInv, KeptAsLatest

LEMMA SetInv ==
    ASSUME CacheInv, NEW k \in Searches, NEW r \in Results, NEW until \in W!Expiries, W!Set(k, r, until)
    PROVE  CacheInv'
<1>1. PICK e : e = W!New(r, until)
  OBVIOUS
<1>2. PICK out, removed :
                 LET left == [o \in Searches |-> IF o = out /\ removed THEN None ELSE entryFiles[o]]
                 IN /\ entries' = [o \in Searches |-> IF o = out THEN None ELSE [entries EXCEPT ![k] = e][o]]
                    /\ latest' = [latest EXCEPT ![k] = {e}]
                    /\ \/ entryFiles' = [left EXCEPT ![k] = e] /\ unsaved' = unsaved \ {k}
                       \/ entryFiles' \in {left, [left EXCEPT ![k] = Torn]} /\ unsaved' = unsaved \cup {k}
                    /\ time' = time
  BY <1>1 DEF W!Set
<1>3. e \in Entries
  BY <1>1, NewEntry DEF CacheInv
<1> DEFINE left == [o \in Searches |-> IF o = out /\ removed THEN None ELSE entryFiles[o]]
<1>4. left \in [Searches -> CacheFiles]
  BY EntryValues DEF CacheInv, CacheTypes
<1>5. CacheTypes'
  <2>1. entries' \in [Searches -> CachedOrNone]
    BY <1>2, <1>3, EntryValues DEF CacheInv, CacheTypes
  <2>2. latest' \in [Searches -> SUBSET CachedOrNone]
    <3>1. {e} \in SUBSET CachedOrNone
      BY <1>3, EntryValues
    <3>2. QED
      BY <1>2, <3>1 DEF CacheInv, CacheTypes
  <2>3. entryFiles' \in [Searches -> CacheFiles]
    BY <1>2, <1>3, <1>4, EntryValues
  <2>4. QED
    BY <1>2, <2>1, <2>2, <2>3 DEF CacheInv, CacheTypes
<1>6. ASSUME NEW o \in Searches, o # k, o \notin unsaved' PROVE KeptAsLatest(o)'
  <2>1. /\ o \notin unsaved /\ latest'[o] = latest[o]
        /\ entries'[o] = (IF o = out THEN None ELSE entries[o])
        /\ entryFiles'[o] = (IF o = out /\ removed THEN None ELSE entryFiles[o])
    BY <1>2, <1>6 DEF CacheInv, CacheTypes
  <2>2. QED
    BY <2>1 DEF CacheInv, KeptAsLatest
<1>7. ASSUME k \notin unsaved' PROVE KeptAsLatest(k)'
  <2>1. entryFiles'[k] = e /\ latest'[k] = {e} /\ entries'[k] \in {e, None}
    BY <1>2, <1>4, <1>7 DEF CacheInv, CacheTypes
  <2>2. QED
    BY <2>1 DEF KeptAsLatest
<1>8. QED
  BY <1>5, <1>6, <1>7 DEF CacheInv

LEMMA ReloadInv == ASSUME CacheInv, W!Restart PROVE CacheInv'
<1>1. /\ time' = time /\ unsaved' = unsaved
      /\ entries' = [k \in Searches |-> IF entryFiles'[k] = Torn THEN None ELSE entryFiles'[k]]
  BY DEF W!Restart, W!Loaded
<1>2. /\ entryFiles' \in [Searches -> CacheFiles] /\ latest' \in [Searches -> SUBSET CachedOrNone]
      /\ \A o \in Searches : (entryFiles[o] \notin {None, Torn} /\ o \notin unsaved => entryFiles[o] \in latest[o])
            /\ o \notin unsaved /\ entryFiles'[o] \notin {None, Torn} => entryFiles'[o] \in latest'[o]
  <2> DEFINE Clearing ==
           \E ks \in SUBSET Searches :
              /\ entryFiles' = [k \in Searches |-> IF k \in ks THEN None ELSE entryFiles[k]]
              /\ latest' = [k \in Searches |-> IF entryFiles'[k] = entryFiles[k] THEN latest[k]
                                              ELSE latest[k] \cup {None}]
  <2>1. CASE Clearing
    <3>1. PICK ks \in SUBSET Searches :
              /\ entryFiles' = [k \in Searches |-> IF k \in ks THEN None ELSE entryFiles[k]]
              /\ latest' = [k \in Searches |-> IF entryFiles'[k] = entryFiles[k] THEN latest[k]
                                              ELSE latest[k] \cup {None}]
      BY <2>1
    <3>2. entryFiles' \in [Searches -> CacheFiles]
      BY <3>1, EntryValues DEF CacheInv, CacheTypes
    <3>3. \A k \in Searches : latest'[k] \in SUBSET CachedOrNone /\ latest[k] \subseteq latest'[k]
      BY <3>1, EntryValues DEF CacheInv, CacheTypes
    <3>4. latest' \in [Searches -> SUBSET CachedOrNone]
      BY <3>1, <3>3
    <3>5. \A o \in Searches : entryFiles'[o] \in {None, entryFiles[o]}
      BY <3>1
    <3>6. QED
      BY <3>2, <3>3, <3>4, <3>5 DEF CacheInv, KeptAsLatest
  <2>2. CASE ~ Clearing
    <3>1. PICK k \in Searches, r \in Results, until \in W!Expiries :
             \E out \in W!Evictions([entries EXCEPT ![k] = W!New(r, until)]), removed \in BOOLEAN,
                   written \in {entryFiles[k], Torn, W!New(r, until)} :
                  /\ entryFiles' = [o \in Searches |->
                        IF o = k /\ written # entryFiles[k] THEN written
                        ELSE IF o = out /\ removed THEN None ELSE entryFiles[o]]
                  /\ latest' = [latest EXCEPT ![k] = latest[k] \cup {W!New(r, until), None}]
      BY <2>2 DEF W!Restart, W!Without
    <3>2. PICK e : e = W!New(r, until)
      OBVIOUS
    <3>3a. PICK out \in W!Evictions([entries EXCEPT ![k] = W!New(r, until)]), removed \in BOOLEAN,
                   written \in {entryFiles[k], Torn, W!New(r, until)} :
                  /\ entryFiles' = [o \in Searches |->
                        IF o = k /\ written # entryFiles[k] THEN written
                        ELSE IF o = out /\ removed THEN None ELSE entryFiles[o]]
                  /\ latest' = [latest EXCEPT ![k] = latest[k] \cup {W!New(r, until), None}]
      BY <3>1
    <3>3. /\ written \in {entryFiles[k], Torn, e}
          /\ entryFiles' = [o \in Searches |->
                IF o = k /\ written # entryFiles[k] THEN written
                ELSE IF o = out /\ removed THEN None ELSE entryFiles[o]]
          /\ latest' = [latest EXCEPT ![k] = latest[k] \cup {e, None}]
      BY <3>3a, <3>2
    <3>4. e \in Entries
      BY <3>2, NewEntry DEF CacheInv
    <3>5. entryFiles' \in [Searches -> CacheFiles]
      BY <3>3, <3>4, EntryValues DEF CacheInv, CacheTypes
    <3>6. latest[k] \cup {e, None} \in SUBSET CachedOrNone
      BY <3>4, EntryValues DEF CacheInv, CacheTypes
    <3>7. /\ latest' \in [Searches -> SUBSET CachedOrNone] /\ latest'[k] = latest[k] \cup {e, None}
          /\ \A o \in Searches : o # k => latest'[o] = latest[o]
      BY <3>3, <3>6 DEF CacheInv, CacheTypes
    <3>8. \A o \in Searches :
             \/ entryFiles'[o] \in {None, Torn}
             \/ entryFiles'[o] = entryFiles[o]
             \/ o = k /\ entryFiles'[o] = e
      BY <3>3
    <3>9. ASSUME NEW o \in Searches PROVE latest[o] \subseteq latest'[o] /\ e \in latest'[k]
      BY <3>7
    <3>10. ASSUME NEW o \in Searches, entryFiles[o] \notin {None, Torn}, o \notin unsaved
           PROVE  entryFiles[o] \in latest[o]
      BY <3>10 DEF CacheInv, KeptAsLatest
    <3>11. ASSUME NEW o \in Searches, o \notin unsaved, entryFiles'[o] \notin {None, Torn}
           PROVE  entryFiles'[o] \in latest'[o]
      <4>1. CASE entryFiles'[o] = entryFiles[o]
        BY <3>9, <3>10, <3>11, <4>1
      <4>2. CASE o = k /\ entryFiles'[o] = e
        BY <3>9, <4>2
      <4>3. QED
        BY <3>8, <3>11, <4>1, <4>2
    <3>12. QED
      BY <3>5, <3>7, <3>10, <3>11
  <2>3. QED
    BY <2>1, <2>2
<1>3. CacheTypes'
  BY <1>1, <1>2, EntryValues DEF CacheInv, CacheTypes
<1>4. ASSUME NEW k \in Searches, k \notin unsaved' PROVE KeptAsLatest(k)'
  BY <1>1, <1>2, <1>4 DEF CacheInv, KeptAsLatest
<1>5. QED
  BY <1>3, <1>4 DEF CacheInv

LEMMA CacheNext == ASSUME CacheInv, W!Next PROVE CacheInv'
<1>1. CASE W!Tick
  <2>1. time' \in 0..MaxClock /\ UNCHANGED <<entries, entryFiles, latest, unsaved>>
    BY <1>1, EntryValues DEF W!Tick, CacheInv, CacheTypes
  <2>2. QED
    BY <2>1 DEF CacheInv, CacheTypes, KeptAsLatest
<1>2. CASE W!Clear
  <2>1. /\ time' = time /\ entries' = [k \in Searches |-> None]
        /\ latest' = [k \in Searches |-> {None}] /\ unsaved' = {k \in Searches : entryFiles'[k] # None}
    BY <1>2 DEF W!Clear, W!Nothing
  <2>2. PICK ks \in SUBSET Searches :
           entryFiles' = [k \in Searches |-> IF k \in ks THEN None ELSE entryFiles[k]]
    BY <1>2 DEF W!Clear, W!Without
  <2>3. CacheTypes'
    BY <2>1, <2>2, EntryValues DEF CacheInv, CacheTypes
  <2>4. QED
    BY <2>1, <2>3 DEF CacheInv, KeptAsLatest
<1>3. QED
  BY <1>1, <1>2, SetInv, ReloadInv DEF W!Next

LEMMA LatestIsServed == CacheInv => W!ServesTheLatest
<1> SUFFICES ASSUME CacheInv, NEW k \in Searches
             PROVE  /\ W!Get(k) # None /\ k \notin unsaved =>
                          \E e \in latest[k] : e # None /\ W!Get(k) = e /\ time <= e.expiresAt
                    /\ k \notin unsaved =>
                          /\ entryFiles[k] \notin {None, Torn} => entries[k] = entryFiles[k] \/ entries[k] = None
                          /\ entries[k] # None => entries[k] = entryFiles[k]
  BY DEF W!ServesTheLatest
<1>1. W!Get(k) # None => /\ W!Get(k) = entries[k] /\ entries[k] \in Entries
                         /\ ~ (time > entries[k].expiresAt)
  BY EntryValues DEF W!Get, W!Expired, CacheInv, CacheTypes
<1>2. W!Get(k) # None => time <= W!Get(k).expiresAt
  <2>1. time \in Nat
    BY EntryValues DEF CacheInv, CacheTypes
  <2>2. QED
    BY <1>1, <2>1, EntryValues
<1>3. QED
  BY <1>1, <1>2 DEF CacheInv, KeptAsLatest

\* What was saved for good is in the file, as it was saved.
IndexTypes ==
    /\ sessionIndex \in [Sessions -> Nat] \cup {Missing, Torn}
    /\ kept \in [Sessions -> Nat] /\ date \in Nat
    /\ saves \in [Writers -> Sessions] /\ read \in [Writers -> [Sessions -> Nat]]
IndexInv ==
    /\ IndexTypes
    /\ \A s \in Sessions : kept[s] > 0 => C!ListSessions[s] = kept[s]

LEMMA Listed ==
    ASSUME IndexTypes
    PROVE  C!ListSessions \in [Sessions -> Nat]
BY DEF C!ListSessions, C!NoList, IndexTypes

LEMMA IndexInit == C!Init => IndexInv
BY DEF C!Init, C!NoList, IndexInv, IndexTypes

LEMMA SaveInv == ASSUME IndexInv, NEW w \in Writers, C!SaveSessionIndex(w) PROVE IndexInv'
<1>1. saves' \in [Writers -> Sessions] /\ date' \in Nat /\ read' = read
  BY DEF C!SaveSessionIndex, IndexInv, IndexTypes
<1>2. PICK new : new = C!Updated(w)
  OBVIOUS
<1>3. /\ new \in [Sessions -> Nat] /\ new[saves[w]] = date + 1 /\ saves[w] \in Sessions
      /\ \A s \in Sessions : s # saves[w] => new[s] = read[w][s]
  BY <1>2 DEF C!Updated, IndexInv, IndexTypes
<1>4. CASE UNCHANGED <<sessionIndex, kept>>
  BY <1>1, <1>4 DEF IndexInv, IndexTypes, C!ListSessions
<1>5. CASE /\ sessionIndex' = new
           /\ kept' = [s \in Sessions |-> IF s = saves[w] THEN date + 1
                                          ELSE IF C!ListSessions[s] = read[w][s] THEN kept[s] ELSE 0]
  <2>1. C!ListSessions' = new
    BY <1>3, <1>5, StoresAssumption DEF C!ListSessions, C!ConversationsAssumption
  <2>2. IndexTypes'
    BY <1>1, <1>3, <1>5 DEF IndexInv, IndexTypes
  <2>3. ASSUME NEW s \in Sessions, kept'[s] > 0 PROVE new[s] = kept'[s]
    <3>1. s # saves[w] => C!ListSessions[s] = read[w][s] /\ kept'[s] = kept[s]
      BY <1>5, <2>3
    <3>2. s = saves[w] => kept'[s] = date + 1
      BY <1>5
    <3>3. QED
      BY <1>3, <2>3, <3>1, <3>2 DEF IndexInv
  <2>4. QED
    BY <2>1, <2>2, <2>3 DEF IndexInv
<1>6. QED
  BY <1>2, <1>4, <1>5 DEF C!SaveSessionIndex

LEMMA IndexNext == ASSUME IndexInv, C!IndexNext PROVE IndexInv'
<1>1. ASSUME NEW w \in Writers, C!ReadIndex(w) PROVE IndexInv'
  <2>1. /\ read' = [read EXCEPT ![w] = C!ListSessions]
        /\ UNCHANGED <<sessionIndex, saves, kept, date>>
    BY <1>1 DEF C!ReadIndex
  <2>2. C!ListSessions' = C!ListSessions
    BY <2>1 DEF C!ListSessions
  <2>3. read' \in [Writers -> [Sessions -> Nat]]
    BY <2>1, Listed DEF IndexInv, IndexTypes
  <2>4. QED
    BY <2>1, <2>2, <2>3 DEF IndexInv, IndexTypes
<1>2. CASE C!Cut
  BY <1>2 DEF C!Cut, C!NoList, IndexInv, IndexTypes
<1>3. QED
  BY <1>1, <1>2, SaveInv DEF C!IndexNext

LEMMA SavesAreIndexed == IndexInv => C!IndexKeeps
<1> SUFFICES ASSUME IndexInv, NEW s \in C!GetLastSession(C!ListSessions), kept # C!NoList,
                    \A o \in Sessions : kept[o] = C!ListSessions[o]
             PROVE  kept[s] = C!Max(C!Range(kept))
  BY DEF C!IndexKeeps, IndexInv
<1>1. s \in Sessions /\ \A o \in Sessions : kept[o] <= kept[s]
  BY DEF C!GetLastSession
<1>2. \A o \in Sessions : kept[o] \in Nat
  BY DEF IndexInv, IndexTypes
<1>3. C!Range(kept) = {kept[o] : o \in Sessions}
  BY DEF C!Range, IndexInv, IndexTypes
<1>4. kept[s] \in C!Range(kept) /\ \A x \in C!Range(kept) : x \in Nat /\ kept[s] >= x
  BY <1>1, <1>2, <1>3
<1>5. C!Max(C!Range(kept)) \in C!Range(kept) /\ \A x \in C!Range(kept) : C!Max(C!Range(kept)) >= x
  BY <1>4 DEF C!Max
<1>6. QED
  BY <1>4, <1>5

LEMMA Appended ==
    ASSUME NEW S, NEW s \in Seq(S), NEW e \in S
    PROVE  /\ Append(s, e) \in Seq(S) /\ Len(s) \in Nat /\ Len(Append(s, e)) = Len(s) + 1
           /\ Append(s, e)[Len(s) + 1] = e /\ \A i \in 1..Len(s) : Append(s, e)[i] = s[i]
OBVIOUS

\* Each node continues the messages of its parent, which came before it.
LineTo(n) == IF n = 0 THEN << >> ELSE line[n]
Continues(n) == parent[n] \in 0..(n - 1) /\ line[n] = LineTo(parent[n]) \o <<n>>
TreeInv ==
    /\ parent \in Seq(Nat) /\ line \in Seq(Seq(Nat)) /\ Len(line) = Len(parent)
    /\ current \in 0..Len(parent)
    /\ \A n \in 1..Len(parent) : Continues(n)

LEMMA TreeInit == C!Init => TreeInv
BY DEF C!Init, TreeInv

LEMMA TreeNext == ASSUME TreeInv, C!TreeNext PROVE TreeInv'
<1>1. CASE C!AddMessage
  <2>1. PICK size, entry : size = Len(parent) /\ entry = LineTo(current) \o <<size + 1>>
    OBVIOUS
  <2>2. /\ parent' = Append(parent, current) /\ line' = Append(line, entry)
        /\ current' = size + 1 /\ size \in Nat /\ current \in 0..size /\ Len(line) = size
    BY <1>1, <2>1 DEF C!AddMessage, LineTo, TreeInv
  <2>3. LineTo(current) \in Seq(Nat)
    BY <2>1 DEF TreeInv, LineTo
  <2>4. entry \in Seq(Nat)
    <3>1. <<size + 1>> \in Seq(Nat)
      BY <2>2
    <3>2. QED
      BY <2>1, <2>3, <3>1
  <2>5. /\ parent' \in Seq(Nat) /\ Len(parent') = size + 1
        /\ parent'[size + 1] = current /\ \A n \in 1..size : parent'[n] = parent[n]
    BY <2>1, <2>2, Appended DEF TreeInv
  <2>6. /\ line' \in Seq(Seq(Nat)) /\ Len(line') = size + 1
        /\ line'[size + 1] = entry /\ \A n \in 1..size : line'[n] = line[n]
    <3>1. line \in Seq(Seq(Nat)) /\ line' = Append(line, entry) /\ Len(line) = size
      BY <2>1, <2>2 DEF TreeInv
    <3>2. QED
      BY <2>4, <3>1, Appended
  <2>7. ASSUME NEW m \in 0..size PROVE LineTo(m)' = LineTo(m)
    BY <2>2, <2>6, <2>7 DEF LineTo
  <2>8. ASSUME NEW n \in 1..size PROVE Continues(n)'
    <3>1. parent[n] \in 0..(n - 1) /\ line[n] = LineTo(parent[n]) \o <<n>> /\ parent[n] \in 0..size
      <4>1. Continues(n) /\ n \in Nat /\ size \in Nat /\ n <= size
        BY <2>1, <2>2, <2>8 DEF TreeInv
      <4>2. QED
        BY <4>1 DEF Continues
    <3>2. parent'[n] = parent[n] /\ line'[n] = line[n]
      BY <2>5, <2>6, <2>8
    <3>3. (IF parent'[n] = 0 THEN << >> ELSE line'[parent'[n]]) = LineTo(parent[n])
      BY <2>6, <3>1, <3>2 DEF LineTo
    <3>4. QED
      BY <3>1, <3>2, <3>3 DEF Continues, LineTo
  <2>9. Continues(size + 1)'
    <3>1. \A n : n = size + 1 => Continues(n)'
      <4>1. SUFFICES ASSUME NEW n, n = size + 1 PROVE Continues(n)'
        OBVIOUS
      <4>2. parent'[n] = current /\ line'[n] = LineTo(current) \o <<n>> /\ current \in 0..(n - 1)
        BY <2>1, <2>2, <2>5, <2>6, <4>1
      <4>3. (IF current = 0 THEN << >> ELSE line'[current]) = LineTo(current)
        BY <2>2, <2>6 DEF LineTo
      <4>4. QED
        BY <4>2, <4>3 DEF Continues, LineTo
    <3>2. QED
      BY <3>1
  <2>10. \A n \in 1..Len(parent') : n \in 1..size \/ n = size + 1
    BY <2>2, <2>5
  <2>11. \A n \in 1..Len(parent') : Continues(n)'
    BY <2>8, <2>9, <2>10
  <2>12. QED
    BY <2>2, <2>5, <2>6, <2>11 DEF TreeInv
<1>2. ASSUME NEW n \in {0} \cup C!Nodes, C!Moved(n) PROVE TreeInv'
  <2>1. C!Nodes = 1..Len(parent)
    BY DEF C!Nodes, TreeInv
  <2>2. n \in 0..Len(parent) /\ current' = n /\ UNCHANGED <<parent, line>>
    BY <1>2, <2>1 DEF C!Moved, TreeInv
  <2>3. QED
    BY <2>2 DEF TreeInv, Continues, LineTo
<1>3. C!Siblings \subseteq C!Nodes
  BY DEF C!Siblings
<1>4. QED
  BY <1>1, <1>2, <1>3 DEF C!TreeNext, C!NextSibling, C!PrevSibling, C!GoTo

\* The path is the only function that goes on from each node's parent.
LEMMA PathIsLine == TreeInv => C!PathIsTheLine
<1> SUFFICES ASSUME TreeInv PROVE C!PathIsTheLine
  OBVIOUS
<1> DEFINE N == {0} \cup C!Nodes
           IsPath(f) == f = [n \in N |-> IF n = 0 THEN << >> ELSE Append(f[parent[n]], n)]
           lines == [n \in N |-> LineTo(n)]
           path == CHOOSE f : IsPath(f)
<1>1. C!Nodes = 1..Len(parent) /\ N = 0..Len(parent) /\ Len(parent) \in Nat /\ N \subseteq Nat
  BY DEF C!Nodes, TreeInv
<1>2. ASSUME NEW n \in C!Nodes PROVE /\ parent[n] \in N /\ parent[n] < n /\ parent[n] \in Nat /\ n \in Nat
                                     /\ LineTo(n) = Append(LineTo(parent[n]), n) /\ n # 0
  <2>1. parent[n] \in 0..(n - 1) /\ n \in 1..Len(parent) /\ line[n] = LineTo(parent[n]) \o <<n>>
    BY <1>1, <1>2 DEF TreeInv, Continues
  <2>2. parent[n] = 0 \/ parent[n] \in 1..Len(line)
    BY <1>1, <2>1 DEF TreeInv
  <2>3. LineTo(parent[n]) \in Seq(Nat)
    BY <2>2 DEF TreeInv, LineTo
  <2>4. n \in Nat
    BY <1>1, <2>1
  <2>5. LineTo(parent[n]) \o <<n>> = Append(LineTo(parent[n]), n)
    BY <2>3, <2>4
  <2>6. QED
    BY <1>1, <2>1, <2>5 DEF LineTo
<1>3. IsPath(lines)
  <2>1. ASSUME NEW n \in N PROVE lines[n] = IF n = 0 THEN << >> ELSE Append(lines[parent[n]], n)
    BY <1>2 DEF LineTo
  <2>2. QED
    BY <2>1
<1>4. C!PathToRoot = path[current]
  BY DEF C!PathToRoot
<1> HIDE DEF IsPath
<1>5. IsPath(path)
  BY <1>3
<1> HIDE DEF path
<1>6. ASSUME NEW n \in N PROVE path[n] = lines[n]
  <2> DEFINE Differ == {m \in N : path[m] # lines[m]}
  <2>1. CASE Differ # {}
    <3>1. Differ \in SUBSET Nat
      BY <1>1
    <3>2. PICK m \in Differ : \A o \in Differ : m <= o
      BY <2>1, <3>1, Least
    <3>3. \A o \in N : path[o] = (IF o = 0 THEN << >> ELSE Append(path[parent[o]], o))
      BY <1>5 DEF IsPath
    <3>4. m # 0
      BY <3>2, <3>3 DEF LineTo
    <3>5. path[m] = Append(path[parent[m]], m) /\ lines[m] = Append(LineTo(parent[m]), m)
      BY <1>2, <3>2, <3>3, <3>4
    <3>6. parent[m] \in N /\ parent[m] < m /\ parent[m] \in Nat /\ m \in Nat
      BY <1>2, <3>2, <3>4
    <3>7. parent[m] \notin Differ
      BY <3>2, <3>6
    <3>8. path[parent[m]] = LineTo(parent[m])
      BY <3>6, <3>7
    <3>9. QED
      BY <3>2, <3>5, <3>8
  <2>2. QED
    BY <2>1
<1>7. current \in N /\ current \in 0..Len(parent)
  BY <1>1 DEF TreeInv
<1>8. QED
  BY <1>4, <1>6, <1>7 DEF C!PathIsTheLine, LineTo

Message == [role : {"system", "user", "assistant"}, says : SUBSET Nat]

\* A context begins with b system messages, one of them the last summary; the rest are
\* the last messages that were said, and enough of them.
Begins(b) ==
    /\ b <= Len(context)
    /\ \A i \in 1..Len(context) : C!IsSystem(context[i]) <=> i <= b
    /\ \A i \in 1..Len(context) : i > b => context[i].says = {said - Len(context) + i}
    /\ Len(context) - b <= said /\ (Len(context) - b >= said \/ Len(context) - b >= 2 * PreserveRecent)
    /\ told # {} => \E i \in 1..b : context[i].says = told
ContextInv == context \in Seq(Message) /\ said \in Nat /\ \E b \in 0..2 : Begins(b)

LEMMA ContextInit == C!Init => ContextInv
<1> SUFFICES ASSUME C!Init PROVE ContextInv
  OBVIOUS
<1>1. said = 0 /\ told = {} /\ context \in {<< >>, <<[role |-> "system", says |-> {0}]>>}
  BY DEF C!Init
<1>2. CASE context = << >>
  <2>1. Begins(0)
    BY <1>1, <1>2 DEF Begins
  <2>2. QED
    BY <1>1, <1>2, <2>1 DEF ContextInv
<1>3. CASE context = <<[role |-> "system", says |-> {0}]>>
  <2>1. Begins(1)
    BY <1>1, <1>3 DEF Begins, C!IsSystem
  <2>2. [role |-> "system", says |-> {0}] \in Message
    BY DEF Message
  <2>3. QED
    BY <1>1, <1>3, <2>1, <2>2 DEF ContextInv
<1>4. QED
  BY <1>1, <1>2, <1>3

LEMMA SayInv == ASSUME ContextInv, NEW role \in {"user", "assistant"}, C!Say(role) PROVE ContextInv'
<1>1. PICK b \in 0..2 : Begins(b)
  BY DEF ContextInv
<1> DEFINE size == Len(context)
           m == [role |-> role, says |-> {said + 1}]
<1>2. m \in Message /\ ~C!IsSystem(m) /\ m.says = {said + 1} /\ said' = said + 1 /\ told' = told
      /\ context' = Append(context, m)
  BY DEF ContextInv, Message, C!IsSystem, C!Say
<1> HIDE DEF m
<1>3. /\ context' \in Seq(Message) /\ size \in Nat /\ Len(context') = size + 1
      /\ context'[size + 1] = m /\ \A i \in 1..size : context'[i] = context[i]
  BY <1>1, <1>2, Appended DEF ContextInv
<1>4. Begins(b)'
  <2>1. b <= size /\ said \in Nat
    BY <1>1 DEF Begins, ContextInv
  <2>2. \A i \in 1..Len(context') : C!IsSystem(context'[i]) <=> i <= b
    BY <1>1, <1>2, <1>3, <2>1 DEF Begins
  <2>3. \A i \in 1..Len(context') : i > b => context'[i].says = {said' - Len(context') + i}
    BY <1>1, <1>2, <1>3, <2>1 DEF Begins
  <2>4. /\ Len(context') - b <= said'
        /\ Len(context') - b >= said' \/ Len(context') - b >= 2 * PreserveRecent
    BY <1>1, <1>2, <1>3, <2>1, StoresAssumption DEF Begins, C!ConversationsAssumption
  <2>5. told' # {} => \E i \in 1..b : context'[i].says = told'
    BY <1>1, <1>2, <1>3, <2>1 DEF Begins
  <2>6. b <= Len(context')
    BY <1>3, <2>1
  <2>7. QED
    BY <2>2, <2>3, <2>4, <2>5, <2>6 DEF Begins
<1>5. QED
  BY <1>2, <1>3, <1>4 DEF ContextInv

LEMMA Joined ==
    ASSUME NEW S, NEW s \in Seq(S), NEW t \in Seq(S)
    PROVE  /\ s \o t \in Seq(S) /\ Len(s) \in Nat /\ Len(t) \in Nat /\ Len(s \o t) = Len(s) + Len(t)
           /\ \A i \in 1..Len(s) : (s \o t)[i] = s[i]
           /\ \A i \in 1..Len(t) : (s \o t)[Len(s) + i] = t[i]
OBVIOUS

\* The last n of a sequence
LEMMA LastOf ==
    ASSUME NEW S, NEW s \in Seq(S), NEW n \in 0..Len(s)
    PROVE  LET t == SubSeq(s, Len(s) - n + 1, Len(s))
           IN t \in Seq(S) /\ Len(t) = n /\ \A i \in 1..n : t[i] = s[Len(s) - n + i]
OBVIOUS

LEMMA Lesser ==
    ASSUME NEW m \in Nat, NEW n \in Nat
    PROVE  C!Min({m, n}) \in {m, n} /\ C!Min({m, n}) <= m /\ C!Min({m, n}) <= n
BY DEF C!Min

\* Without its first system message a context goes on with the one after it.
LEMMA Rest ==
    ASSUME ContextInv, NEW b \in 0..2, Begins(b)
    PROVE  \E f \in {0, 1} :
              /\ f = (IF b = 0 THEN 0 ELSE 1) /\ C!firstSystem(context) = f
              /\ C!rest(context) \in Seq(Message) /\ Len(C!rest(context)) = Len(context) - f
              /\ \A i \in 1..(Len(context) - f) : C!rest(context)[i] = context[i + f]
<1>1. PICK I : I = {i \in 1..Len(context) : C!IsSystem(context[i])}
  OBVIOUS
<1>2. I = 1..b /\ Len(context) \in Nat /\ b <= Len(context)
  BY <1>1 DEF Begins, ContextInv
<1>3. C!firstSystem(context) = IF I # {} THEN C!Min(I) ELSE 0
  BY <1>1 DEF C!firstSystem, C!SelectInSeq
<1>4. CASE b = 0
  <2>1. I = {}
    BY <1>2, <1>4
  <2>2. C!firstSystem(context) = 0
    BY <1>3, <2>1
  <2>3. C!rest(context) = context
    BY <2>2 DEF C!rest
  <2>4. QED
    BY <1>2, <1>4, <2>2, <2>3 DEF ContextInv
<1>5. CASE b # 0
  <2>1. C!Min(I) = 1
    BY <1>2, <1>5 DEF C!Min
  <2>2. C!firstSystem(context) = 1
    <3>1. 1 \in I
      BY <1>2, <1>5
    <3>2. QED
      BY <1>3, <2>1, <3>1
  <2>3. C!rest(context) = SubSeq(context, 1, 0) \o SubSeq(context, 2, Len(context))
    BY <2>2 DEF C!rest, C!RemoveAt
  <2>4. SubSeq(context, 1, 0) = << >>
    BY DEF ContextInv
  <2>5. PICK after : after = SubSeq(context, 2, Len(context))
    OBVIOUS
  <2>6. /\ after \in Seq(Message) /\ Len(after) = Len(context) - 1
        /\ \A i \in 1..(Len(context) - 1) : after[i] = context[i + 1]
    <3>1. PICK n : n = Len(context) - 1
      OBVIOUS
    <3>2. n \in 0..Len(context) /\ Len(context) - n = 1 /\ context \in Seq(Message)
      BY <1>2, <1>5, <3>1 DEF ContextInv
    <3>3. after = SubSeq(context, Len(context) - n + 1, Len(context))
      <4>1. Len(context) - n + 1 = 2
        BY <3>2
      <4>2. QED
        BY <2>5, <4>1
    <3>4. after \in Seq(Message) /\ Len(after) = n /\ \A i \in 1..n : after[i] = context[Len(context) - n + i]
      BY <3>2, <3>3, LastOf
    <3>5. \A i \in 1..n : Len(context) - n + i = i + 1
      BY <3>2
    <3>6. QED
      <4>1. ASSUME NEW i \in 1..n PROVE after[i] = context[i + 1]
        BY <3>4, <3>5
      <4>2. QED
        BY <3>1, <3>4, <4>1
  <2>7. C!rest(context) = after
    BY <2>3, <2>4, <2>5, <2>6
  <2>8. QED
    BY <1>5, <2>2, <2>6, <2>7
<1>6. QED
  BY <1>4, <1>5

LEMMA CompactInv == ASSUME ContextInv, C!Compact PROVE ContextInv'
<1>1. PICK b \in 0..2 : Begins(b)
  BY DEF ContextInv
<1>2. PICK f \in {0, 1} :
         /\ f = (IF b = 0 THEN 0 ELSE 1) /\ C!firstSystem(context) = f
         /\ C!rest(context) \in Seq(Message) /\ Len(C!rest(context)) = Len(context) - f
         /\ \A i \in 1..(Len(context) - f) : C!rest(context)[i] = context[i + f]
  BY <1>1, Rest
<1>3. PICK size, others, count, old, recent :
         /\ size = Len(context) /\ others = C!rest(context) /\ count = C!preserveCount(context)
         /\ old = SubSeq(others, 1, Len(others) - count)
         /\ recent = SubSeq(others, Len(old) + 1, Len(others))
  OBVIOUS
<1>4. PICK summary, system :
         /\ summary = [role |-> "system", says |-> C!buildSummary(old)]
         /\ system = IF f = 0 THEN << >> ELSE <<context[f]>>
  OBVIOUS
<1>5. /\ old # << >> /\ context' = system \o <<summary>> \o recent /\ told' = C!buildSummary(old)
      /\ said' = said
  BY <1>2, <1>3, <1>4 DEF C!Compact
<1>6. /\ size \in Nat /\ b <= size /\ said \in Nat /\ Len(others) = size - f /\ f <= size /\ PreserveRecent \in Nat
  BY <1>1, <1>2, <1>3, StoresAssumption DEF Begins, ContextInv, C!ConversationsAssumption
<1>7. count \in Nat /\ count <= size - f /\ (count = 2 * PreserveRecent \/ count = size - f)
  <2>1. count = C!Min({2 * PreserveRecent, size - f})
    BY <1>2, <1>3 DEF C!preserveCount
  <2>2. size - f \in Nat /\ 2 * PreserveRecent \in Nat
    BY <1>6
  <2>3. QED
    BY <2>1, <2>2, Lesser
<1>8. old \in Seq(Message) /\ Len(old) = size - f - count /\ Len(old) # 0
  <2>1. others \in Seq(Message) /\ old = SubSeq(others, 1, Len(others) - count) /\ old # << >>
    BY <1>2, <1>3, <1>5
  <2>2. Len(others) - count \in 0..Len(others)
    BY <1>6, <1>7
  <2>3. old \in Seq(Message) /\ Len(old) = Len(others) - count
    BY <2>1, <2>2
  <2>4. QED
    BY <1>6, <2>1, <2>3
<1>9. count = 2 * PreserveRecent /\ count < size - f /\ count <= size - b
  <2>1. f = IF b = 0 THEN 0 ELSE 1
    BY <1>2
  <2>2. size - f - count # 0
    BY <1>8
  <2>3. QED
    BY <1>6, <1>7, <2>1, <2>2
<1>10. recent \in Seq(Message) /\ Len(recent) = count /\ \A i \in 1..count : recent[i] = context[size - count + i]
  <2>1. recent = SubSeq(others, Len(others) - count + 1, Len(others))
    BY <1>3, <1>6, <1>8
  <2>2. others \in Seq(Message) /\ count \in 0..Len(others)
    BY <1>2, <1>3, <1>6, <1>7
  <2>3. recent \in Seq(Message) /\ Len(recent) = count /\ \A i \in 1..count : recent[i] = others[size - f - count + i]
    BY <1>6, <2>1, <2>2, LastOf
  <2>4. QED
    <3>1. ASSUME NEW i \in 1..count PROVE recent[i] = context[size - count + i]
      <4>1. size - f - count + i \in 1..(size - f) /\ size - f - count + i + f = size - count + i
        BY <1>6, <1>7
      <4>2. \A j \in 1..(size - f) : others[j] = context[j + f]
        BY <1>2, <1>3
      <4>3. QED
        BY <2>3, <4>1, <4>2
    <3>2. QED
      BY <2>3, <3>1
<1>11. summary \in Message /\ C!IsSystem(summary) /\ summary.says = told'
  <2>1. \A m \in Range(old) : m \in Message
    BY <1>8 DEF Range
  <2>2. C!buildSummary(old) \subseteq Nat
    BY <2>1 DEF C!buildSummary, C!Range, Range, Message
  <2>3. QED
    BY <1>4, <1>5, <2>2 DEF Message, C!IsSystem
<1>12. PICK head : head = system \o <<summary>>
  OBVIOUS
<1>13. /\ head \in Seq(Message) /\ Len(head) = f + 1 /\ head[f + 1] = summary
       /\ \A i \in 1..(f + 1) : C!IsSystem(head[i])
  <2>1. CASE f = 0
    BY <1>4, <1>11, <1>12, <2>1
  <2>2. CASE f = 1
    <3>1. context[1] \in Message /\ C!IsSystem(context[1])
      <4>1. b # 0
        BY <1>2, <2>2
      <4>2. 1 <= b /\ 1 \in 1..size
        BY <1>6, <4>1
      <4>3. QED
        BY <1>1, <1>3, <4>2 DEF Begins, ContextInv
    <3>2. system = <<context[1]>> /\ head = system \o <<summary>>
      BY <1>4, <1>12, <2>2
    <3>3. system \in Seq(Message) /\ Len(system) = 1 /\ system[1] = context[1]
      BY <3>1, <3>2
    <3>4. <<summary>> \in Seq(Message) /\ Len(<<summary>>) = 1 /\ <<summary>>[1] = summary
      BY <1>11
    <3>5. /\ head \in Seq(Message) /\ Len(head) = 1 + 1 /\ head[1] = context[1] /\ head[1 + 1] = summary
      <4>1. /\ head \in Seq(Message) /\ Len(head) = Len(system) + Len(<<summary>>)
            /\ \A i \in 1..Len(system) : head[i] = system[i]
            /\ \A i \in 1..Len(<<summary>>) : head[Len(system) + i] = <<summary>>[i]
        BY <3>2, <3>3, <3>4, Joined
      <4>2. QED
        BY <3>3, <3>4, <4>1
    <3>6. \A i \in 1..(1 + 1) : i = 1 \/ i = 1 + 1
      OBVIOUS
    <3>7. QED
      BY <1>11, <2>2, <3>1, <3>5, <3>6
  <2>3. QED
    BY <2>1, <2>2
<1>14. /\ context' \in Seq(Message) /\ Len(context') = f + 1 + count
       /\ \A i \in 1..(f + 1) : context'[i] = head[i]
       /\ \A i \in 1..count : context'[f + 1 + i] = context[size - count + i]
  BY <1>5, <1>10, <1>12, <1>13, Joined
<1>15. \A i \in 1..(f + 1 + count) :
          i > f + 1 => /\ ~C!IsSystem(context'[i])
                       /\ context'[i].says = {said - (f + 1 + count) + i}
  <2>1. SUFFICES ASSUME NEW i \in 1..count
                 PROVE  /\ ~C!IsSystem(context'[f + 1 + i])
                        /\ context'[f + 1 + i].says = {said - count + i}
    <3>1. ASSUME NEW i \in 1..(f + 1 + count), i > f + 1
          PROVE  i - (f + 1) \in 1..count /\ f + 1 + (i - (f + 1)) = i
                 /\ said - (f + 1 + count) + i = said - count + (i - (f + 1))
      BY <1>6, <1>7, <3>1
    <3>2. QED
      BY <2>1, <3>1
  <2>2. size - count + i \in 1..size /\ size - count + i > b
    BY <1>6, <1>7, <1>9
  <2>3. said - size + (size - count + i) = said - count + i
    BY <1>6, <1>7
  <2>4. context'[f + 1 + i] = context[size - count + i]
    BY <1>14
  <2>5. QED
    BY <1>1, <1>3, <2>2, <2>3, <2>4 DEF Begins
<1>16. Begins(f + 1)'
  <2>1. \A i \in 1..Len(context') : C!IsSystem(context'[i]) <=> i <= f + 1
    BY <1>6, <1>7, <1>13, <1>14, <1>15
  <2>2. \A i \in 1..Len(context') : i > f + 1 => context'[i].says = {said' - Len(context') + i}
    BY <1>5, <1>14, <1>15
  <2>3. /\ f + 1 <= Len(context') /\ Len(context') - (f + 1) <= said'
        /\ Len(context') - (f + 1) >= 2 * PreserveRecent
    <3>1. size - b <= said
      BY <1>1, <1>3 DEF Begins
    <3>2. f \in Nat /\ count \in Nat
      BY <1>7
    <3>3. count <= said
      BY <1>6, <1>7, <1>9, <3>1
    <3>4. PICK now, before : now = f + 1 + count /\ before = f + 1
      OBVIOUS
    <3>5. now - before = count /\ before <= now
      BY <3>2, <3>4
    <3>6. count >= 2 * PreserveRecent
      BY <1>6, <1>9
    <3>7. Len(context') = now
      BY <1>14, <3>4
    <3>8. QED
      BY <1>5, <3>3, <3>4, <3>5, <3>6, <3>7, Zenon
  <2>4. f + 1 \in 1..(f + 1) /\ context'[f + 1].says = told'
    BY <1>11, <1>13, <1>14
  <2>5. QED
    BY <2>1, <2>2, <2>3, <2>4 DEF Begins
<1>17. f + 1 \in 0..2
  OBVIOUS
<1>18. \E c \in 0..2 : Begins(c)'
  BY <1>16, <1>17
<1>19. QED
  BY <1>5, <1>6, <1>14, <1>18 DEF ContextInv

LEMMA ContextNext == ASSUME ContextInv, C!ContextNext PROVE ContextInv'
BY SayInv, CompactInv DEF C!ContextNext

LEMMA RecentKept == ContextInv => C!CompactionKeepsRecent
<1> SUFFICES ASSUME ContextInv PROVE C!CompactionKeepsRecent
  OBVIOUS
<1>1. PICK b \in 0..2 : Begins(b)
  BY DEF ContextInv
<1>2. PICK size, spoken : size = Len(context) /\ spoken = {i \in DOMAIN context : ~C!IsSystem(context[i])}
  OBVIOUS
<1>3. size \in Nat /\ b \in Nat /\ b <= size /\ said \in Nat /\ DOMAIN context = 1..size
  BY <1>1, <1>2 DEF ContextInv, Begins
<1>4. spoken = (b + 1)..size
  BY <1>1, <1>2, <1>3 DEF Begins
<1>5. \A i \in spoken : i \in 1..size /\ i > b /\ context[i].says = {said - size + i}
  BY <1>1, <1>2, <1>3, <1>4 DEF Begins
<1>6. Cardinality(spoken) = size - b
  <2>1. b + 1 \in Int /\ size \in Int /\ (b + 1 > size => size = b)
    BY <1>3
  <2>2. Cardinality(spoken) = IF b + 1 > size THEN 0 ELSE size - (b + 1) + 1
    BY <1>4, <2>1, FS_Interval
  <2>3. QED
    BY <1>3, <2>2
<1>7. size - b <= said /\ (size - b >= said \/ size - b >= 2 * PreserveRecent)
  BY <1>1, <1>2 DEF Begins
<1>8. UNION {context[i].says : i \in spoken} = (said - Cardinality(spoken) + 1)..said
  <2>1. UNION {context[i].says : i \in spoken} = {said - size + i : i \in (b + 1)..size}
    BY <1>4, <1>5
  <2>2. \A i \in (b + 1)..size : said - size + i \in (said - (size - b) + 1)..said
    BY <1>3
  <2>3. ASSUME NEW k \in (said - (size - b) + 1)..said PROVE k \in {said - size + i : i \in (b + 1)..size}
    <3>1. k - said + size \in (b + 1)..size /\ said - size + (k - said + size) = k
      BY <1>3
    <3>2. QED
      BY <3>1
  <2>4. QED
    BY <1>6, <2>1, <2>2, <2>3
<1>9. ASSUME NEW i \in spoken, NEW j \in spoken, i < j
      PROVE  C!Max(context[i].says) < C!Min(context[j].says)
  <2>1. \A x \in Int : C!Max({x}) = x /\ C!Min({x}) = x
    BY DEF C!Max, C!Min
  <2>2. said - size + i \in Int /\ said - size + j \in Int /\ said - size + i < said - size + j
    BY <1>3, <1>4, <1>9
  <2>3. QED
    BY <1>5, <2>1, <2>2
<1>10. Cardinality(spoken) >= C!Min({said, 2 * PreserveRecent})
  <2>1. 2 * PreserveRecent \in Nat
    BY StoresAssumption DEF C!ConversationsAssumption
  <2>2. C!Min({said, 2 * PreserveRecent}) \in Nat /\ C!Min({said, 2 * PreserveRecent}) <= said
        /\ C!Min({said, 2 * PreserveRecent}) <= 2 * PreserveRecent
    BY <1>3, <2>1, Lesser
  <2>3. QED
    BY <1>3, <1>6, <1>7, <2>1, <2>2
<1>11. ASSUME told # {} PROVE \E i \in {1, 2} : C!IsSystem(context[i]) /\ context[i].says = told
  <2>1. PICK i \in 1..b : context[i].says = told
    BY <1>1, <1>11 DEF Begins
  <2>2. i \in 1..size /\ i <= b /\ i \in {1, 2}
    BY <1>3
  <2>3. QED
    BY <1>1, <1>2, <2>1, <2>2 DEF Begins
<1>12. C!Cardinality(spoken) = Cardinality(spoken)
  BY DEF C!Cardinality, Cardinality
<1>13. QED
  BY <1>2, <1>8, <1>9, <1>10, <1>11, <1>12, Zenon DEF C!CompactionKeepsRecent

LEMMA Greatest ==
    ASSUME NEW k \in Nat, NEW S \in SUBSET (0..k), S # {}
    PROVE  M!Max(S) \in S /\ \A y \in S : M!Max(S) >= y
<1>1. PICK T : T = {k - x : x \in S}
  OBVIOUS
<1>2. T \in SUBSET Nat /\ T # {}
  <2>1. \A x \in S : k - x \in Nat
    OBVIOUS
  <2>2. QED
    BY <1>1, <2>1
<1>3. PICK d \in T : \A e \in T : d <= e
  BY <1>2, Least
<1>4. PICK x \in S : d = k - x
  BY <1>1
<1>5. \A y \in S : x >= y
  <2>1. SUFFICES ASSUME NEW y \in S PROVE x >= y
    OBVIOUS
  <2>2. k - x <= k - y
    BY <1>1, <1>3, <1>4
  <2>3. QED
    BY <2>2
<1>6. QED
  BY <1>5 DEF M!Max

\* No two of some facts count as the same, and there are not too many.
Apart(fs) ==
    /\ fs \in Seq(Facts) /\ Len(fs) <= MaxFacts
    /\ \A i, j \in 1..Len(fs) : i < j => <<fs[i], fs[j]>> \notin Similar

LEMMA AddsApart == ASSUME NEW fs, NEW f \in Facts, Apart(fs) PROVE Apart(M!Add(fs, f))
<1>1. CASE ~M!New(fs, f)
  BY <1>1 DEF M!Add
<1>2. CASE M!New(fs, f)
  <2>1. PICK all, n : all = Append(fs, f) /\ n = Len(fs)
    OBVIOUS
  <2>2. /\ all \in Seq(Facts) /\ n \in Nat /\ Len(all) = n + 1 /\ n <= MaxFacts /\ MaxFacts \in Nat \ {0}
        /\ all[n + 1] = f /\ \A i \in 1..n : all[i] = fs[i]
    BY <2>1, Appended, StoresAssumption DEF Apart, M!MemoriesAssumption
  <2>3. PICK drop : drop = M!Max({0, Len(all) - MaxFacts})
    OBVIOUS
  <2>4. drop \in {0, n + 1 - MaxFacts} /\ drop >= 0 /\ drop >= n + 1 - MaxFacts
    <3>1. \A x, y \in Int : M!Max({x, y}) \in {x, y} /\ M!Max({x, y}) >= x /\ M!Max({x, y}) >= y
      BY DEF M!Max
    <3>2. Len(all) - MaxFacts \in Int /\ Len(all) - MaxFacts = n + 1 - MaxFacts /\ 0 \in Int
      BY <2>2
    <3>3. drop \in {0, Len(all) - MaxFacts} /\ drop >= 0 /\ drop >= Len(all) - MaxFacts
      BY <2>3, <3>1, <3>2
    <3>4. QED
      BY <3>2, <3>3
  <2>5. PICK size, new : size = n + 1 - drop /\ new = M!Add(fs, f)
    OBVIOUS
  <2>6. drop \in Nat /\ size \in 0..(n + 1) /\ size <= MaxFacts /\ n + 1 - size + 1 = 1 + drop /\ n + 1 - size = drop
    BY <2>2, <2>4, <2>5
  <2>7. new = SubSeq(all, 1 + drop, Len(all))
    BY <1>2, <2>1, <2>3, <2>5, Zenon DEF M!Add
  <2>8. new \in Seq(Facts) /\ Len(new) = size /\ \A i \in 1..size : new[i] = all[drop + i]
    <3>1. new = SubSeq(all, Len(all) - size + 1, Len(all)) /\ size \in 0..Len(all)
      <4>1. Len(all) - size + 1 = 1 + drop /\ size \in 0..Len(all)
        BY <2>2, <2>6
      <4>2. QED
        BY <2>7, <4>1
    <3>2. new \in Seq(Facts) /\ Len(new) = size /\ \A i \in 1..size : new[i] = all[Len(all) - size + i]
      BY <2>2, <3>1, LastOf
    <3>3. QED
      BY <2>2, <2>6, <3>2
  <2>9. \A i, j \in 1..(n + 1) : i < j => <<all[i], all[j]>> \notin Similar
    <3>1. SUFFICES ASSUME NEW i \in 1..(n + 1), NEW j \in 1..(n + 1), i < j PROVE <<all[i], all[j]>> \notin Similar
      OBVIOUS
    <3>2. i \in 1..n /\ all[i] = fs[i] /\ DOMAIN fs = 1..n
      BY <2>1, <2>2, <3>1 DEF Apart
    <3>3. CASE j = n + 1
      BY <1>2, <2>2, <3>2, <3>3 DEF M!New
    <3>4. CASE j \in 1..n
      BY <2>1, <2>2, <3>1, <3>2, <3>4 DEF Apart
    <3>5. QED
      BY <2>2, <3>3, <3>4
  <2>10. \A i, j \in 1..size : i < j => <<new[i], new[j]>> \notin Similar
    <3>1. SUFFICES ASSUME NEW i \in 1..size, NEW j \in 1..size, i < j PROVE <<new[i], new[j]>> \notin Similar
      OBVIOUS
    <3>2. drop + i \in 1..(n + 1) /\ drop + j \in 1..(n + 1) /\ drop + i < drop + j
      BY <2>2, <2>5, <2>6, <3>1
    <3>3. QED
      BY <2>8, <2>9, <3>2
  <2>11. QED
    BY <2>5, <2>6, <2>8, <2>10 DEF Apart
<1>3. QED
  BY <1>1, <1>2

\* Facts added one after the other.  The fold is a function on sets of places, which
\* there is for the first k places whatever k.
LEMMA FoldsApart ==
    ASSUME NEW first, Apart(first), NEW found \in Seq(Facts)
    PROVE  Apart(M!FoldLeft(M!Add, first, found))
<1> DEFINE IsFold(h, k) == h = [s \in SUBSET (1..k) |->
                                  IF s = {} THEN first ELSE M!Add(h[s \ {M!Max(s)}], found[M!Max(s)])]
           n == Len(found)
           fold == CHOOSE h : IsFold(h, n)
<1>1. n \in Nat /\ DOMAIN found = 1..n /\ \A i \in 1..n : found[i] \in Facts
  OBVIOUS
<1>2. M!FoldLeft(M!Add, first, found) = fold[1..n]
  BY <1>1 DEF M!FoldLeft, M!MapThenFoldSet
<1> HIDE DEF IsFold, n
<1>3. \A h, k : IsFold(h, k) <=>
         h = [s \in SUBSET (1..k) |-> IF s = {} THEN first ELSE M!Add(h[s \ {M!Max(s)}], found[M!Max(s)])]
  BY DEF IsFold
<1>4. ASSUME NEW k \in Nat, NEW s \in SUBSET (1..k), s # {}
      PROVE  M!Max(s) \in s /\ M!Max(s) \in 1..k /\ \A y \in s : M!Max(s) >= y
  <2>1. s \in SUBSET (0..k)
    BY <1>4
  <2>2. M!Max(s) \in s /\ \A y \in s : M!Max(s) >= y
    BY <1>4, <2>1, Greatest
  <2>3. QED
    BY <1>4, <2>2
<1>5. ASSUME NEW k \in Nat PROVE \E h : IsFold(h, k)
  <2> DEFINE Without == {j \in Nat : ~ \E h : IsFold(h, j)}
  <2>1. CASE Without # {}
    <3>1. PICK j \in Without : \A i \in Without : j <= i
      BY <2>1, Least
    <3>2. j # 0
      <4>1. PICK g : g = [s \in SUBSET (1..0) |-> first]
        OBVIOUS
      <4>2. 1..0 = {}
        OBVIOUS
      <4>3. \A s \in SUBSET (1..0) : s = {}
        BY <4>2
      <4>4. IsFold(g, 0)
        BY <1>3, <4>1, <4>3
      <4>5. QED
        BY <3>1, <4>4
    <3>3. j - 1 \in Nat /\ j - 1 < j
      BY <3>2
    <3>4. PICK h : IsFold(h, j - 1)
      BY <3>1, <3>3
    <3>5. PICK g : g = [s \in SUBSET (1..j) |-> IF j \in s THEN M!Add(h[s \ {j}], found[j]) ELSE h[s]]
      OBVIOUS
    <3>6. ASSUME NEW s \in SUBSET (1..j)
          PROVE  g[s] = IF s = {} THEN first ELSE M!Add(g[s \ {M!Max(s)}], found[M!Max(s)])
      <4>1. \A t \in SUBSET (1..j) : j \notin t => t \in SUBSET (1..(j - 1)) /\ g[t] = h[t]
        BY <3>3, <3>5
      <4>2. \A t \in SUBSET (1..(j - 1)) :
               h[t] = IF t = {} THEN first ELSE M!Add(h[t \ {M!Max(t)}], found[M!Max(t)])
        BY <1>3, <3>4
      <4>3. CASE j \in s
        <5>1. M!Max(s) = j
          <6>1. M!Max(s) \in 1..j /\ M!Max(s) >= j
            BY <1>4, <4>3
          <6>2. QED
            BY <6>1
        <5>2. g[s] = M!Add(h[s \ {j}], found[j]) /\ g[s \ {j}] = h[s \ {j}]
          BY <3>5, <4>1, <4>3
        <5>3. QED
          BY <4>3, <5>1, <5>2
      <4>4. CASE j \notin s
        <5>1. CASE s = {}
          BY <4>1, <4>2, <5>1
        <5>2. CASE s # {}
          <6>1. g[s] = M!Add(h[s \ {M!Max(s)}], found[M!Max(s)])
            BY <4>1, <4>2, <4>4, <5>2
          <6>2. g[s \ {M!Max(s)}] = h[s \ {M!Max(s)}]
            BY <4>1, <4>4
          <6>3. QED
            BY <5>2, <6>1, <6>2
        <5>3. QED
          BY <5>1, <5>2
      <4>5. QED
        BY <4>3, <4>4
    <3>7. g = [s \in SUBSET (1..j) |-> IF s = {} THEN first ELSE M!Add(g[s \ {M!Max(s)}], found[M!Max(s)])]
      BY <3>5, <3>6
    <3>8. IsFold(g, j)
      BY <1>3, <3>7
    <3>9. QED
      BY <3>1, <3>8
  <2>2. QED
    BY <2>1
<1>6. IsFold(fold, n)
  BY <1>1, <1>5
<1> HIDE DEF fold
<1>7. \A s \in SUBSET (1..n) :
         fold[s] = IF s = {} THEN first ELSE M!Add(fold[s \ {M!Max(s)}], found[M!Max(s)])
  BY <1>3, <1>6
<1>8. \A k \in Nat : \A s \in SUBSET (1..k) : s \subseteq 1..n => Apart(fold[s])
  <2> DEFINE Bad == {k \in Nat : \E s \in SUBSET (1..k) : s \subseteq 1..n /\ ~Apart(fold[s])}
  <2>1. CASE Bad # {}
    <3>1. PICK k \in Bad : \A j \in Bad : k <= j
      BY <2>1, Least
    <3>2. PICK s \in SUBSET (1..k) : s \subseteq 1..n /\ ~Apart(fold[s])
      BY <3>1
    <3>3. s # {}
      BY <1>7, <3>2
    <3>4. PICK m : m = M!Max(s)
      OBVIOUS
    <3>5. m \in s /\ m \in 1..k /\ \A y \in s : m >= y
      BY <1>4, <3>3, <3>4
    <3>6. s \ {m} \in SUBSET (1..(m - 1)) /\ s \ {m} \subseteq 1..n /\ m - 1 \in Nat /\ m - 1 < k
      BY <3>2, <3>5
    <3>7. m - 1 \notin Bad
      <4>1. k \in Nat /\ m - 1 \in Nat /\ ~ (k <= m - 1)
        BY <3>6
      <4>2. QED
        BY <3>1, <4>1, Zenon
    <3>8. Apart(fold[s \ {m}])
      BY <3>6, <3>7
    <3>9. fold[s] = M!Add(fold[s \ {m}], found[m]) /\ found[m] \in Facts
      BY <1>1, <1>7, <3>2, <3>3, <3>4, <3>5
    <3>10. QED
      BY <3>2, <3>8, <3>9, AddsApart
  <2>2. QED
    BY <2>1
<1>9. QED
  BY <1>1, <1>2, <1>8

\* Facts that are kept, in memory and in the file
FactsInv ==
    /\ Apart(facts) /\ (factFile # Torn => Apart(factFile))
    /\ "facts" \notin damaged => factFile = facts

\* Memories that no failing write has touched are as they were last acknowledged, in the
\* file too; the database's rows are numbered apart, with numbers already given out.
MemoryTypes ==
    /\ kind \in {"file", "sqlite"} /\ updates \in Nat
    /\ memories \in [Topics -> M!Memory \cup {None}] /\ acked \in [Topics -> Notes \cup {None}]
    /\ IsFiniteSet(M!Known(memories))
    /\ table # Torn => table \in [Topics -> M!Memory \cup {None}] /\ IsFiniteSet(M!Known(table))
AsAcked ==
    \A t \in Topics : IF acked[t] = None THEN memories[t] = None
                      ELSE memories[t] # None /\ memories[t].content = acked[t]
Numbered ==
    /\ \A t \in M!Known(memories) : memories[t].id \in 1..updates
    /\ \A s, t \in M!Known(memories) : s # t => memories[s].id # memories[t].id
MemoryInv ==
    /\ MemoryTypes
    /\ "memories" \notin damaged => table = memories /\ AsAcked
    /\ kind = "sqlite" => "memories" \notin damaged /\ Numbered

LEMMA NoFacts == Apart(<< >>)
BY StoresAssumption DEF Apart, M!MemoriesAssumption

LEMMA MemoryValues ==
    /\ None \notin Notes /\ None \notin M!Memory /\ Torn \notin [Topics -> M!Memory \cup {None}]
    /\ \A e \in M!Memory : e.content \in Notes /\ e.id \in Nat
BY StoresAssumption DEF M!MemoriesAssumption, M!Memory

LEMMA MemoryInit == M!Init => FactsInv /\ MemoryInv
<1> SUFFICES ASSUME M!Init PROVE FactsInv /\ MemoryInv
  OBVIOUS
<1>1. memories = [t \in Topics |-> None] /\ table = memories /\ acked = memories
  BY DEF M!Init, M!Nothing
<1>2. M!Known(memories) = {}
  BY <1>1 DEF M!Known
<1>3. MemoryInv
  BY <1>1, <1>2, FS_EmptySet DEF M!Init, MemoryInv, MemoryTypes, AsAcked, Numbered
<1>4. QED
  BY <1>3, NoFacts DEF M!Init, FactsInv

\* A memory that is stored is numbered apart from the others.
LEMMA StoredAs ==
    ASSUME MemoryInv, NEW t \in Topics, NEW c \in Notes, NEW ms, ms = M!Stored(memories, t, c)
    PROVE  /\ ms \in [Topics -> M!Memory \cup {None}] /\ IsFiniteSet(M!Known(ms))
           /\ ms[t] # None /\ ms[t].content = c
           /\ \A o \in Topics : o # t => ms[o] = memories[o]
           /\ kind = "sqlite" =>
                 /\ \A o \in M!Known(ms) : ms[o].id \in 1..(updates + 1)
                 /\ \A o, p \in M!Known(ms) : o # p => ms[o].id # ms[p].id
<1>1. PICK new, there : /\ there = M!Known(memories)
                        /\ new = IF memories[t] # None THEN memories[t].id
                                 ELSE IF kind = "file" THEN M!NextID(memories) ELSE M!RowID(memories)
  OBVIOUS
<1>2. IsFiniteSet(there) /\ there \subseteq Topics /\ \A o \in Topics : o \in there <=> memories[o] # None
  BY <1>1 DEF MemoryInv, MemoryTypes, M!Known
<1>3. \A o \in there : memories[o] \in M!Memory /\ memories[o].id \in Nat
  BY <1>2, MemoryValues DEF MemoryInv, MemoryTypes
<1>4. ASSUME kind = "sqlite", t \notin there
      PROVE  new \in 1..(updates + 1) /\ \A o \in there : memories[o].id < new
  <2>1. PICK ids : ids = {0} \cup {memories[o].id : o \in there}
    OBVIOUS
  <2>2. updates \in Nat /\ ids \in SUBSET (0..updates) /\ ids # {}
    BY <1>4, <2>1, <1>1 DEF MemoryInv, MemoryTypes, Numbered
  <2>3. M!Max(ids) \in ids /\ \A y \in ids : M!Max(ids) >= y
    BY <2>2, Greatest
  <2>4. new = M!Max(ids) + 1
    BY <1>1, <1>2, <1>4, <2>1 DEF M!RowID
  <2>5. M!Max(ids) \in 0..updates
    BY <2>2, <2>3
  <2>6. ASSUME NEW o \in there PROVE memories[o].id < new
    <3>1. memories[o].id \in ids /\ memories[o].id \in Nat
      BY <1>3, <2>1
    <3>2. QED
      BY <2>3, <2>4, <2>5, <3>1
  <2>7. QED
    BY <2>2, <2>4, <2>5, <2>6
<1>5. new \in Nat
  <2>1. CASE t \in there
    BY <1>1, <1>2, <1>3, <2>1
  <2>2. CASE t \notin there /\ kind = "file"
    <3>1. M!Cardinality(there) = Cardinality(there)
      BY DEF M!Cardinality, Cardinality
    <3>2. Cardinality(there) \in Nat
      BY <1>2, FS_CardinalityType
    <3>3. new = Cardinality(there) + 1
      BY <1>1, <1>2, <2>2, <3>1 DEF M!NextID
    <3>4. QED
      BY <3>2, <3>3
  <2>3. CASE t \notin there /\ kind = "sqlite"
    BY <1>4, <2>3 DEF MemoryInv, MemoryTypes
  <2>4. QED
    BY <2>1, <2>2, <2>3 DEF MemoryInv, MemoryTypes
<1>6. PICK m : m = [id |-> new, content |-> c]
  OBVIOUS
<1>7. ms = [memories EXCEPT ![t] = m]
  BY <1>1, <1>6 DEF M!Stored
<1>8. m \in M!Memory /\ m # None /\ m.id = new /\ m.content = c
  BY <1>5, <1>6, MemoryValues DEF M!Memory
<1>9. /\ ms \in [Topics -> M!Memory \cup {None}] /\ ms[t] = m
      /\ \A o \in Topics : o # t => ms[o] = memories[o]
  BY <1>7, <1>8 DEF MemoryInv, MemoryTypes
<1>10. M!Known(ms) = there \cup {t}
  BY <1>2, <1>8, <1>9 DEF M!Known
<1>11. IsFiniteSet(there \cup {t})
  BY <1>2, FS_AddElement
<1>12. ASSUME kind = "sqlite"
       PROVE  /\ \A o \in M!Known(ms) : ms[o].id \in 1..(updates + 1)
              /\ \A o, p \in M!Known(ms) : o # p => ms[o].id # ms[p].id
  <2>1. /\ updates \in Nat /\ \A o \in there : memories[o].id \in 1..updates
        /\ \A o, p \in there : o # p => memories[o].id # memories[p].id
    BY <1>1, <1>12 DEF MemoryInv, MemoryTypes, Numbered
  <2>2. t \in there => new = memories[t].id
    BY <1>1, <1>2
  <2>3. new \in 1..(updates + 1)
    BY <1>4, <1>12, <2>1, <2>2
  <2>4. \A o \in there : o # t => memories[o].id # new
    BY <1>3, <1>4, <1>5, <1>12, <2>1, <2>2
  <2>5. QED
    BY <1>2, <1>8, <1>9, <1>10, <2>1, <2>3, <2>4
<1>13. QED
  BY <1>8, <1>9, <1>10, <1>11, <1>12

LEMMA ApplyInv ==
    ASSUME FactsInv, MemoryInv, NEW t \in Topics, NEW c \in Notes \cup {None}, NEW ms, M!Apply(ms, t, c),
           updates' = updates + 1, UNCHANGED <<kind, facts, factFile>>,
           ms \in [Topics -> M!Memory \cup {None}], IsFiniteSet(M!Known(ms)),
           IF c = None THEN ms[t] = None ELSE ms[t] # None /\ ms[t].content = c,
           \A o \in Topics : o # t => ms[o] = memories[o],
           kind = "sqlite" => /\ \A o \in M!Known(ms) : ms[o].id \in 1..(updates + 1)
                              /\ \A o, p \in M!Known(ms) : o # p => ms[o].id # ms[p].id
    PROVE  FactsInv' /\ MemoryInv'
<1>1. updates' \in Nat /\ kind' \in {"file", "sqlite"}
  BY DEF MemoryInv, MemoryTypes
<1>2. CASE memories' = ms /\ table' = ms /\ acked' = [acked EXCEPT ![t] = c] /\ UNCHANGED damaged
  <2>1. acked' \in [Topics -> Notes \cup {None}] /\ acked'[t] = c /\ \A o \in Topics : o # t => acked'[o] = acked[o]
    BY <1>2 DEF MemoryInv, MemoryTypes
  <2>2. MemoryTypes'
    BY <1>1, <1>2, <2>1 DEF MemoryTypes, M!Known
  <2>3. "memories" \notin damaged' => AsAcked'
    BY <1>2, <2>1 DEF MemoryInv, AsAcked
  <2>4. kind' = "sqlite" => Numbered'
    BY <1>2 DEF Numbered, M!Known
  <2>5. QED
    BY <1>2, <2>2, <2>3, <2>4 DEF MemoryInv, FactsInv
<1>3. CASE kind = "file" /\ memories' = ms /\ table' \in {table, Torn} /\ damaged' = damaged \cup {"memories"}
           /\ UNCHANGED acked
  <2>1. MemoryTypes'
    BY <1>1, <1>3 DEF MemoryInv, MemoryTypes, M!Known
  <2>2. QED
    BY <1>3, <2>1 DEF MemoryInv, FactsInv
<1>4. CASE UNCHANGED <<memories, table, acked, damaged>>
  <2>1. MemoryTypes'
    BY <1>1, <1>4 DEF MemoryInv, MemoryTypes, M!Known
  <2>2. Numbered => Numbered'
    <3>1. M!Known(memories') = M!Known(memories)
      BY <1>4
    <3>2. \A n \in 1..updates : n \in 1..(updates + 1)
      BY DEF MemoryInv, MemoryTypes
    <3>3. QED
      BY <1>4, <3>1, <3>2 DEF Numbered
  <2>3. AsAcked => AsAcked'
    BY <1>4 DEF AsAcked
  <2>4. QED
    BY <1>4, <2>1, <2>2, <2>3 DEF MemoryInv, FactsInv
<1>5. QED
  BY <1>2, <1>3, <1>4 DEF M!Apply, M!persist

LEMMA ExtractInv ==
    ASSUME FactsInv, MemoryInv, NEW n \in 1..(PerSession + 1), NEW found \in [1..n -> Facts], M!Extract(found)
    PROVE  FactsInv' /\ MemoryInv'
<1>1. updates' = updates + 1 /\ UNCHANGED <<kind, memories, table, acked>>
      /\ facts' = M!FoldLeft(M!Add, facts, SubSeq(found, 1, M!Min({PerSession, Len(found)})))
      /\ \/ factFile' = facts' /\ UNCHANGED damaged
         \/ damaged' = damaged \cup {"facts"} /\ factFile' \in {factFile, Torn}
  BY DEF M!Extract, M!Changed
<1>2. Apart(facts')
  <2>1. PICK some : some = SubSeq(found, 1, M!Min({PerSession, Len(found)}))
    OBVIOUS
  <2>2. found \in Seq(Facts) /\ Len(found) = n
    OBVIOUS
  <2>3. M!Min({PerSession, Len(found)}) \in 0..Len(found)
    <3>1. PerSession \in Nat /\ Len(found) \in Nat
      BY <2>2, StoresAssumption DEF M!MemoriesAssumption
    <3>2. ASSUME NEW x \in Nat, NEW y \in Nat PROVE M!Min({x, y}) \in {x, y} /\ M!Min({x, y}) <= y
      <4>1. M!Min({x, y}) = C!Min({x, y})
        BY DEF M!Min, C!Min
      <4>2. QED
        BY <4>1, Lesser
    <3>3. QED
      BY <3>1, <3>2
  <2>4. some \in Seq(Facts)
    <3>1. PICK k : k = M!Min({PerSession, Len(found)})
      OBVIOUS
    <3>2. k \in 0..Len(found) /\ some = SubSeq(found, 1, k)
      BY <2>1, <2>3, <3>1
    <3>3. QED
      BY <2>2, <3>2
  <2>5. QED
    BY <1>1, <2>1, <2>4, FoldsApart DEF FactsInv
<1>3. FactsInv'
  BY <1>1, <1>2 DEF FactsInv
<1>4. "memories" \in damaged' <=> "memories" \in damaged
  BY <1>1
<1>5. updates \in Nat /\ updates' \in Nat
  BY <1>1 DEF MemoryInv, MemoryTypes
<1>6. MemoryTypes'
  BY <1>1, <1>5 DEF MemoryInv, MemoryTypes, M!Known
<1>7. Numbered => Numbered'
  <2>1. \A k \in 1..updates : k \in 1..updates'
    BY <1>1, <1>5
  <2>2. M!Known(memories') = M!Known(memories)
    BY <1>1
  <2>3. QED
    BY <1>1, <2>1, <2>2 DEF Numbered
<1>8. AsAcked => AsAcked'
  BY <1>1 DEF AsAcked
<1>9. QED
  BY <1>1, <1>3, <1>4, <1>6, <1>7, <1>8 DEF MemoryInv

LEMMA MemoryRestartInv == ASSUME FactsInv, MemoryInv, M!Restart PROVE FactsInv' /\ MemoryInv'
<1>1. /\ UNCHANGED <<kind, acked, updates>>
      /\ memories' = (IF table' = Torn THEN [t \in Topics |-> None] ELSE table')
      /\ facts' = (IF factFile' = Torn THEN << >> ELSE factFile')
  BY DEF M!Restart, M!Nothing
<1>2. \/ UNCHANGED <<table, factFile, damaged>>
      \/ kind = "file" /\ table' = Torn /\ damaged' = damaged \cup {"memories"} /\ UNCHANGED factFile
      \/ factFile' = Torn /\ damaged' = damaged \cup {"facts"} /\ UNCHANGED table
  BY DEF M!Restart
<1>3. FactsInv'
  <2>1. factFile' # Torn => Apart(factFile')
    BY <1>2 DEF FactsInv
  <2>2. Apart(facts')
    BY <1>1, <2>1, NoFacts
  <2>3. "facts" \notin damaged' => factFile' = facts /\ factFile' # Torn
    BY <1>2, StoresAssumption DEF FactsInv, Apart, M!MemoriesAssumption
  <2>4. QED
    BY <1>1, <2>1, <2>2, <2>3 DEF FactsInv
<1>4. MemoryTypes'
  <2>1. table' # Torn => table' = table
    BY <1>2
  <2>2. M!Known([t \in Topics |-> None]) = {}
    BY DEF M!Known
  <2>3. memories' \in [Topics -> M!Memory \cup {None}] /\ IsFiniteSet(M!Known(memories'))
    BY <1>1, <2>1, <2>2, FS_EmptySet DEF MemoryInv, MemoryTypes
  <2>4. QED
    BY <1>1, <2>1, <2>3 DEF MemoryInv, MemoryTypes, M!Known
<1>5. ASSUME "memories" \notin damaged' PROVE table' = memories' /\ memories' = memories
  <2>1. table' = table /\ table = memories
    BY <1>2, <1>5 DEF MemoryInv
  <2>2. table # Torn
    BY <2>1, MemoryValues DEF MemoryInv, MemoryTypes
  <2>3. QED
    BY <1>1, <2>1, <2>2
<1>6. "memories" \notin damaged' => "memories" \notin damaged /\ AsAcked /\ AsAcked'
  BY <1>1, <1>2, <1>5 DEF MemoryInv, AsAcked
<1>7. kind' = "sqlite" => "memories" \notin damaged' /\ Numbered'
  BY <1>1, <1>2, <1>5 DEF MemoryInv, Numbered, M!Known
<1>8. QED
  BY <1>3, <1>4, <1>5, <1>6, <1>7 DEF MemoryInv

LEMMA MemoryNext == ASSUME FactsInv, MemoryInv, M!Next PROVE FactsInv' /\ MemoryInv'
<1>1. ASSUME NEW t \in Topics, NEW c \in Notes, M!Save(t, c) PROVE FactsInv' /\ MemoryInv'
  <2>1. PICK ms : ms = M!Stored(memories, t, c)
    OBVIOUS
  <2>2. M!Apply(ms, t, c) /\ updates' = updates + 1 /\ UNCHANGED <<kind, facts, factFile>>
    BY <1>1, <2>1 DEF M!Save, M!Changed
  <2>3. /\ ms \in [Topics -> M!Memory \cup {None}] /\ IsFiniteSet(M!Known(ms))
        /\ ms[t] # None /\ ms[t].content = c
        /\ \A o \in Topics : o # t => ms[o] = memories[o]
        /\ kind = "sqlite" =>
              /\ \A o \in M!Known(ms) : ms[o].id \in 1..(updates + 1)
              /\ \A o, p \in M!Known(ms) : o # p => ms[o].id # ms[p].id
    BY <1>1, <2>1, StoredAs
  <2>4. c # None
    BY MemoryValues
  <2>5. QED
    BY <2>2, <2>3, <2>4, ApplyInv
<1>2. ASSUME NEW t \in Topics, M!Delete(t) PROVE FactsInv' /\ MemoryInv'
  <2>1. PICK ms : ms = [memories EXCEPT ![t] = None]
    OBVIOUS
  <2>2. M!Apply(ms, t, None) /\ updates' = updates + 1 /\ UNCHANGED <<kind, facts, factFile>>
    BY <1>2, <2>1 DEF M!Delete, M!Changed
  <2>3. /\ ms \in [Topics -> M!Memory \cup {None}] /\ ms[t] = None
        /\ \A o \in Topics : o # t => ms[o] = memories[o]
    BY <2>1 DEF MemoryInv, MemoryTypes
  <2>4. /\ M!Known(ms) \subseteq M!Known(memories)
        /\ \A o \in M!Known(ms) : ms[o] = memories[o]
    BY <2>3 DEF M!Known
  <2>5. IsFiniteSet(M!Known(ms))
    BY <2>4, FS_Subset DEF MemoryInv, MemoryTypes
  <2>6. kind = "sqlite" =>
           /\ \A o \in M!Known(ms) : ms[o].id \in 1..(updates + 1)
           /\ \A o, p \in M!Known(ms) : o # p => ms[o].id # ms[p].id
    <3>1. updates \in Nat /\ \A k \in 1..updates : k \in 1..(updates + 1)
      BY DEF MemoryInv, MemoryTypes
    <3>2. QED
      BY <2>4, <3>1 DEF MemoryInv, Numbered
  <2>7. QED
    BY <2>2, <2>3, <2>5, <2>6, ApplyInv
<1>3. QED
  BY <1>1, <1>2, ExtractInv, MemoryRestartInv DEF M!Next

LEMMA MemoriesRecalled == MemoryInv => M!RecallsWhatItSaved
<1> SUFFICES ASSUME MemoryInv PROVE M!RecallsWhatItSaved
  OBVIOUS
<1>1. \A t \in Topics : \A w : t \in M!Search(w) <=> memories[t] # None /\ (t = w \/ memories[t].content = w)
  BY DEF M!Search, M!Known
<1>2. ASSUME "memories" \notin damaged, NEW t \in Topics
      PROVE  IF acked[t] = None THEN memories[t] = None
             ELSE t \in M!Search(t) \cap M!Search(acked[t]) /\ memories[t].content = acked[t]
  BY <1>1, <1>2 DEF MemoryInv, AsAcked
<1>3. ASSUME "memories" \notin damaged, NEW w \in Topics \cup Notes, NEW ts \in M!AutoInject(w), NEW t \in ts
      PROVE  w \in {t, acked[t]}
  <2>1. t \in M!Search(w) /\ t \in Topics
    BY DEF M!AutoInject, M!Search, M!Known
  <2>2. QED
    BY <1>1, <1>3, <2>1 DEF MemoryInv, AsAcked
<1>4. QED
  BY <1>2, <1>3 DEF M!RecallsWhatItSaved, MemoryInv, Numbered

LEMMA FactsKept == FactsInv => M!FactsAreKept
<1> SUFFICES ASSUME FactsInv PROVE M!FactsAreKept
  OBVIOUS
<1>1. DOMAIN facts = 1..Len(facts)
  BY DEF FactsInv, Apart
<1>2. QED
  BY <1>1 DEF FactsInv, Apart, M!FactsAreKept

\* Sums over a finite set, taken from it in any order.
Some(s) == CHOOSE x \in s : TRUE
IsSum(h, f, T) ==
    h = [s \in SUBSET T |-> IF s = {} THEN 0 ELSE f[Some(s)] + h[s \ {Some(s)}]]
SumOf(f, T) == B!FoldFunctionOnSet(+, 0, f, T)
Numbers(f, T) == IsFiniteSet(T) /\ f \in [T -> Nat]
Without(g, V, f, T, a) == Numbers(f, T) /\ a \in T /\ V = T \ {a} /\ Numbers(g, V) /\ \A i \in V : g[i] = f[i]

LEMMA Smaller ==
    ASSUME NEW s, IsFiniteSet(s), NEW x \in s
    PROVE  /\ Cardinality(s) \in Nat /\ Cardinality(s) # 0 /\ IsFiniteSet(s \ {x})
           /\ Cardinality(s \ {x}) = Cardinality(s) - 1
<1>1. IsFiniteSet(s \ {x}) /\ Cardinality(s) \in Nat
  BY FS_RemoveElement, FS_CardinalityType
<1>2. Cardinality(s \ {x}) = Cardinality(s) - 1
  BY FS_RemoveElement
<1>3. Cardinality(s) # 0
  BY FS_EmptySet
<1>4. QED
  BY <1>1, <1>2, <1>3

\* There is such a sum: it is extended from the sets of fewer than k elements to those of k.
LEMMA SumExists == ASSUME NEW T, IsFiniteSet(T), NEW f PROVE \E h : IsSum(h, f, T)
<1> DEFINE Level(k) == {s \in SUBSET T : Cardinality(s) <= k}
           UpTo(h, k) == h = [s \in Level(k) |-> IF s = {} THEN 0 ELSE f[Some(s)] + h[s \ {Some(s)}]]
           Missed == {k \in Nat : ~ \E h : UpTo(h, k)}
<1>1. \A s \in SUBSET T : IsFiniteSet(s)
  BY FS_Subset
<1>2. \A s : s # {} => Some(s) \in s
  BY DEF Some
<1>3. ASSUME NEW k \in Nat, NEW s \in Level(k), s # {}, k # 0 PROVE s \ {Some(s)} \in Level(k - 1)
  <2>1. Some(s) \in s /\ IsFiniteSet(s) /\ Cardinality(s) <= k
    BY <1>1, <1>2, <1>3
  <2>2. Cardinality(s) \in Nat /\ Cardinality(s \ {Some(s)}) = Cardinality(s) - 1
    BY <2>1, Smaller
  <2>3. QED
    BY <2>1, <2>2
<1>4. Level(0) = {{}}
  <2>1. ASSUME NEW s \in Level(0) PROVE s = {}
    <3>1. IsFiniteSet(s) /\ Cardinality(s) <= 0 /\ Cardinality(s) \in Nat
      BY <1>1, FS_CardinalityType
    <3>2. QED
      BY <3>1, FS_EmptySet
  <2>2. {} \in Level(0)
    BY FS_EmptySet
  <2>3. QED
    BY <2>1, <2>2
<1>5. \A h, k : UpTo(h, k) <=>
         h = [s \in Level(k) |-> IF s = {} THEN 0 ELSE f[Some(s)] + h[s \ {Some(s)}]]
  OBVIOUS
<1>6. ASSUME NEW k \in Nat, k # 0, NEW j \in Level(k - 1) PROVE j \in Level(k)
  <2>1. IsFiniteSet(j) /\ Cardinality(j) \in Nat /\ Cardinality(j) <= k - 1
    BY <1>1, <1>6, FS_CardinalityType
  <2>2. QED
    BY <1>6, <2>1
<1>7. Cardinality(T) \in Nat /\ Level(Cardinality(T)) = SUBSET T
  <2>1. \A s \in SUBSET T : Cardinality(s) <= Cardinality(T)
    BY FS_Subset
  <2>2. QED
    BY <2>1, FS_CardinalityType
<1> HIDE DEF Level, UpTo
<1>8. CASE Missed # {}
  <2>1. PICK k \in Missed : \A j \in Missed : k <= j
    BY <1>8, Least
  <2>2. k # 0
    <3>1. PICK g : g = [s \in Level(0) |-> 0]
      OBVIOUS
    <3>2. UpTo(g, 0)
      BY <1>4, <1>5, <3>1
    <3>3. QED
      BY <2>1, <3>2
  <2>3. k - 1 \in Nat /\ k - 1 < k
    BY <2>2
  <2>4. PICK h : UpTo(h, k - 1)
    BY <2>1, <2>3
  <2>5. PICK g : g = [s \in Level(k) |-> IF s = {} THEN 0 ELSE f[Some(s)] + h[s \ {Some(s)}]]
    OBVIOUS
  <2>6. \A s \in Level(k - 1) : g[s] = h[s]
    BY <1>5, <1>6, <2>2, <2>4, <2>5
  <2>7. \A s \in Level(k) : g[s] = IF s = {} THEN 0 ELSE f[Some(s)] + g[s \ {Some(s)}]
    BY <1>3, <2>2, <2>5, <2>6
  <2>8. g = [s \in Level(k) |-> IF s = {} THEN 0 ELSE f[Some(s)] + g[s \ {Some(s)}]]
    BY <2>5, <2>7
  <2>9. UpTo(g, k)
    BY <1>5, <2>8
  <2>10. QED
    BY <2>1, <2>9
<1>9. CASE Missed = {}
  <2>1. PICK h : UpTo(h, Cardinality(T))
    BY <1>7, <1>9
  <2>2. QED
    BY <1>5, <1>7, <2>1 DEF IsSum
<1>10. QED
  BY <1>8, <1>9

LEMMA SumIs == ASSUME NEW T, IsFiniteSet(T), NEW f PROVE \E h : IsSum(h, f, T) /\ SumOf(f, T) = h[T]
<1> DEFINE iter == CHOOSE h : IsSum(h, f, T)
<1>1. SumOf(f, T) = iter[T]
  BY DEF SumOf, B!FoldFunctionOnSet, B!MapThenFoldSet, IsSum, Some
<1>2. IsSum(iter, f, T)
  BY SumExists
<1>3. QED
  BY <1>1, <1>2

\* Any element may be taken first.
LEMMA TakeAny ==
    ASSUME NEW T, NEW f, Numbers(f, T), NEW h, IsSum(h, f, T)
    PROVE  \A s \in SUBSET T : h[s] \in Nat /\ \A a \in s : h[s] = f[a] + h[s \ {a}]
<1>1. \A s \in SUBSET T : IsFiniteSet(s) /\ Cardinality(s) \in Nat
  BY FS_Subset, FS_CardinalityType DEF Numbers
<1>2. \A s \in SUBSET T : h[s] = IF s = {} THEN 0 ELSE f[Some(s)] + h[s \ {Some(s)}]
  BY DEF IsSum
<1>3. \A s \in SUBSET T : s # {} => Some(s) \in s /\ f[Some(s)] \in Nat
  BY DEF Some, Numbers
<1>4. \A s \in SUBSET T : \A x \in s : s \ {x} \in SUBSET T /\ Cardinality(s \ {x}) < Cardinality(s)
  <2>1. ASSUME NEW s \in SUBSET T, NEW x \in s PROVE Cardinality(s \ {x}) < Cardinality(s)
    <3>1. Cardinality(s) \in Nat /\ Cardinality(s \ {x}) = Cardinality(s) - 1
      BY <1>1, Smaller
    <3>2. QED
      BY <3>1
  <2>2. QED
    BY <2>1, Zenon
<1> DEFINE NoNumber == {k \in Nat : \E s \in SUBSET T : Cardinality(s) = k /\ h[s] \notin Nat}
<1>5. CASE NoNumber # {}
  <2>1. PICK k \in NoNumber : \A j \in NoNumber : k <= j
    BY <1>5, Least
  <2>2. PICK s \in SUBSET T : Cardinality(s) = k /\ h[s] \notin Nat
    BY <2>1
  <2>3. s # {}
    <3>1. s = {} => h[s] = 0
      BY <1>2
    <3>2. QED
      BY <2>2, <3>1
  <2>4. PICK t : t = s \ {Some(s)}
    OBVIOUS
  <2>5. t \in SUBSET T /\ Cardinality(t) < k /\ Cardinality(t) \in Nat
    BY <1>1, <1>3, <1>4, <2>2, <2>3, <2>4
  <2>6. Cardinality(t) \notin NoNumber
    BY <2>1, <2>5
  <2>7. h[t] \in Nat
    BY <2>5, <2>6
  <2>8. h[s] = f[Some(s)] + h[t]
    BY <1>2, <2>3, <2>4
  <2>9. QED
    BY <1>3, <2>2, <2>3, <2>7, <2>8
<1>6. \A s \in SUBSET T : h[s] \in Nat
  BY <1>1, <1>5
<1> DEFINE Matters == {k \in Nat : \E s \in SUBSET T : Cardinality(s) = k /\ \E a \in s : h[s] # f[a] + h[s \ {a}]}
<1>7. CASE Matters # {}
  <2>1. PICK k \in Matters : \A j \in Matters : k <= j
    BY <1>7, Least
  <2>2. PICK s \in SUBSET T : Cardinality(s) = k /\ \E a \in s : h[s] # f[a] + h[s \ {a}]
    BY <2>1
  <2>3. PICK a \in s : h[s] # f[a] + h[s \ {a}]
    BY <2>2
  <2>4. PICK x : x = Some(s)
    OBVIOUS
  <2>5. x \in s /\ h[s] = f[x] + h[s \ {x}] /\ x # a
    BY <1>2, <1>3, <2>3, <2>4
  <2>6. ASSUME NEW y \in s, NEW z \in s \ {y} PROVE h[s \ {y}] = f[z] + h[(s \ {y}) \ {z}]
    <3>1. s \ {y} \in SUBSET T /\ Cardinality(s \ {y}) < k /\ Cardinality(s \ {y}) \in Nat
      BY <1>1, <1>4, <2>2
    <3>2. Cardinality(s \ {y}) \notin Matters
      <4>1. k \in Nat /\ ~ (k <= Cardinality(s \ {y}))
        BY <2>1, <3>1
      <4>2. QED
        BY <2>1, <4>1
    <3>3. QED
      BY <3>1, <3>2
  <2>7. h[s \ {x}] = f[a] + h[(s \ {x}) \ {a}] /\ h[s \ {a}] = f[x] + h[(s \ {a}) \ {x}]
    BY <2>3, <2>5, <2>6
  <2>8. PICK t : t = (s \ {x}) \ {a}
    OBVIOUS
  <2>9. (s \ {a}) \ {x} = t /\ t \in SUBSET T
    BY <2>8
  <2>10. h[t] \in Nat /\ f[a] \in Nat /\ f[x] \in Nat
    BY <1>6, <2>3, <2>5, <2>9 DEF Numbers
  <2>11. h[s] = f[x] + (f[a] + h[t]) /\ h[s \ {a}] = f[x] + h[t]
    BY <2>5, <2>7, <2>8, <2>9
  <2>12. QED
    BY <2>3, <2>10, <2>11
<1>8. QED
  BY <1>1, <1>6, <1>7

\* A sum over a set with one more element
LEMMA SumWith ==
    ASSUME NEW T, NEW f, NEW a, NEW V, NEW g, Without(g, V, f, T, a)
    PROVE  SumOf(g, V) \in Nat /\ SumOf(f, T) = f[a] + SumOf(g, V)
<1>0. Numbers(f, T) /\ a \in T /\ V = T \ {a} /\ Numbers(g, V) /\ \A i \in V : g[i] = f[i]
  BY DEF Without
<1>1. IsFiniteSet(T) /\ IsFiniteSet(V) /\ V \in SUBSET T
  BY <1>0 DEF Numbers
<1>2. PICK h : IsSum(h, f, T) /\ SumOf(f, T) = h[T]
  BY <1>1, SumIs
<1>3. PICK k : IsSum(k, g, V) /\ SumOf(g, V) = k[V]
  BY <1>1, SumIs
<1>4. /\ \A s \in SUBSET T : h[s] \in Nat /\ \A x \in s : h[s] = f[x] + h[s \ {x}]
      /\ \A s \in SUBSET V : k[s] \in Nat /\ \A x \in s : k[s] = g[x] + k[s \ {x}]
  <2>1. \A s \in SUBSET T : h[s] \in Nat /\ \A x \in s : h[s] = f[x] + h[s \ {x}]
    BY <1>0, <1>2, TakeAny
  <2>2. \A s \in SUBSET V : k[s] \in Nat /\ \A x \in s : k[s] = g[x] + k[s \ {x}]
    BY <1>0, <1>3, TakeAny
  <2>3. QED
    BY <2>1, <2>2
<1>5. h[{}] = 0 /\ k[{}] = 0
  <2>1. {} \in SUBSET T /\ {} \in SUBSET V
    OBVIOUS
  <2>2. QED
    BY <1>2, <1>3, <2>1 DEF IsSum
<1> DEFINE Differ == {n \in Nat : \E s \in SUBSET V : Cardinality(s) = n /\ h[s] # k[s]}
<1>6. ASSUME Differ # {} PROVE FALSE
  <2>1. PICK n \in Differ : \A m \in Differ : n <= m
    BY <1>6, Least
  <2>2. PICK s \in SUBSET V : Cardinality(s) = n /\ h[s] # k[s]
    BY <2>1
  <2>3. PICK x : x \in s
    BY <1>5, <2>2
  <2>4. PICK t : t = s \ {x}
    OBVIOUS
  <2>5. IsFiniteSet(s)
    BY <1>1, FS_Subset
  <2>6. t \in SUBSET V /\ Cardinality(t) = n - 1 /\ n # 0
    BY <2>2, <2>3, <2>4, <2>5, Smaller
  <2>7. n - 1 \in Nat /\ n - 1 \notin Differ
    BY <2>1, <2>6
  <2>8. h[t] = k[t]
    BY <2>6, <2>7
  <2>9. h[s] = f[x] + h[t] /\ k[s] = g[x] + k[t] /\ f[x] = g[x]
    BY <1>0, <1>1, <1>4, <2>2, <2>3, <2>4
  <2>10. QED
    BY <2>2, <2>8, <2>9
<1>7. \A s \in SUBSET V : h[s] = k[s]
  <2>1. \A s \in SUBSET V : Cardinality(s) \in Nat
    BY <1>1, FS_Subset, FS_CardinalityType
  <2>2. QED
    BY <1>6, <2>1
<1>8. h[T] = f[a] + h[V]
  BY <1>0, <1>4
<1>9. h[V] = k[V] /\ k[V] \in Nat
  BY <1>4, <1>7
<1>10. QED
  BY <1>2, <1>3, <1>8, <1>9

UsageRecord == [user : Users, tokens : Nat, cost : Nat, day : 0..MaxDays]
Records == Seq(UsageRecord)
Amount(s, rec) == IF s \in B!Bills THEN rec.cost ELSE rec.tokens
AmountOf(s, rs, T) == SumOf([i \in T |-> Amount(s, rs[i])], T)

\* What is counted is the records of this process.
Mine == (since + 1)..Len(records)
InTime(s) == {i \in Mine : /\ s \in B!Daily => records[i].day = dayKey
                           /\ s \in B!Monthly => B!month(records[i].day) = monthKey}
OfUser(u) == {i \in Mine : records[i].day = dayKey /\ records[i].user = u}
UsageTypes ==
    /\ records \in Records /\ since \in 0..Len(records)
    /\ of \in [Requests -> Users] /\ requestAt \in [Requests -> {"idle", "asking", "recorded", "saving"}]
    /\ day \in 0..MaxDays /\ dayKey \in 0..day /\ monthKey = B!month(dayKey)
    /\ used \in [B!Counted -> Nat] /\ user \in [Users -> Nat]
    /\ \A i \in Mine : records[i].day <= dayKey
Counts ==
    /\ \A s \in B!Counted : used[s] = AmountOf(s, records, InTime(s))
    /\ \A u \in Users : user[u] = AmountOf("session", records, OfUser(u))

\* What was written was, and is, the beginning of the records.
Starts(rs) == rs \in Records /\ Len(rs) <= Len(records) /\ \A i \in 1..Len(rs) : rs[i] = records[i]
Written == (file = Torn \/ Starts(file)) /\ \A r \in Requests : Starts(snapshot[r])

\* Each request that is not asking any more used at most what one may use.
Most(s) == B!Max(B!Uses(s))
Asking == {r \in Requests : requestAt[r] = "asking"}
Within ==
    /\ \A s \in B!Counted : Limit[s] > 0 =>
          used[s] < Limit[s] \/ used[s] < Limit[s] + Cardinality(Requests \ Asking) * Most(s)
    /\ Listens => \A s \in B!Alerted : B!Reached(s) <=> [span |-> s, level |-> 100] \in alerts

UsageInv == UsageTypes /\ Counts /\ Written /\ Within

LEMMA GreatestOf ==
    ASSUME NEW S \in SUBSET Nat, S # {}, IsFiniteSet(S)
    PROVE  \E most \in S : \A n \in S : most >= n
<1> DEFINE Heads == {m \in Nat : \E n \in S : Cardinality({x \in S : x >= n}) = m}
<1>1. \A n \in S : Cardinality({x \in S : x >= n}) \in Nat
  <2>1. ASSUME NEW n \in S PROVE Cardinality({x \in S : x >= n}) \in Nat
    <3>1. IsFiniteSet({x \in S : x >= n})
      BY FS_Subset
    <3>2. QED
      BY <3>1, FS_CardinalityType
  <2>2. QED
    BY <2>1
<1>2. Heads \in SUBSET Nat /\ Heads # {}
  BY <1>1
<1>3. PICK m \in Heads : \A k \in Heads : m <= k
  BY <1>2, Least
<1>4. PICK n \in S : Cardinality({x \in S : x >= n}) = m
  BY <1>3
<1>5. ASSUME NEW o \in S, ~ (n >= o) PROVE FALSE
  <2>1. PICK V, W1 : V = {x \in S : x >= n} /\ W1 = {x \in S : x >= o}
    OBVIOUS
  <2>2. W1 \subseteq V \ {n} /\ n \in V
    <3>1. n \in Nat /\ o \in Nat /\ n < o /\ \A x \in S : x \in Nat
      BY <1>5
    <3>2. \A x \in S : x >= o => x >= n /\ x # n
      BY <3>1
    <3>3. n >= n
      BY <3>1
    <3>4. QED
      BY <2>1, <3>2, <3>3
  <2>3. IsFiniteSet(V) /\ IsFiniteSet(V \ {n})
    BY <2>1, FS_Subset
  <2>4. Cardinality(V) \in Nat /\ Cardinality(V \ {n}) = Cardinality(V) - 1
    BY <2>2, <2>3, Smaller
  <2>5. Cardinality(W1) <= Cardinality(V \ {n}) /\ Cardinality(W1) \in Nat
    BY <2>2, <2>3, FS_Subset, FS_CardinalityType
  <2>6. Cardinality(W1) \in Heads /\ m = Cardinality(V)
    BY <1>4, <2>1, <2>5
  <2>7. QED
    BY <1>3, <2>4, <2>5, <2>6
<1>6. QED
  BY <1>5

LEMMA UsageConstants ==
    /\ IsFiniteSet(Requests) /\ Limit \in [B!Counted \cup {"user"} -> Nat] /\ DaysPerMonth \in Nat \ {0}
    /\ MaxDays \in Nat /\ Torn \notin Records /\ Listens \in BOOLEAN
    /\ \A s : B!Uses(s) \subseteq Nat /\ Most(s) \in Nat /\ \A n \in B!Uses(s) : n <= Most(s)
<1>1. /\ IsFiniteSet(Requests) /\ Limit \in [B!Counted \cup {"user"} -> Nat] /\ DaysPerMonth \in Nat \ {0}
      /\ MaxDays \in Nat /\ Torn \notin Records /\ Listens \in BOOLEAN
      /\ IsFiniteSet(Tokens) /\ Tokens \subseteq Nat /\ Tokens # {}
      /\ IsFiniteSet(Costs) /\ Costs \subseteq Nat /\ Costs # {}
  BY StoresAssumption DEF B!UsageAssumption, B!IsFiniteSet, IsFiniteSet, Records, UsageRecord
<1>2. \A s : B!Uses(s) \subseteq Nat /\ B!Uses(s) # {} /\ IsFiniteSet(B!Uses(s))
  BY <1>1 DEF B!Uses
<1>3. ASSUME NEW s PROVE Most(s) \in B!Uses(s) /\ \A n \in B!Uses(s) : Most(s) >= n
  <2>1. PICK S : S = B!Uses(s)
    OBVIOUS
  <2>2. \E most \in S : \A n \in S : most >= n
    BY <1>2, <2>1, GreatestOf
  <2>3. QED
    BY <2>1, <2>2 DEF Most, B!Max
<1>4. \A s : Most(s) \in Nat /\ \A n \in B!Uses(s) : n <= Most(s)
  BY <1>2, <1>3
<1>5. QED
  BY <1>1, <1>2, <1>4

LEMMA MonthGrows ==
    ASSUME NEW d \in Nat, NEW e \in Nat, d <= e
    PROVE  B!month(d) \in Nat /\ B!month(d) <= B!month(e) /\ B!month(0) = 0
BY UsageConstants DEF B!month

LEMMA NoAmount == ASSUME NEW s, NEW rs PROVE AmountOf(s, rs, {}) = 0
<1>1. PICK f : f = [i \in {} |-> Amount(s, rs[i])]
  OBVIOUS
<1>2. PICK h : IsSum(h, f, {}) /\ SumOf(f, {}) = h[{}]
  BY SumIs, FS_EmptySet
<1>3. QED
  BY <1>1, <1>2 DEF AmountOf, IsSum

\* A new record is added to what is counted, or not.
OneMore(rs, new, n, next) ==
    /\ rs \in Records /\ new \in Records /\ n \in Nat /\ next = n + 1
    /\ Len(rs) = n /\ Len(new) = next /\ \A i \in 1..n : new[i] = rs[i]
CountsOneMore(s, rs, new, next, T) ==
    /\ AmountOf(s, new, T) = AmountOf(s, rs, T) /\ AmountOf(s, rs, T) \in Nat
    /\ AmountOf(s, new, T \cup {next}) = Amount(s, new[next]) + AmountOf(s, rs, T)
LEMMA RecordCounts ==
    ASSUME NEW s, NEW rs, NEW new, NEW n, NEW next, OneMore(rs, new, n, next), NEW T \in SUBSET (1..n)
    PROVE  CountsOneMore(s, rs, new, next, T)
<1>0. /\ rs \in Records /\ new \in Records /\ n \in Nat /\ next = n + 1
      /\ Len(rs) = n /\ Len(new) = n + 1 /\ \A i \in 1..n : new[i] = rs[i]
  BY DEF OneMore
<1>1. \A i \in 1..(n + 1) : Amount(s, new[i]) \in Nat
  <2>1. \A i \in 1..(n + 1) : new[i] \in UsageRecord
    BY <1>0 DEF Records
  <2>2. \A i \in 1..(n + 1) : new[i].tokens \in Nat /\ new[i].cost \in Nat
    BY <2>1 DEF UsageRecord
  <2>3. QED
    BY <2>2 DEF Amount
<1>2. [i \in T |-> Amount(s, new[i])] = [i \in T |-> Amount(s, rs[i])]
  BY <1>0
<1>3. PICK V, f, g : V = T \cup {n + 1} /\ f = [i \in V |-> Amount(s, new[i])] /\ g = [i \in T |-> f[i]]
  OBVIOUS
<1>4. /\ V \subseteq 1..(n + 1) /\ T = V \ {n + 1} /\ n + 1 \in V /\ f \in [V -> Nat]
      /\ g = [i \in T |-> Amount(s, new[i])] /\ f[n + 1] = Amount(s, new[n + 1])
  BY <1>0, <1>1, <1>3
<1>5. IsFiniteSet(V)
  <2>1. IsFiniteSet(1..(n + 1))
    BY <1>0, FS_Interval
  <2>2. QED
    BY <1>4, <2>1, FS_Subset
<1>6. SumOf(g, T) \in Nat /\ SumOf(f, V) = f[n + 1] + SumOf(g, T)
  <2>1. PICK place : place = n + 1
    OBVIOUS
  <2>2. Without(g, T, f, V, place)
    <3>1. IsFiniteSet(T)
      BY <1>4, <1>5, FS_Subset
    <3>2. g \in [T -> Nat]
      BY <1>1, <1>4
    <3>3. QED
      BY <1>3, <1>4, <1>5, <2>1, <3>1, <3>2 DEF Numbers, Without
  <2>3. SumOf(g, T) \in Nat /\ SumOf(f, V) = f[place] + SumOf(g, T)
    BY <2>2, SumWith
  <2>4. QED
    BY <2>1, <2>3
<1>7. QED
  BY <1>0, <1>2, <1>3, <1>4, <1>6 DEF AmountOf, CountsOneMore

LEMMA UsageInit == ASSUME B!Init PROVE UsageInv
<1>1. /\ day = 0 /\ used = [s \in B!Counted |-> 0] /\ user = [u \in Users |-> 0] /\ dayKey = 0 /\ monthKey = 0
      /\ records = << >> /\ file = << >> /\ snapshot = [r \in Requests |-> << >>]
      /\ requestAt = [r \in Requests |-> "idle"] /\ of \in [Requests -> Users] /\ since = 0
  BY DEF B!Init, B!NoUse, B!NoUser
<1>0. alerts = {}
  BY DEF B!Init
<1>2. Mine = {}
  BY <1>1 DEF Mine
<1>3. UsageTypes
  <2>1. records \in Records /\ 0 \in 0..Len(records) /\ 0 \in 0..MaxDays /\ B!month(0) = 0
    <3>1. 0 \in Nat /\ 0 <= 0
      OBVIOUS
    <3>2. B!month(0) = 0
      BY <3>1, MonthGrows
    <3>3. << >> \in Records /\ Len(<< >>) = 0 /\ 0 \in 0..MaxDays
      BY UsageConstants DEF Records
    <3>4. QED
      BY <1>1, <3>2, <3>3
  <2>2. QED
    BY <1>1, <1>2, <2>1 DEF UsageTypes
<1>4. Counts
  <2>1. (\A s : InTime(s) = {}) /\ \A u : OfUser(u) = {}
    BY <1>2 DEF InTime, OfUser
  <2>2. QED
    BY <1>1, <2>1, NoAmount DEF Counts
<1>5. Written
  BY <1>1 DEF Written, Starts, Records
<1>6. Within
  <2>1. \A s \in B!Counted : used[s] = 0 /\ Limit[s] \in Nat
    BY <1>1, UsageConstants
  <2>2. \A s \in B!Alerted : ~B!Reached(s)
    BY <2>1 DEF B!Reached, B!Alerted
  <2>3. QED
    BY <1>0, <2>1, <2>2 DEF Within
<1>7. QED
  BY <1>3, <1>4, <1>5, <1>6 DEF UsageInv

\* What a record changes, and nothing else
Over(s) == (dayKey # day /\ s \in B!Daily) \/ (monthKey # B!month(day) /\ s \in B!Monthly)
LEMMA RecordDoes ==
    ASSUME UsageInv, NEW r \in Requests, NEW n \in Tokens, NEW c \in Costs, B!Record(r, n, c)
    PROVE  /\ requestAt[r] = "asking" /\ requestAt' = [requestAt EXCEPT ![r] = "recorded"]
           /\ UNCHANGED <<day, file, snapshot, of, since>>
           /\ dayKey' = day /\ monthKey' = B!month(day)
           /\ records' = Append(records, [user |-> of[r], tokens |-> n, cost |-> c, day |-> day])
           /\ used' \in [B!Counted -> Nat] /\ user' \in [Users -> Nat]
           /\ \A s \in B!Counted :
                 used'[s] = (IF Over(s) THEN 0 ELSE used[s]) + (IF s \in B!Bills THEN c ELSE n)
           /\ \A u \in Users : user'[u] = (IF dayKey # day THEN 0 ELSE user[u]) + (IF u = of[r] THEN n ELSE 0)
<1>1. /\ requestAt[r] = "asking" /\ requestAt' = [requestAt EXCEPT ![r] = "recorded"]
      /\ UNCHANGED <<day, file, snapshot, of, since>>
      /\ dayKey' = day /\ monthKey' = B!month(day)
      /\ records' = Append(records, [user |-> of[r], tokens |-> n, cost |-> c, day |-> day])
  BY DEF B!Record, B!Move
<1>2. n \in Nat /\ c \in Nat /\ of[r] \in Users /\ used \in [B!Counted -> Nat] /\ user \in [Users -> Nat]
  <2>1. Tokens \subseteq Nat /\ Costs \subseteq Nat
    BY StoresAssumption DEF B!UsageAssumption
  <2>2. QED
    BY <2>1 DEF UsageInv, UsageTypes
<1>3. used' = [s \in B!Counted |-> (IF Over(s) THEN 0 ELSE used[s]) + (IF s \in B!Bills THEN c ELSE n)]
  BY DEF B!Record, Over
<1>4. \A s \in B!Counted : (IF Over(s) THEN 0 ELSE used[s]) + (IF s \in B!Bills THEN c ELSE n) \in Nat
  BY <1>2
<1>5. used' \in [B!Counted -> Nat]
  BY <1>3, <1>4
<1>8. PICK before : before = B!ResetUsers(dayKey # day)
  OBVIOUS
<1>9. before \in [Users -> Nat] /\ \A u \in Users : before[u] = IF dayKey # day THEN 0 ELSE user[u]
  BY <1>2, <1>8 DEF B!ResetUsers
<1>10. user' = [before EXCEPT ![of[r]] = before[of[r]] + n]
  BY <1>8 DEF B!Record
<1>11. user' \in [Users -> Nat] /\ \A u \in Users : user'[u] = before[u] + (IF u = of[r] THEN n ELSE 0)
  BY <1>2, <1>9, <1>10
<1>12. QED
  BY <1>1, <1>3, <1>5, <1>9, <1>11

LEMMA RecordTypes ==
    ASSUME UsageInv, NEW r \in Requests, NEW n \in Tokens, NEW c \in Costs, B!Record(r, n, c)
    PROVE  /\ UsageTypes' /\ Mine' = Mine \cup {Len(records) + 1} /\ Mine \in SUBSET (1..Len(records))
           /\ \A i \in 1..Len(records) : records'[i] = records[i]
           /\ records'[Len(records) + 1] = [user |-> of[r], tokens |-> n, cost |-> c, day |-> day]
           /\ [user |-> of[r], tokens |-> n, cost |-> c, day |-> day] \in UsageRecord
           /\ Len(records') = Len(records) + 1
<1>1. PICK new, size : new = [user |-> of[r], tokens |-> n, cost |-> c, day |-> day] /\ size = Len(records)
  OBVIOUS
<1>2. new \in UsageRecord
  <2>1. n \in Nat /\ c \in Nat
    BY StoresAssumption DEF B!UsageAssumption
  <2>2. QED
    BY <1>1, <2>1, UsageConstants DEF UsageInv, UsageTypes, UsageRecord
<1>3. /\ records' \in Records /\ size \in Nat /\ Len(records') = size + 1 /\ records'[size + 1] = new
      /\ \A i \in 1..size : records'[i] = records[i]
  <2>1. records \in Seq(UsageRecord) /\ records' = Append(records, new)
    BY <1>1, RecordDoes DEF UsageInv, UsageTypes, Records
  <2>2. QED
    BY <1>1, <1>2, <2>1, Appended DEF Records
<1>4. since \in 0..size /\ since' = since
  BY <1>1, RecordDoes DEF UsageInv, UsageTypes
<1>5. Mine = (since + 1)..size /\ Mine' = (since + 1)..(size + 1)
  BY <1>1, <1>3, <1>4 DEF Mine
<1>6. Mine' = Mine \cup {size + 1} /\ Mine \in SUBSET (1..size)
  BY <1>3, <1>4, <1>5
<1>7. \A i \in Mine' : records'[i].day <= day
  <2>1. day \in Nat /\ dayKey \in Nat /\ dayKey <= day /\ day <= day
    BY UsageConstants DEF UsageInv, UsageTypes
  <2>2. ASSUME NEW i \in Mine PROVE records'[i].day <= day
    <3>1. records[i].day <= dayKey /\ records'[i] = records[i] /\ records[i] \in UsageRecord
      BY <1>1, <1>3, <1>6, <2>2 DEF UsageInv, UsageTypes, Records
    <3>2. records[i].day \in Nat
      BY <3>1, UsageConstants DEF UsageRecord
    <3>3. QED
      BY <2>1, <3>1, <3>2
  <2>3. records'[size + 1].day = day
    BY <1>1, <1>3
  <2>4. QED
    BY <1>6, <2>1, <2>2, <2>3
<1>8. UsageTypes'
  <2>1. /\ dayKey' = day /\ monthKey' = B!month(day) /\ UNCHANGED <<day, of, since>>
        /\ used' \in [B!Counted -> Nat] /\ user' \in [Users -> Nat]
        /\ requestAt' = [requestAt EXCEPT ![r] = "recorded"]
    BY RecordDoes
  <2>2. day \in 0..day /\ since \in 0..(size + 1)
    BY <1>3, <1>4, UsageConstants DEF UsageInv, UsageTypes
  <2>3. B!month(dayKey)' = B!month(day)
    BY <2>1 DEF B!month
  <2>4. QED
    BY <1>3, <1>7, <2>1, <2>2, <2>3 DEF UsageInv, UsageTypes
<1>9. QED
  BY <1>1, <1>2, <1>3, <1>6, <1>8

LEMMA RecordIsCounted ==
    ASSUME UsageInv, NEW r \in Requests, NEW n \in Tokens, NEW c \in Costs, B!Record(r, n, c)
    PROVE  Counts'
<1>1. PICK new, size, place :
         /\ new = [user |-> of[r], tokens |-> n, cost |-> c, day |-> day]
         /\ size = Len(records) /\ place = Len(records) + 1
  OBVIOUS
<1>2. /\ new \in UsageRecord /\ new.tokens = n /\ new.cost = c /\ new.day = day /\ new.user = of[r]
      /\ n \in Nat /\ c \in Nat
      /\ records \in Records /\ records' = Append(records, new)
      /\ Mine' = Mine \cup {place} /\ Mine \in SUBSET (1..size) /\ place = size + 1 /\ size \in Nat
      /\ \A i \in Mine : records'[i] = records[i]
      /\ records'[place] = new /\ dayKey' = day /\ monthKey' = B!month(day)
  <2>1. n \in Nat /\ c \in Nat
    BY StoresAssumption DEF B!UsageAssumption
  <2>2. QED
    BY <1>1, <2>1, RecordDoes, RecordTypes DEF UsageInv, UsageTypes
<1>3. ASSUME NEW s, NEW T \in SUBSET (1..size)
      PROVE  /\ AmountOf(s, records', T) = AmountOf(s, records, T) /\ AmountOf(s, records, T) \in Nat
             /\ AmountOf(s, records', T \cup {place}) = (IF s \in B!Bills THEN c ELSE n) + AmountOf(s, records, T)
  <2>1. /\ records \in Records /\ records' \in Records /\ size \in Nat /\ Len(records) = size
        /\ Len(records') = size + 1 /\ \A i \in 1..size : records'[i] = records[i]
        /\ Amount(s, records'[size + 1]) = IF s \in B!Bills THEN c ELSE n
    BY <1>1, <1>2, RecordTypes DEF UsageInv, UsageTypes, Amount
  <2>2. PICK old, now : old = records /\ now = records'
    OBVIOUS
  <2>3. OneMore(old, now, size, place)
    BY <1>2, <2>1, <2>2 DEF OneMore
  <2>4. /\ AmountOf(s, now, T) = AmountOf(s, old, T) /\ AmountOf(s, old, T) \in Nat
        /\ AmountOf(s, now, T \cup {place}) = Amount(s, now[place]) + AmountOf(s, old, T)
    BY <1>3, <2>3, RecordCounts DEF CountsOneMore
  <2>5. QED
    BY <1>2, <2>1, <2>2, <2>4
<1>4. \A i \in Mine : records[i].day \in Nat /\ records[i].day <= dayKey /\ dayKey <= day
                      /\ dayKey \in Nat /\ day \in Nat
  <2>1. SUFFICES ASSUME NEW i \in Mine PROVE records[i].day \in Nat
    BY UsageConstants DEF UsageInv, UsageTypes
  <2>2. records[i] \in UsageRecord
    BY <1>1, <1>2 DEF Records
  <2>3. QED
    BY <2>2, UsageConstants DEF UsageRecord
<1>5. PICK month : month = B!month(day) /\ monthKey' = month
  BY <1>2
<1>6. monthKey # month => \A i \in Mine : B!month(records[i].day) # month
  <2>1. ASSUME monthKey # month, NEW i \in Mine PROVE B!month(records[i].day) # month
    <3>1. monthKey = B!month(dayKey)
      BY DEF UsageInv, UsageTypes
    <3>2. B!month(records[i].day) <= monthKey /\ monthKey <= month /\ B!month(records[i].day) \in Nat /\ monthKey \in Nat
      BY <1>4, <1>5, <3>1, MonthGrows
    <3>3. month \in Nat
      BY <1>4, <1>5, MonthGrows
    <3>4. QED
      BY <2>1, <3>2, <3>3
  <2>2. QED
    BY <2>1
<1>7. dayKey # day => \A i \in Mine : records[i].day # day
  BY <1>4
<1>8. ASSUME NEW s \in B!Counted
      PROVE  used'[s] = AmountOf(s, records', InTime(s)')
  <2>1. PICK T : T = IF Over(s) THEN {} ELSE InTime(s)
    OBVIOUS
  <2>2. InTime(s)' = {i \in Mine' : /\ s \in B!Daily => records'[i].day = day
                                    /\ s \in B!Monthly => B!month(records'[i].day) = month}
    BY <1>2, <1>5 DEF InTime, B!month
  <2>3. \A i \in Mine : records'[i].day = records[i].day /\ B!month(records'[i].day) = B!month(records[i].day)
    BY <1>2
  <2>4. records'[place].day = day /\ B!month(records'[place].day) = month /\ place \in Mine'
    BY <1>2, <1>5
  <2>5. InTime(s)' = T \cup {place}
    <3>1. CASE Over(s)
      <4>1. \A i \in Mine : i \notin InTime(s)'
        BY <1>5, <1>6, <1>7, <2>2, <2>3, <3>1 DEF Over
      <4>2. QED
        BY <1>2, <2>1, <2>2, <2>4, <3>1, <4>1
    <3>2. CASE ~Over(s)
      <4>1. \A i \in Mine : i \in InTime(s) <=> i \in InTime(s)'
        BY <1>2, <1>5, <2>2, <2>3, <3>2 DEF Over, InTime
      <4>2. InTime(s) \subseteq Mine /\ InTime(s)' \subseteq Mine'
        BY <2>2 DEF InTime
      <4>3. place \in InTime(s)'
        BY <2>2, <2>4
      <4>4. QED
        BY <1>2, <2>1, <3>2, <4>1, <4>2, <4>3
    <3>3. QED
      BY <3>1, <3>2
  <2>6. AmountOf(s, records, T) = IF Over(s) THEN 0 ELSE used[s]
    BY <2>1, NoAmount DEF UsageInv, Counts
  <2>7. T \in SUBSET (1..size)
    BY <1>2, <2>1 DEF InTime
  <2>8. /\ AmountOf(s, records', T \cup {place}) = (IF s \in B!Bills THEN c ELSE n) + AmountOf(s, records, T)
        /\ AmountOf(s, records, T) \in Nat
    BY <1>3, <2>7
  <2>9. used'[s] = AmountOf(s, records, T) + (IF s \in B!Bills THEN c ELSE n)
    <3>1. used'[s] = (IF Over(s) THEN 0 ELSE used[s]) + (IF s \in B!Bills THEN c ELSE n)
      BY <1>8, RecordDoes
    <3>2. QED
      BY <2>6, <3>1
  <2>10. (IF s \in B!Bills THEN c ELSE n) \in Nat
    BY <1>2
  <2>11. QED
    BY <2>5, <2>8, <2>9, <2>10
<1>9. ASSUME NEW u \in Users
      PROVE  user'[u] = AmountOf("session", records', OfUser(u)')
  <2>1. PICK T : T = IF dayKey # day THEN {} ELSE OfUser(u)
    OBVIOUS
  <2>2. OfUser(u)' = IF u = of[r] THEN T \cup {place} ELSE T
    <3>1. OfUser(u)' = {i \in Mine' : records'[i].day = day /\ records'[i].user = u}
      BY <1>2 DEF OfUser
    <3>2. CASE dayKey = day
      <4>1. T = {i \in Mine : records[i].day = day /\ records[i].user = u}
        BY <2>1, <3>2 DEF OfUser
      <4>2. \A i \in Mine : records'[i].day = records[i].day /\ records'[i].user = records[i].user
        BY <1>2
      <4>3. place \in OfUser(u)' <=> u = of[r]
        BY <1>2, <3>1
      <4>4. \A i \in Mine : i \in OfUser(u)' <=> i \in T
        BY <1>2, <3>1, <3>2, <4>1, <4>2
      <4>5. T \subseteq Mine /\ OfUser(u)' \subseteq Mine \cup {place} /\ place \notin Mine
        BY <1>2, <3>1, <4>1
      <4>6. QED
        BY <4>3, <4>4, <4>5
    <3>3. CASE dayKey # day
      <4>1. place \in OfUser(u)' <=> u = of[r]
        BY <1>2, <3>1
      <4>2. \A i \in Mine : i \notin OfUser(u)'
        BY <1>2, <1>7, <3>1, <3>3
      <4>3. T = {} /\ OfUser(u)' \subseteq Mine \cup {place}
        BY <1>2, <2>1, <3>1, <3>3
      <4>4. QED
        BY <4>1, <4>2, <4>3
    <3>4. QED
      BY <3>2, <3>3
  <2>3. AmountOf("session", records, T) = IF dayKey # day THEN 0 ELSE user[u]
    BY <2>1, NoAmount DEF UsageInv, Counts
  <2>4. T \in SUBSET (1..size)
    BY <1>2, <2>1 DEF OfUser
  <2>5. /\ AmountOf("session", records', T \cup {place}) = n + AmountOf("session", records, T)
        /\ AmountOf("session", records, T) \in Nat
        /\ AmountOf("session", records', T) = AmountOf("session", records, T)
    <3>1. "session" \notin B!Bills
      BY DEF B!Bills
    <3>2. QED
      BY <1>3, <2>4, <3>1
  <2>6. user'[u] = AmountOf("session", records, T) + (IF u = of[r] THEN n ELSE 0)
    <3>1. user'[u] = (IF dayKey # day THEN 0 ELSE user[u]) + (IF u = of[r] THEN n ELSE 0)
      BY RecordDoes
    <3>2. QED
      BY <2>3, <3>1
  <2>7. n \in Nat
    BY <1>2
  <2>8. CASE u = of[r]
    BY <2>2, <2>5, <2>6, <2>7, <2>8
  <2>9. CASE u # of[r]
    BY <2>2, <2>5, <2>6, <2>9
  <2>10. QED
    BY <2>8, <2>9
<1>10. (\A s : AmountOf(s, records, InTime(s))' = AmountOf(s, records', InTime(s)'))
       /\ \A u : AmountOf("session", records, OfUser(u))' = AmountOf("session", records', OfUser(u)')
  BY DEF AmountOf, Amount
<1>11. QED
  BY <1>8, <1>9, <1>10 DEF Counts

LEMMA RecordWithin ==
    ASSUME UsageInv, NEW r \in Requests, NEW n \in Tokens, NEW c \in Costs, B!Record(r, n, c)
    PROVE  Within'
<1>1. PICK done, a : done = Requests \ Asking /\ a = Cardinality(done)
  OBVIOUS
<1>2. /\ requestAt[r] = "asking" /\ requestAt' = [requestAt EXCEPT ![r] = "recorded"]
      /\ requestAt \in [Requests -> {"idle", "asking", "recorded", "saving"}]
  BY RecordDoes DEF UsageInv, UsageTypes
<1>3. Requests \ Asking' = done \cup {r} /\ r \notin done
  BY <1>1, <1>2 DEF Asking
<1>4. IsFiniteSet(done)
  BY <1>1, UsageConstants, FS_Subset
<1>5. a \in Nat /\ Cardinality(Requests \ Asking') = a + 1
  BY <1>1, <1>3, <1>4, FS_AddElement, FS_CardinalityType
<1>6. n \in Nat /\ c \in Nat
  BY StoresAssumption DEF B!UsageAssumption
<1>7. ASSUME NEW s \in B!Counted, Limit[s] > 0
      PROVE  used'[s] < Limit[s] + Cardinality(Requests \ Asking') * Most(s)
  <2>1. Limit[s] \in Nat /\ used[s] \in Nat
    BY UsageConstants DEF UsageInv, UsageTypes
  <2>2. PICK p, m, x : p = a * Most(s) /\ m = Most(s) /\ x = IF s \in B!Bills THEN c ELSE n
    OBVIOUS
  <2>3. m \in Nat /\ p \in Nat /\ (a + 1) * m = p + m
    <3>1. m \in Nat /\ p = a * m
      BY <2>2, UsageConstants
    <3>2. \A i, j \in Nat : i * j \in Nat /\ (i + 1) * j = i * j + j
      OBVIOUS
    <3>3. QED
      BY <1>5, <3>1, <3>2
  <2>4. x \in Nat /\ x <= m
    <3>1. x \in B!Uses(s)
      BY <2>2 DEF B!Uses
    <3>2. QED
      BY <2>2, <3>1, UsageConstants
  <2>5. used[s] < Limit[s] \/ used[s] < Limit[s] + p
    BY <1>1, <1>7, <2>2 DEF UsageInv, Within
  <2>6. used'[s] = used[s] + x \/ used'[s] = 0 + x
    BY <2>2, RecordDoes
  <2>7. used'[s] < Limit[s] + (p + m)
    BY <1>7, <2>1, <2>3, <2>4, <2>5, <2>6
  <2>8. QED
    BY <1>5, <2>2, <2>3, <2>7
<1>8. ASSUME Listens, NEW s \in B!Alerted PROVE B!Reached(s)' <=> [span |-> s, level |-> 100] \in alerts'
  <2>1. s \in B!Counted
    BY <1>8 DEF B!Alerted
  <2>2. Limit[s] \in Nat /\ used'[s] \in Nat
    BY <2>1, RecordDoes, UsageConstants
  <2>3. B!Reached(s)' <=> Limit[s] > 0 /\ B!Level(s)' = 100
    <3>1. B!Reached(s)' <=> Limit[s] > 0 /\ used'[s] >= Limit[s]
      BY DEF B!Reached
    <3>2. B!Level(s)' = 100 <=> used'[s] * 100 >= Limit[s] * 100
      BY DEF B!Level
    <3>3. used'[s] * 100 >= Limit[s] * 100 <=> used'[s] >= Limit[s]
      BY <2>2
    <3>4. QED
      BY <3>1, <3>2, <3>3
  <2>4. alerts' = {[span |-> t, level |-> B!Level(t)'] : t \in {u \in B!Alerted : Listens /\ Limit[u] > 0 /\ B!Level(u)' > 0}}
    BY DEF B!Record, B!checkLimits
  <2>5. [span |-> s, level |-> 100] \in alerts' <=> Limit[s] > 0 /\ B!Level(s)' = 100
    <3>1. ASSUME [span |-> s, level |-> 100] \in alerts' PROVE Limit[s] > 0 /\ B!Level(s)' = 100
      <4>1. PICK t \in {u \in B!Alerted : Listens /\ Limit[u] > 0 /\ B!Level(u)' > 0} :
                [span |-> s, level |-> 100] = [span |-> t, level |-> B!Level(t)']
        BY <2>4, <3>1
      <4>2. t = s /\ B!Level(t)' = 100
        BY <4>1
      <4>3. QED
        BY <4>1, <4>2
    <3>2. ASSUME Limit[s] > 0, B!Level(s)' = 100 PROVE [span |-> s, level |-> 100] \in alerts'
      <4>1. s \in {u \in B!Alerted : Listens /\ Limit[u] > 0 /\ B!Level(u)' > 0}
        BY <1>8, <3>2
      <4>2. QED
        BY <2>4, <3>2, <4>1
    <3>3. QED
      BY <3>1, <3>2
  <2>6. QED
    BY <2>3, <2>5
<1>9. QED
  BY <1>7, <1>8 DEF Within

LEMMA RecordInv ==
    ASSUME UsageInv, NEW r \in Requests, NEW n \in Tokens, NEW c \in Costs, B!Record(r, n, c)
    PROVE  UsageInv'
<1>1. /\ UNCHANGED <<file, snapshot>> /\ Len(records') = Len(records) + 1 /\ Len(records) \in Nat
      /\ \A i \in 1..Len(records) : records'[i] = records[i]
  <2>1. UNCHANGED <<file, snapshot>>
    BY RecordDoes
  <2>2. Len(records') = Len(records) + 1 /\ \A i \in 1..Len(records) : records'[i] = records[i]
    BY RecordTypes
  <2>3. Len(records) \in Nat
    BY DEF UsageInv, UsageTypes, Records
  <2>4. QED
    BY <2>1, <2>2, <2>3
<1>2. ASSUME NEW rs, Starts(rs) PROVE Starts(rs)'
  <2>1. rs \in Records /\ Len(rs) \in Nat /\ Len(rs) <= Len(records) /\ \A i \in 1..Len(rs) : rs[i] = records[i]
    BY <1>2 DEF Starts, Records
  <2>2. Len(rs) <= Len(records') /\ \A i \in 1..Len(rs) : i \in 1..Len(records)
    BY <1>1, <2>1
  <2>3. QED
    BY <1>1, <2>1, <2>2 DEF Starts
<1>3. Written'
  <2>1. (file' = Torn \/ Starts(file)') /\ \A q \in Requests : Starts(snapshot[q])'
    <3>1. Starts(file) => Starts(file)'
      <4>1. \A rs : rs = file /\ Starts(rs) => Starts(rs)'
        BY <1>2
      <4>2. QED
        BY <1>1, <4>1 DEF Starts
    <3>2. \A q \in Requests : Starts(snapshot[q]) => Starts(snapshot[q])'
      <4>1. \A rs : Starts(rs) => Starts(rs)'
        BY <1>2
      <4>2. QED
        BY <1>1, <4>1 DEF Starts
    <3>3. QED
      BY <1>1, <3>1, <3>2 DEF UsageInv, Written
  <2>2. QED
    BY <2>1 DEF Written
<1>4. QED
  BY <1>3, RecordTypes, RecordIsCounted, RecordWithin DEF UsageInv

\* Steps that leave the budget and the records alone
LEMMA StillCounted ==
    ASSUME UsageInv, UNCHANGED <<used, user, dayKey, monthKey, records, since>>,
           day' \in day..MaxDays, of' \in [Requests -> Users],
           requestAt' \in [Requests -> {"idle", "asking", "recorded", "saving"}]
    PROVE  UsageTypes' /\ Counts'
<1>1. Mine' = Mine /\ (\A s : InTime(s)' = InTime(s)) /\ \A u : OfUser(u)' = OfUser(u)
  BY DEF Mine, InTime, OfUser, B!month
<1>2. UsageTypes'
  <2>1. dayKey \in 0..day' /\ day' \in 0..MaxDays
    BY UsageConstants DEF UsageInv, UsageTypes
  <2>2. B!month(dayKey)' = B!month(dayKey)
    BY DEF B!month
  <2>3. QED
    BY <1>1, <2>1, <2>2 DEF UsageInv, UsageTypes
<1>3. Counts'
  BY <1>1 DEF UsageInv, Counts, AmountOf, Amount
<1>4. QED
  BY <1>2, <1>3

LEMMA StillWithin ==
    ASSUME UsageInv, UNCHANGED <<used, alerts>>, Asking' = Asking
    PROVE  Within'
BY DEF UsageInv, Within, B!Reached

LEMMA StillWritten ==
    ASSUME UsageInv, UNCHANGED records, file' = Torn \/ Starts(file'), \A r \in Requests : Starts(snapshot'[r])
    PROVE  Written'
<1>1. (file' = Torn \/ Starts(file)') /\ \A r \in Requests : Starts(snapshot[r])'
  BY DEF Starts
<1>2. QED
  BY <1>1 DEF Written

LEMMA UsageNext == ASSUME UsageInv, B!Next PROVE UsageInv'
<1>1. ASSUME B!NextDay PROVE UsageInv'
  <2>1. UNCHANGED <<used, user, dayKey, monthKey, alerts, records, since, file, snapshot, of, requestAt>>
    BY <1>1 DEF B!NextDay, B!budget, B!tracker
  <2>2. day' \in day..MaxDays
    BY <1>1, UsageConstants DEF B!NextDay, UsageInv, UsageTypes
  <2>3. UsageTypes' /\ Counts'
    <3>1. of' \in [Requests -> Users] /\ requestAt' \in [Requests -> {"idle", "asking", "recorded", "saving"}]
      BY <2>1 DEF UsageInv, UsageTypes
    <3>2. QED
      BY <2>1, <2>2, <3>1, StillCounted
  <2>4. Within'
    <3>1. Asking' = Asking
      BY <2>1 DEF Asking
    <3>2. QED
      BY <2>1, <3>1, StillWithin
  <2>5. Written'
    <3>1. (file' = Torn \/ Starts(file')) /\ \A r \in Requests : Starts(snapshot'[r])
      BY <2>1 DEF UsageInv, Written
    <3>2. QED
      BY <2>1, <3>1, StillWritten
  <2>6. QED
    BY <2>3, <2>4, <2>5 DEF UsageInv
<1>2. ASSUME NEW r \in Requests, B!Check(r) PROVE UsageInv'
  <2>1. /\ UNCHANGED <<used, user, dayKey, monthKey, alerts, records, since, file, snapshot, of, day>>
        /\ B!Allowed(of[r]) /\ requestAt' = [requestAt EXCEPT ![r] = "asking"]
    BY <1>2 DEF B!Check, B!Move, B!budget, B!tracker
  <2>2. day' \in day..MaxDays
    BY <2>1, UsageConstants DEF UsageInv, UsageTypes
  <2>3. UsageTypes' /\ Counts'
    <3>1. of' \in [Requests -> Users] /\ requestAt' \in [Requests -> {"idle", "asking", "recorded", "saving"}]
      BY <2>1 DEF UsageInv, UsageTypes
    <3>2. QED
      BY <2>1, <2>2, <3>1, StillCounted
  <2>4. Within'
    <3>1. ASSUME NEW s \in B!Counted, Limit[s] > 0 PROVE used'[s] < Limit[s]
      <4>1. Limit[s] \in Nat /\ used[s] \in Nat
        BY UsageConstants DEF UsageInv, UsageTypes
      <4>2. ~ (used[s] >= Limit[s])
        BY <2>1, <3>1 DEF B!Allowed, B!Reached
      <4>3. QED
        BY <2>1, <4>1, <4>2
    <3>2. Listens => \A s \in B!Alerted : B!Reached(s)' <=> [span |-> s, level |-> 100] \in alerts'
      <4>1. \A s : B!Reached(s)' <=> B!Reached(s)
        BY <2>1 DEF B!Reached
      <4>2. \A s : [span |-> s, level |-> 100] \in alerts' <=> [span |-> s, level |-> 100] \in alerts
        BY <2>1
      <4>3. Within
        BY DEF UsageInv
      <4>4. QED
        BY <4>1, <4>2, <4>3, Zenon DEF Within
    <3>3. QED
      BY <3>1, <3>2 DEF Within
  <2>5. Written'
    <3>1. (file' = Torn \/ Starts(file')) /\ \A q \in Requests : Starts(snapshot'[q])
      BY <2>1 DEF UsageInv, Written
    <3>2. QED
      BY <2>1, <3>1, StillWritten
  <2>6. QED
    BY <2>3, <2>4, <2>5 DEF UsageInv
<1>3. ASSUME NEW r \in Requests, B!Snapshot(r) PROVE UsageInv'
  <2>1. /\ UNCHANGED <<used, user, dayKey, monthKey, alerts, records, since, file, of, day>>
        /\ requestAt[r] = "recorded" /\ requestAt' = [requestAt EXCEPT ![r] = "saving"]
        /\ snapshot' = [snapshot EXCEPT ![r] = records]
    BY <1>3 DEF B!Snapshot, B!Move, B!budget
  <2>2. day' \in day..MaxDays
    BY <2>1, UsageConstants DEF UsageInv, UsageTypes
  <2>3. UsageTypes' /\ Counts'
    <3>1. of' \in [Requests -> Users] /\ requestAt' \in [Requests -> {"idle", "asking", "recorded", "saving"}]
      BY <2>1 DEF UsageInv, UsageTypes
    <3>2. QED
      BY <2>1, <2>2, <3>1, StillCounted
  <2>4. Within'
    <3>1. Asking' = Asking
      BY <2>1 DEF Asking, UsageInv, UsageTypes
    <3>2. QED
      BY <2>1, <3>1, StillWithin
  <2>5. Written'
    <3>1. Starts(records)
      BY DEF UsageInv, UsageTypes, Starts, Records
    <3>2. \A q \in Requests : snapshot'[q] = records \/ snapshot'[q] = snapshot[q]
      BY <2>1
    <3>3. (file' = Torn \/ Starts(file')) /\ \A q \in Requests : Starts(snapshot'[q])
      BY <2>1, <3>1, <3>2 DEF UsageInv, Written
    <3>4. QED
      BY <2>1, <3>3, StillWritten
  <2>6. QED
    BY <2>3, <2>4, <2>5 DEF UsageInv
<1>4. ASSUME NEW r \in Requests, B!Save(r) PROVE UsageInv'
  <2>1. /\ UNCHANGED <<used, user, dayKey, monthKey, alerts, records, since, day>>
        /\ requestAt[r] = "saving" /\ requestAt' = [requestAt EXCEPT ![r] = "idle"]
        /\ of' \in {[of EXCEPT ![r] = u] : u \in Users}
        /\ file' \in {snapshot[r], file, Torn} /\ snapshot' = [snapshot EXCEPT ![r] = << >>]
    BY <1>4 DEF B!Save, B!Move, B!budget
  <2>2. day' \in day..MaxDays
    BY <2>1, UsageConstants DEF UsageInv, UsageTypes
  <2>3. UsageTypes' /\ Counts'
    <3>1. of' \in [Requests -> Users] /\ requestAt' \in [Requests -> {"idle", "asking", "recorded", "saving"}]
      BY <2>1 DEF UsageInv, UsageTypes
    <3>2. QED
      BY <2>1, <2>2, <3>1, StillCounted
  <2>4. Within'
    <3>1. Asking' = Asking
      BY <2>1 DEF Asking, UsageInv, UsageTypes
    <3>2. QED
      BY <2>1, <3>1, StillWithin
  <2>5. Written'
    <3>1. Starts(<< >>)
      BY DEF Starts, UsageInv, UsageTypes, Records
    <3>2. \A q \in Requests : snapshot'[q] = << >> \/ snapshot'[q] = snapshot[q]
      BY <2>1
    <3>3. (file' = Torn \/ Starts(file')) /\ \A q \in Requests : Starts(snapshot'[q])
      BY <2>1, <3>1, <3>2 DEF UsageInv, Written
    <3>4. QED
      BY <2>1, <3>3, StillWritten
  <2>6. QED
    BY <2>3, <2>4, <2>5 DEF UsageInv
<1>5. ASSUME B!Restart PROVE UsageInv'
  <2>1. /\ file' = Torn \/ file' = file
        /\ records' = IF file' = Torn THEN << >> ELSE file'
        /\ since' = Len(records') /\ used' = [s \in B!Counted |-> 0] /\ alerts' = {} /\ user' = [u \in Users |-> 0]
        /\ dayKey' = day /\ monthKey' = B!month(day) /\ snapshot' = [q \in Requests |-> << >>]
        /\ requestAt' = [q \in Requests |-> "idle"] /\ UNCHANGED <<day, of>>
    BY <1>5 DEF B!Restart, B!NoUse, B!NoUser
  <2>2. records' \in Records /\ (file' = Torn \/ file' = records') /\ Len(records') \in Nat
    BY <2>1 DEF UsageInv, Written, Starts, Records
  <2>3. Mine' = {}
    BY <2>1, <2>2 DEF Mine
  <2>4. UsageTypes'
    <3>1. day \in 0..day /\ Len(records') \in 0..Len(records')
      BY <2>2, UsageConstants DEF UsageInv, UsageTypes
    <3>2. B!month(dayKey)' = B!month(day)
      BY <2>1 DEF B!month
    <3>3. used' \in [B!Counted -> Nat] /\ user' \in [Users -> Nat]
      BY <2>1
    <3>4. requestAt' \in [Requests -> {"idle", "asking", "recorded", "saving"}]
      BY <2>1
    <3>5. QED
      BY <2>1, <2>2, <2>3, <3>1, <3>2, <3>3, <3>4 DEF UsageInv, UsageTypes
  <2>5. Counts'
    <3>1. (\A s : InTime(s)' = {}) /\ \A u : OfUser(u)' = {}
      BY <2>3 DEF InTime, OfUser
    <3>2. \A s : AmountOf(s, records', {}) = 0
      BY NoAmount
    <3>3. \A s : AmountOf(s, records, InTime(s))' = 0
      BY <3>1, <3>2 DEF AmountOf, Amount
    <3>4. \A u : AmountOf("session", records, OfUser(u))' = 0
      BY <3>1, <3>2 DEF AmountOf, Amount
    <3>5. QED
      BY <2>1, <3>3, <3>4 DEF Counts
  <2>6. Written'
    <3>1. (file' = Torn \/ Starts(file)') /\ \A q \in Requests : Starts(snapshot[q])'
      BY <2>1, <2>2 DEF Starts, Records
    <3>2. QED
      BY <3>1 DEF Written
  <2>7. Within'
    <3>1. ASSUME NEW s \in B!Counted, Limit[s] > 0 PROVE used'[s] = 0 /\ Limit[s] \in Nat
      BY <2>1, UsageConstants
    <3>2. \A s \in B!Alerted : ~ B!Reached(s)' /\ [span |-> s, level |-> 100] \notin alerts'
      BY <2>1, <3>1 DEF B!Reached, B!Alerted
    <3>3. QED
      BY <3>1, <3>2 DEF Within
  <2>8. QED
    BY <2>4, <2>5, <2>6, <2>7 DEF UsageInv
<1>6. QED
  BY <1>1, <1>2, <1>3, <1>4, <1>5, RecordInv DEF B!Next

LEMMA CountedTruly == UsageInv => B!CountsAreTrue
<1>1. ASSUME NEW T PROVE B!Total(T) = SumOf([i \in T |-> records[i].tokens], T)
  BY DEF B!Total, SumOf, B!FoldFunctionOnSet, B!MapThenFoldSet
<1>2. ASSUME NEW T PROVE B!Bill(T) = SumOf([i \in T |-> records[i].cost], T)
  BY DEF B!Bill, SumOf, B!FoldFunctionOnSet, B!MapThenFoldSet
<1>3. /\ "session" \notin B!Bills /\ "day" \notin B!Bills /\ "month" \notin B!Bills
      /\ "dayCost" \in B!Bills /\ "monthCost" \in B!Bills
  BY DEF B!Bills
<1>4. ASSUME NEW T PROVE /\ \A s \in {"session", "day", "month"} : AmountOf(s, records, T) = B!Total(T)
                         /\ \A s \in {"dayCost", "monthCost"} : AmountOf(s, records, T) = B!Bill(T)
  BY <1>1, <1>2, <1>3 DEF AmountOf, Amount
<1>5. B!Added = Mine
  BY DEF B!Added, Mine
<1>6. /\ \A s \in {"day", "dayCost"} : InTime(s) = {i \in B!Added : B!Today(i)}
      /\ \A s \in {"month", "monthCost"} : InTime(s) = {i \in B!Added : B!ThisMonth(i)}
      /\ InTime("session") = B!Added
  BY <1>5 DEF InTime, B!Today, B!ThisMonth, B!Daily, B!Monthly
<1>7. \A u : OfUser(u) = {i \in B!Added : B!Today(i) /\ records[i].user = u}
  BY <1>5 DEF OfUser, B!Today
<1>8. SUFFICES ASSUME Counts PROVE B!CountsAreTrue
  BY DEF UsageInv
<1>9. /\ "session" \in B!Counted /\ "day" \in B!Counted /\ "month" \in B!Counted
      /\ "dayCost" \in B!Counted /\ "monthCost" \in B!Counted
  BY DEF B!Counted, B!Bills
<1>10. QED
  BY <1>4, <1>6, <1>7, <1>8, <1>9 DEF Counts, B!CountsAreTrue

LEMMA LimitsAreHeld == UsageInv => B!LimitsHold
<1>1. SUFFICES ASSUME UsageInv PROVE B!LimitsHold
  OBVIOUS
<1>2. PICK done, a, c : done = (Requests \ Asking) /\ a = Cardinality(Requests \ Asking) /\ c = Cardinality(Requests)
  OBVIOUS
<1>3. a \in Nat /\ c \in Nat /\ a <= c
  <2>1. IsFiniteSet(Requests) /\ done \in SUBSET Requests
    BY <1>2, UsageConstants
  <2>2. IsFiniteSet(done) /\ Cardinality(done) <= Cardinality(Requests)
    BY <2>1, FS_Subset
  <2>3. QED
    BY <1>2, <2>1, <2>2, FS_CardinalityType
<1>4. ASSUME NEW s PROVE a * Most(s) \in Nat /\ c * Most(s) \in Nat /\ a * Most(s) <= c * Most(s)
  <2>1. PICK more \in Nat : c = a + more
    <3>1. c - a \in Nat /\ c = a + (c - a)
      BY <1>3
    <3>2. QED
      BY <3>1
  <2>2. PICK m \in Nat : m = Most(s)
    BY UsageConstants
  <2>3. c * m = a * m + more * m /\ more * m \in Nat /\ a * m \in Nat
    BY <1>3, <2>1
  <2>4. QED
    BY <2>2, <2>3
<1>5. B!Cardinality(Requests) = c
  BY <1>2 DEF B!Cardinality, Cardinality
<1>6. ASSUME NEW s \in B!Counted, Limit[s] > 0
      PROVE  used[s] < Limit[s] + B!Cardinality(Requests) * B!Max(B!Uses(s))
  <2>1. Limit[s] \in Nat /\ used[s] \in Nat
    BY <1>1, UsageConstants DEF UsageInv, UsageTypes
  <2>2. used[s] < Limit[s] \/ used[s] < Limit[s] + a * Most(s)
    BY <1>1, <1>2, <1>6 DEF UsageInv, Within
  <2>3. used[s] < Limit[s] + c * Most(s)
    BY <1>4, <2>1, <2>2
  <2>4. QED
    BY <1>5, <2>3 DEF Most
<1>7. QED
  BY <1>1, <1>6 DEF B!LimitsHold, UsageInv, Within

LEMMA FileStarts == UsageInv => B!FileIsPrefix
<1>1. SUFFICES ASSUME UsageInv, file # Torn PROVE B!IsPrefix(file, records)
  BY DEF B!FileIsPrefix
<1>2. /\ file \in Records /\ records \in Records /\ Len(file) <= Len(records)
      /\ \A i \in 1..Len(file) : file[i] = records[i]
  BY <1>1 DEF UsageInv, UsageTypes, Written, Starts
<1>3. file = SubSeq(records, 1, Len(file))
  <2>1. Len(file) \in Nat /\ Len(records) \in Nat
    BY <1>2 DEF Records
  <2>2. file = [i \in 1..Len(file) |-> records[i]]
    BY <1>2 DEF Records
  <2>3. SubSeq(records, 1, Len(file)) = [i \in 1..Len(file) |-> records[i]]
    BY <1>2, <2>1 DEF Records
  <2>4. QED
    BY <2>2, <2>3
<1>4. QED
  BY <1>2, <1>3 DEF B!IsPrefix

-----------------------------------------------------------------------------
StoresInv ==
    /\ HookInv /\ CacheInv
    /\ FactsInv /\ MemoryInv
    /\ UsageInv
    /\ IndexInv /\ ContextInv /\ TreeInv

\* What is not used stays as it is.
LEMMA UnusedStays ==
    /\ HookInv /\ UNCHANGED hVars => HookInv'
    /\ CacheInv /\ UNCHANGED wVars => CacheInv'
    /\ FactsInv /\ MemoryInv /\ UNCHANGED mVars => FactsInv' /\ MemoryInv'
    /\ UsageInv /\ UNCHANGED bVars => UsageInv'
    /\ IndexInv /\ UNCHANGED indexes => IndexInv'
    /\ ContextInv /\ UNCHANGED contexts => ContextInv'
    /\ TreeInv /\ UNCHANGED trees => TreeInv'
<1>1. HookInv /\ UNCHANGED hVars => HookInv'
  BY DEF hVars, HookInv, HookTypes
<1>2. CacheInv /\ UNCHANGED wVars => CacheInv'
  BY DEF wVars, CacheInv, CacheTypes, KeptAsLatest
<1>3. FactsInv /\ MemoryInv /\ UNCHANGED mVars => FactsInv' /\ MemoryInv'
  <2>1. FactsInv /\ UNCHANGED mVars => FactsInv'
    BY DEF mVars, FactsInv
  <2>2. MemoryInv /\ UNCHANGED mVars => MemoryInv'
    BY DEF mVars, MemoryInv, MemoryTypes, AsAcked, Numbered
  <2>3. QED
    BY <2>1, <2>2
<1>4. UsageInv /\ UNCHANGED bVars => UsageInv'
  <2> SUFFICES ASSUME UsageInv, UNCHANGED bVars PROVE UsageInv'
    OBVIOUS
  <2>1. UNCHANGED <<day, used, user, dayKey, monthKey, alerts, records, file, snapshot, requestAt, of, since>>
    BY DEF bVars
  <2>2. day' \in day..MaxDays /\ of' \in [Requests -> Users]
        /\ requestAt' \in [Requests -> {"idle", "asking", "recorded", "saving"}]
    BY <2>1, UsageConstants DEF UsageInv, UsageTypes
  <2>3. Asking' = Asking
    BY <2>1 DEF Asking
  <2>4. (file' = Torn \/ Starts(file')) /\ \A r \in Requests : Starts(snapshot'[r])
    BY <2>1 DEF UsageInv, Written
  <2>5. QED
    BY <2>1, <2>2, <2>3, <2>4, StillCounted, StillWithin, StillWritten DEF UsageInv
<1>5. IndexInv /\ UNCHANGED indexes => IndexInv'
  BY DEF indexes, IndexInv, IndexTypes, C!ListSessions
<1>6. ContextInv /\ UNCHANGED contexts => ContextInv'
  BY DEF contexts, ContextInv, Begins
<1>7. TreeInv /\ UNCHANGED trees => TreeInv'
  BY DEF trees, TreeInv, Continues, LineTo
<1>8. QED
  BY <1>1, <1>2, <1>3, <1>4, <1>5, <1>6, <1>7

LEMMA StoresInvHolds == WorkspaceSpec => []StoresInv
<1> DEFINE wVariables == <<part, histories, dVars, rVars, hVars, wVars, mVars, bVars, cVars>>
<1>1. WorkspaceInit => StoresInv
  BY HookInit, CacheInit, MemoryInit, UsageInit, IndexInit, ContextInit, TreeInit DEF WorkspaceInit, StoresInv
<1>2. ASSUME StoresInv, [WorkspaceNext]_wVariables
      PROVE  /\ H!Next \/ UNCHANGED hVars
             /\ W!Next \/ UNCHANGED wVars
             /\ M!Next \/ UNCHANGED mVars
             /\ B!Next \/ UNCHANGED bVars
             /\ C!IndexNext \/ UNCHANGED indexes
             /\ C!ContextNext \/ UNCHANGED contexts
             /\ C!TreeNext \/ UNCHANGED trees
  BY <1>2 DEF WorkspaceNext, cVars
<1>3. StoresInv /\ [WorkspaceNext]_wVariables => StoresInv'
  BY <1>2, UnusedStays, HookNext, CacheNext, MemoryNext, UsageNext, IndexNext, ContextNext, TreeNext DEF StoresInv
<1>4. QED
  BY <1>1, <1>3, PTL DEF WorkspaceSpec

\* The data directory gives back what was put into it, whoever writes next to
\* whom and wherever a write is cut: a hook of the repository's owner is kept,
\* the cache serves the latest results, what the model was told it saved is
\* recalled, no two facts are the same, the budget counts what was recorded
\* and passes no limit by more than runs at once, the file of the records is a
\* beginning of them, the index keeps the sessions, a compaction the recent
\* messages, and the path of a message is the line that led to it (GitHooks,
\* WebCache, Memories, Usage, Conversations).
THEOREM StoresKept == WorkspaceSpec => []StoresHold
<1>1. StoresInv => StoresHold
  BY HooksKept, LatestIsServed, MemoriesRecalled, FactsKept, CountedTruly, LimitsAreHeld, FileStarts,
     SavesAreIndexed, RecentKept, PathIsLine DEF StoresInv, StoresHold
<1>2. QED
  BY <1>1, StoresInvHolds, PTL

-----------------------------------------------------------------------------
(* Types and bounds of everything that is kept.                             *)

\* Checkpoints: the files, and the lists that are trimmed.
CopyBounds ==
    /\ tree \in Trees /\ restarts \in 0..MaxRestarts
    /\ Len(checkpoints) <= MaxHistory /\ Len(index) <= MaxHistory
    /\ snapshots \in [Id -> Snapshots] /\ made \in [Id -> Snapshots]
    /\ copied \in Restored

LEMMA NothingKept == NoFiles \in Snapshots /\ NothingCopied \in Restored /\ Absent \in Contents \cup {Absent}
<1>1. NoFiles \in [{} -> Contents \cup {Absent, Unread}]
  BY DEF NoFiles
<1>2. NoFiles \in Snapshots
  BY <1>1 DEF Snapshots
<1>3. 0 \in Id
  BY FilesAssumption DEF CheckpointAssumption, Id
<1>4. [p \in Paths |-> Absent] \in Trees
  BY DEF Trees
<1>5. NothingCopied \in Restored
  BY <1>3, <1>4 DEF NothingCopied, Restored
<1>6. QED
  BY <1>2, <1>5

LEMMA SnapshotIs ==
    ASSUME NEW s \in Snapshots
    PROVE  DOMAIN s \subseteq Paths /\ \A p \in DOMAIN s : s[p] \in Contents \cup {Absent, Unread}
BY DEF Snapshots, FileSets

\* What is restored are files again.
LEMMA ContentIs ==
    ASSUME CopiesInv, CopyBounds, NEW i \in Id, NEW p \in Paths,
           NEW s, s = (IF InMemory(i) THEN snapshots[i] ELSE Loaded(i)), p \in DOMAIN s
    PROVE  Content(i, s, p) \in Contents \cup {Absent}
<1>1. disk[i][Copy[p]] \in Contents \cup {Absent}
  <2>1. disk[i] \in [Names -> Contents \cup {Absent}] /\ Copy[p] \in Names
    <3>1. disk \in [Id -> [Names -> Contents \cup {Absent}]]
      BY DEF CopiesInv, CopyTypes
    <3>2. Copy[p] \in Names
      BY DEF Names
    <3>3. QED
      BY <3>1, <3>2
  <2>2. QED
    BY <2>1
<1>2. CASE InMemory(i)
  <2>1. s \in Snapshots
    BY <1>2 DEF CopyBounds
  <2>2. s[p] \in Contents \cup {Absent, Unread}
    BY <2>1, SnapshotIs
  <2>3. QED
    BY <1>1, <2>2 DEF Content
<1>3. CASE ~InMemory(i)
  <2>1. s = Loaded(i)
    BY <1>3
  <2>2. s[p] = disk[i][Copy[p]]
    BY <2>1 DEF Loaded
  <2>3. QED
    BY <1>1, <2>2 DEF Content
<1>4. QED
  BY <1>2, <1>3

LEMMA RewindBounds == ASSUME CopiesInv, CopyBounds, NEW i \in Id, Rewind(i) \/ Fork(i) PROVE CopyBounds'
<1>1. PICK s : s = IF InMemory(i) THEN snapshots[i] ELSE Loaded(i)
  OBVIOUS
<1>2. UNCHANGED <<clock, checkpoints, snapshots, disk, index, made, reused, restarts>>
  BY DEF Rewind, Fork
<1>3. \A p \in Paths : p \in DOMAIN s => Content(i, s, p) \in Contents \cup {Absent}
  BY <1>1, ContentIs
<1>4. PICK goal : goal = Restore(i, s)
  OBVIOUS
<1>5. goal \in Trees
  BY <1>3, <1>4 DEF Restore, Trees, CopyBounds
<1>6. Empty \in Contents
  BY FilesAssumption DEF CheckpointAssumption
<1>7. CASE Rewind(i)
  <2>1. \/ /\ tree' = goal
           /\ copied' = [id |-> i, from |-> IF InMemory(i) THEN "memory" ELSE "disk", op |-> "rewind", dir |-> goal]
        \/ /\ \E f \in Exists(s), before \in SUBSET DOMAIN s :
                 tree' \in {[p \in Paths |-> IF p \in before THEN goal[p] ELSE IF p = f THEN c ELSE tree[p]] :
                               c \in {tree[f], Empty}}
           /\ copied' = NothingCopied
    BY <1>1, <1>4, <1>7 DEF Rewind
  <2>2. tree' \in Trees
    <3>1. CASE tree' = goal
      BY <1>5, <3>1
    <3>2. ASSUME NEW f, NEW before, NEW c \in {tree[f], Empty},
                 tree' = [p \in Paths |-> IF p \in before THEN goal[p] ELSE IF p = f THEN c ELSE tree[p]]
          PROVE  tree' \in Trees
      <4>1. \A p \in Paths : goal[p] \in Contents \cup {Absent} /\ tree[p] \in Contents \cup {Absent}
        BY <1>5 DEF Trees, CopyBounds
      <4>2. \A p \in Paths : p = f => c \in Contents \cup {Absent}
        BY <1>6, <4>1
      <4>3. QED
        BY <3>2, <4>1, <4>2 DEF Trees
    <3>3. QED
      BY <2>1, <3>1, <3>2
  <2>3. copied' \in Restored
    BY <1>5, <2>1, NothingKept DEF Restored
  <2>4. QED
    BY <1>2, <2>2, <2>3 DEF CopyBounds
<1>8. CASE Fork(i)
  <2>1. InMemory(i) /\ tree' = tree
    BY <1>8 DEF Fork
  <2>2. PICK dir : dir = [p \in Paths |-> IF p \in Exists(s) THEN Content(i, s, p) ELSE Absent]
    OBVIOUS
  <2>3. copied' = [id |-> i, from |-> "memory", op |-> "fork", dir |-> dir]
    BY <1>1, <1>8, <2>1, <2>2 DEF Fork
  <2>4. dir \in Trees
    BY <1>3, <2>2 DEF Trees, Exists
  <2>5. copied' \in Restored
    BY <2>3, <2>4 DEF Restored
  <2>6. QED
    BY <1>2, <2>1, <2>5 DEF CopyBounds
<1>9. QED
  BY <1>7, <1>8

LEMMA CreateBounds == ASSUME CopiesInv, CopyBounds, NEW ps \in FileSets, Create(ps) PROVE CopyBounds'
<1>1. PICK s \in Read(ps) :
        LET all == Append(checkpoints, [id |-> clock, files |-> Exists(s)])
            full == Len(all) > MaxHistory
            keep == IF full THEN Tail(all) ELSE all
        IN /\ checkpoints' = keep /\ index' = keep
           /\ snapshots' = LET new == [snapshots EXCEPT ![clock] = s]
                           IN IF full THEN [new EXCEPT ![Head(all).id] = NoFiles] ELSE new
           /\ made' = [made EXCEPT ![clock] = s]
  BY DEF Create
<1>2. UNCHANGED <<clock, tree, restarts>> /\ copied' = NothingCopied
  BY DEF Create
<1>3. s \in Snapshots
  BY DEF Read, Snapshots
<1>4. PICK e : e = [id |-> clock, files |-> Exists(s)]
  OBVIOUS
<1>5. e \in Entry
  <2>1. clock \in Id
    BY DEF CopiesInv, CopyTypes
  <2>2. Exists(s) \subseteq Paths
    BY <1>3, SnapshotIs DEF Exists
  <2>3. QED
    BY <1>4, <2>1, <2>2 DEF Entry
<1>6. PICK all : all = Append(checkpoints, e)
  OBVIOUS
<1>7. /\ all \in Seq(Entry) /\ Len(all) = Len(checkpoints) + 1 /\ Len(checkpoints) \in Nat /\ all # << >>
  BY <1>5, <1>6 DEF CopiesInv, CopyTypes
<1>8. MaxHistory \in Nat
  BY FilesAssumption DEF CheckpointAssumption
<1>9. Len(checkpoints') <= MaxHistory /\ index' = checkpoints'
  <2>1. index' = checkpoints' /\ checkpoints' = IF Len(all) > MaxHistory THEN Tail(all) ELSE all
    BY <1>1, <1>4, <1>6
  <2>2. Len(Tail(all)) = Len(checkpoints)
    BY <1>7
  <2>3. QED
    BY <1>7, <1>8, <2>1, <2>2 DEF CopyBounds
<1>10. made' \in [Id -> Snapshots] /\ snapshots' \in [Id -> Snapshots]
  BY <1>1, <1>3, NothingKept DEF CopyBounds
<1>11. QED
  BY <1>2, <1>9, <1>10, NothingKept DEF CopyBounds

LEMMA CheckpointBounds == CopiesInv /\ CopyBounds /\ Next => CopyBounds'
<1>1. SUFFICES ASSUME CopiesInv, CopyBounds, Next PROVE CopyBounds'
  OBVIOUS
<1>2. CASE Tick
  BY <1>1, <1>2 DEF Tick, CopyBounds
<1>3. CASE Restart
  <2>1. MaxRestarts \in Nat /\ MaxHistory \in Nat /\ Len(<< >>) = 0
    BY FilesAssumption DEF CheckpointAssumption
  <2>2. /\ restarts < MaxRestarts /\ restarts' = restarts + 1 /\ snapshots' = [i \in Id |-> NoFiles]
        /\ checkpoints' = << >> /\ copied' = NothingCopied /\ UNCHANGED <<tree, index, made>>
    BY <1>3 DEF Restart
  <2>3. QED
    BY <1>1, <2>1, <2>2, NothingKept DEF CopyBounds
<1>4. ASSUME NEW p \in Paths, Edit(p) PROVE CopyBounds'
  BY <1>1, <1>4, NothingKept DEF Edit, CopyBounds, Trees
<1>5. QED
  BY <1>1, <1>2, <1>3, <1>4, CreateBounds, RewindBounds DEF Next

\* Undo: the records together are no more than the limit.
UndoBounds ==
    /\ part # "undo" => history = << >> /\ redoBuf = << >>
    /\ tree \in Trees /\ base \in Trees
    /\ Len(history) + Len(redoBuf) <= HistoryMax
    /\ open \subseteq Paths /\ changes \in 0..MaxChanges /\ faithful \in BOOLEAN

LEMMA UndoStepBounds ==
    ASSUME UndoInv, UndoBounds, part = "undo", part' = part, U!Next, UndoInv'
    PROVE  UndoBounds'
<1>1. history \in Seq(U!Actions) /\ redoBuf \in Seq(U!Actions) /\ tree' \in Trees /\ base' \in Trees
  BY DEF UndoInv, UndoTypes
<1>2. /\ Len(history) \in Nat /\ Len(redoBuf) \in Nat /\ HistoryMax \in Nat \ {0} /\ MaxChanges \in Nat
      /\ tree \in Trees
  BY <1>1, FilesAssumption DEF U!UndoAssumption, UndoBounds
<1>3. ASSUME NEW ps \in U!FileSets, U!BeforeChange(ps) PROVE UndoBounds'
  <2>1. PICK action, all :
          /\ all = Append(history, action) /\ history' = (IF Len(all) > HistoryMax THEN Tail(all) ELSE all)
          /\ faithful' \in BOOLEAN
    BY <1>3 DEF U!BeforeChange
  <2>2. /\ changes < MaxChanges /\ changes' = changes + 1 /\ redoBuf' = << >> /\ open' = ps
    BY <1>3 DEF U!BeforeChange
  <2>3. Len(history') <= HistoryMax
    <3>1. Len(all) = Len(history) + 1 /\ Len(Tail(all)) = Len(history)
      BY <1>1, <2>1
    <3>2. Len(history) <= HistoryMax
      BY <1>2 DEF UndoBounds
    <3>3. QED
      BY <1>2, <2>1, <3>1, <3>2
  <2>4. Len(history') \in Nat
    BY DEF UndoInv, UndoTypes
  <2>5. Len(redoBuf') = 0
    BY <2>2
  <2>6. open' \subseteq Paths
    BY <2>2 DEF U!FileSets
  <2>7. QED
    BY <1>1, <1>2, <2>1, <2>2, <2>3, <2>4, <2>5, <2>6 DEF UndoBounds
<1>4. ASSUME NEW p \in Paths, U!Write(p) PROVE UndoBounds'
  BY <1>1, <1>4 DEF U!Write, UndoBounds
<1>5. CASE U!Undo
  <2>1. /\ history # << >> /\ history' = U!Front(history) /\ redoBuf' = Append(redoBuf, U!Last(history))
        /\ open' = {} /\ UNCHANGED <<changes, faithful>>
    BY <1>5 DEF U!Undo
  <2>2. Len(history') = Len(history) - 1
    BY <1>1, <2>1, WithoutLast
  <2>3. Len(redoBuf') = Len(redoBuf) + 1
    BY <1>1, <1>2, <2>1
  <2>4. QED
    BY <1>1, <1>2, <2>1, <2>2, <2>3 DEF UndoBounds
<1>6. CASE U!UndoFails
  <2>1. /\ history # << >> /\ history' = U!Front(history) /\ open' = {} /\ faithful' = FALSE
        /\ UNCHANGED <<redoBuf, changes>>
    BY <1>6 DEF U!UndoFails
  <2>2. Len(history') = Len(history) - 1
    BY <1>1, <2>1, WithoutLast
  <2>3. Len(history') + Len(redoBuf') <= HistoryMax
    <3>1. Len(redoBuf') = Len(redoBuf) /\ Len(history) + Len(redoBuf) <= HistoryMax
      BY <2>1 DEF UndoBounds
    <3>2. QED
      BY <1>2, <2>2, <3>1
  <2>4. QED
    BY <1>1, <1>2, <2>1, <2>3 DEF UndoBounds
<1>7. CASE U!Redo
  <2>1. /\ redoBuf # << >> /\ history' = Append(history, U!Last(redoBuf)) /\ redoBuf' = U!Front(redoBuf)
        /\ open' = {} /\ UNCHANGED <<changes, faithful>>
    BY <1>7 DEF U!Redo
  <2>2. Len(redoBuf') = Len(redoBuf) - 1 /\ Len(redoBuf) > 0
    <3>1. Len(U!Front(redoBuf)) = Len(redoBuf) - 1 /\ Len(redoBuf) \in Nat \ {0}
      BY <1>1, <2>1, WithoutLast
    <3>2. QED
      BY <2>1, <3>1
  <2>3. Len(history') = Len(history) + 1
    BY <1>1, <2>1
  <2>4. QED
    BY <1>1, <1>2, <2>1, <2>2, <2>3 DEF UndoBounds
<1>8. QED
  BY <1>3, <1>4, <1>5, <1>6, <1>7 DEF U!Next

\* What still has to be written is the end of the order.
EndsOrder(s) ==
    /\ Len(s) <= Len(HookOrder)
    /\ \A i \in 1..Len(s) : HookOrder[Len(HookOrder) - Len(s) + i] = s[i]

LEMMA EndIsSuffix ==
    ASSUME NEW S, NEW s \in Seq(S), HookOrder \in Seq(S), EndsOrder(s)
    PROVE  H!IsSuffix(s, HookOrder)
<1>1. PICK m, n, t : m = Len(s) /\ n = Len(t) /\ t = HookOrder
  OBVIOUS
<1>2. t \in Seq(S) /\ m \in Nat /\ n \in Nat /\ m <= n /\ \A i \in 1..m : t[n - m + i] = s[i]
  <2>1. t \in Seq(S) /\ m \in Nat /\ n \in Nat
    BY <1>1
  <2>2. QED
    BY <1>1, <2>1 DEF EndsOrder
<1>3. PICK q, r : q = [i \in 1..m |-> s[(m - i) + 1]] /\ r = [i \in 1..n |-> t[(n - i) + 1]]
  OBVIOUS
<1>4. H!Reverse(s) = q /\ H!Reverse(t) = r
  BY <1>1, <1>3 DEF H!Reverse
<1>5. q \in Seq(S) /\ r \in Seq(S) /\ Len(q) = m /\ Len(r) = n
  <2>1. \A i \in 1..m : s[(m - i) + 1] \in S
    BY <1>1, <1>2
  <2>2. \A i \in 1..n : t[(n - i) + 1] \in S
    BY <1>1, <1>2
  <2>3. q \in [1..m -> S] /\ r \in [1..n -> S]
    BY <1>3, <2>1, <2>2
  <2>4. QED
    BY <1>2, <2>3
<1>6. \A i \in 1..m : q[i] = r[i]
  <2>1. ASSUME NEW i \in 1..m PROVE q[i] = r[i]
    <3>1. m - i + 1 \in 1..m /\ n - m + (m - i + 1) = (n - i) + 1 /\ i \in 1..n
      <4>1. m \in Nat /\ n \in Nat /\ m <= n
        BY <1>2
      <4>2. QED
        BY <4>1
    <3>2. t[(n - i) + 1] = s[m - i + 1]
      BY <1>2, <3>1
    <3>3. QED
      BY <1>3, <3>1, <3>2
  <2>2. QED
    BY <2>1
<1>7. SubSeq(r, 1, m) = [i \in 1..m |-> r[i]]
  BY <1>2, <1>5
<1>8. q = [i \in 1..m |-> r[i]]
  BY <1>3, <1>6
<1>9. H!IsPrefix(q, r)
  BY <1>2, <1>5, <1>7, <1>8 DEF H!IsPrefix
<1>10. QED
  BY <1>1, <1>4, <1>9 DEF H!IsSuffix

LEMMA HookEnds == ASSUME HookInv, EndsOrder(todo), H!Next PROVE EndsOrder(todo')
<1>1. todo' \in {todo, HookOrder, << >>} \/ (todo # << >> /\ todo' = Tail(todo))
  <2>1. CASE H!writeHook
    BY <2>1 DEF H!writeHook, HookInv, HookTypes
  <2>2. CASE ~H!writeHook
    BY <2>2 DEF H!Next, H!Install, H!Uninstall, H!Begin, H!Backup, H!Look, H!TakeAway, H!Die, H!Write, H!Idle,
         HookInv, HookTypes
  <2>3. QED
    BY <2>1, <2>2
<1>2. HookOrder \in Seq(H!HookNames) /\ todo \in Seq(H!HookNames)
  BY ChangesAssumption DEF H!GitHooksAssumption, H!HookNames, HookInv, HookTypes
<1>3. PICK n \in Nat : n = Len(HookOrder)
  BY <1>2
<1>4. CASE todo' = HookOrder
  BY <1>2, <1>3, <1>4 DEF EndsOrder
<1>5. CASE todo' = << >>
  BY <1>2, <1>3, <1>5 DEF EndsOrder
<1>6. CASE todo # << >> /\ todo' = Tail(todo)
  <2>1. PICK m \in Nat : m = Len(todo) /\ m # 0 /\ m <= n /\ \A i \in 1..m : HookOrder[n - m + i] = todo[i]
    BY <1>2, <1>3, <1>6 DEF EndsOrder
  <2>2. Len(todo') = m - 1 /\ \A i \in 1..(m - 1) : todo'[i] = todo[i + 1]
    BY <1>2, <1>6, <2>1, WithoutFirst
  <2>3. \A i \in 1..(m - 1) : HookOrder[n - (m - 1) + i] = todo'[i]
    <3>1. ASSUME NEW i \in 1..(m - 1) PROVE HookOrder[n - (m - 1) + i] = todo'[i]
      <4>1. i + 1 \in 1..m /\ n - m + (i + 1) = n - (m - 1) + i
        BY <1>3, <2>1
      <4>2. QED
        BY <2>1, <2>2, <4>1
    <3>2. QED
      BY <3>1
  <2>4. QED
    BY <1>3, <2>1, <2>2, <2>3 DEF EndsOrder
<1>7. QED
  BY <1>1, <1>4, <1>5, <1>6

\* Records are dated when they are made, and days only grow.
DatedRecords == \A i \in DOMAIN records : records[i].day \in 0..day

LEMMA UsageDates == ASSUME UsageInv, DatedRecords, B!Next PROVE DatedRecords'
<1>1. records \in Records /\ day \in Nat /\ MaxDays \in Nat
  BY UsageConstants DEF UsageInv, UsageTypes
<1>2. ASSUME NEW r \in Requests, NEW n \in Tokens, NEW c \in Costs, B!Record(r, n, c) PROVE DatedRecords'
  <2>1. PICK e : e = [user |-> of[r], tokens |-> n, cost |-> c, day |-> day]
    OBVIOUS
  <2>2. records' = Append(records, e) /\ day' = day
    BY <1>2, <2>1 DEF B!Record
  <2>3. PICK m \in Nat : m = Len(records) /\ DOMAIN records = 1..m
    BY <1>1 DEF Records
  <2>4. DOMAIN records' = 1..(m + 1) /\ records'[m + 1] = e /\ \A i \in 1..m : records'[i] = records[i]
    BY <1>1, <2>2, <2>3 DEF Records
  <2>5. e.day \in 0..day
    BY <1>1, <2>1
  <2>6. QED
    BY <2>2, <2>3, <2>4, <2>5 DEF DatedRecords
<1>3. CASE B!Restart
  <2>1. /\ records' = (IF file' = Torn THEN << >> ELSE file') /\ file' \in {file, Torn} /\ day' = day
    BY <1>3 DEF B!Restart
  <2>2. CASE file' = Torn
    BY <2>1, <2>2 DEF DatedRecords
  <2>3. CASE file' # Torn
    <3>1. records' = file /\ Starts(file)
      BY <2>1, <2>3 DEF UsageInv, Written
    <3>2. file \in Records /\ Len(file) <= Len(records) /\ \A i \in 1..Len(file) : file[i] = records[i]
      BY <3>1 DEF Starts
    <3>3. PICK m \in Nat, n \in Nat : m = Len(file) /\ DOMAIN file = 1..m /\ n = Len(records) /\ DOMAIN records = 1..n
      BY <1>1, <3>2 DEF Records
    <3>4. \A i \in 1..m : i \in 1..n /\ file[i] = records[i]
      BY <3>2, <3>3
    <3>5. QED
      BY <2>1, <3>1, <3>3, <3>4 DEF DatedRecords
  <2>4. QED
    BY <2>2, <2>3
<1>4. CASE B!NextDay
  <2>1. day' = day + 1 /\ records' = records
    BY <1>4 DEF B!NextDay, B!tracker
  <2>2. \A i \in DOMAIN records : records[i].day \in 0..(day + 1)
    BY <1>1 DEF DatedRecords
  <2>3. QED
    BY <2>1, <2>2 DEF DatedRecords
<1>5. CASE \E r \in Requests : B!Check(r) \/ B!Snapshot(r) \/ B!Save(r)
  BY <1>5 DEF B!Check, B!Snapshot, B!Save, B!tracker, DatedRecords
<1>6. QED
  BY <1>2, <1>3, <1>4, <1>5 DEF B!Next

\* The counts of a run
FewDamages == damaged \subseteq {"memories", "facts"} /\ said \in 0..MaxMessages

LEMMA FewDamagesStay ==
    /\ FewDamages /\ M!Next => damaged' \subseteq {"memories", "facts"}
    /\ FewDamages /\ C!ContextNext => said' \in 0..MaxMessages
<1>1. FewDamages /\ M!Next => damaged' \subseteq {"memories", "facts"}
  BY DEF FewDamages, M!Next, M!Save, M!Delete, M!Apply, M!Extract, M!Restart
<1>2. MaxMessages \in Nat
  BY StoresAssumption DEF C!ConversationsAssumption
<1>3. FewDamages /\ C!ContextNext => said' \in 0..MaxMessages
  <2>1. ASSUME FewDamages, NEW role, C!Say(role) PROVE said' \in 0..MaxMessages
    BY <1>2, <2>1 DEF FewDamages, C!Say
  <2>2. ASSUME FewDamages, C!Compact PROVE said' \in 0..MaxMessages
    BY <2>2 DEF FewDamages, C!Compact
  <2>3. QED
    BY <2>1, <2>2 DEF C!ContextNext
<1>4. QED
  BY <1>1, <1>3

\* What is counted of the changes is no less than there are.
LEMMA EachChangeCounts == StageInv => D!TypeOK
<1>1. SUFFICES ASSUME StageInv PROVE D!FormatDiff.added + D!FormatDiff.removed >= Len(stagedChanges)
  BY DEF StageInv, D!TypeOK
<1>2. PICK n \in Nat : /\ n = Len(stagedChanges) /\ DOMAIN stagedChanges = 1..n
                      /\ \A i \in 1..n : stagedChanges[i] \in D!Change
  <2>1. PICK S : S = D!Change
    OBVIOUS
  <2>2. stagedChanges \in Seq(S)
    BY <1>1, <2>1 DEF StageInv
  <2>3. QED
    BY <2>1, <2>2
<1>3. PICK A, Z : /\ A = {i \in DOMAIN stagedChanges : stagedChanges[i].new # None}
                  /\ Z = {i \in DOMAIN stagedChanges : stagedChanges[i].action # "create"}
  OBVIOUS
<1>4. D!FormatDiff.added = Cardinality(A) /\ D!FormatDiff.removed = Cardinality(Z)
  BY <1>3 DEF D!FormatDiff, D!Cardinality, Cardinality
<1>5. A \cup Z = 1..n
  <2>1. \A c \in D!Change : c.new # None \/ c.action # "create"
    BY ChangesAssumption DEF D!Change, D!StagingAssumption
  <2>2. QED
    BY <1>2, <1>3, <2>1
<1>6. IsFiniteSet(1..n) /\ Cardinality(1..n) = n
  BY FS_Interval
<1>7. IsFiniteSet(A) /\ IsFiniteSet(Z)
  BY <1>5, <1>6, FS_Subset
<1>8. Cardinality(A \cup Z) = Cardinality(A) + Cardinality(Z) - Cardinality(A \cap Z)
  BY <1>7, FS_Union
<1>9. Cardinality(A) \in Nat /\ Cardinality(Z) \in Nat /\ Cardinality(A \cap Z) \in Nat
  BY <1>7, FS_CardinalityType, FS_Intersection
<1>10. PICK a \in Nat, z \in Nat, c \in Nat :
          a = Cardinality(A) /\ z = Cardinality(Z) /\ c = Cardinality(A \cap Z)
  BY <1>9
<1>11. n = a + z - c
  BY <1>5, <1>6, <1>8, <1>10
<1>12. a + z >= n
  BY <1>10, <1>11
<1>13. QED
  BY <1>2, <1>4, <1>10, <1>12

Bounded == CopyBounds /\ UndoBounds /\ EndsOrder(todo) /\ DatedRecords /\ FewDamages

LEMMA InitBounded == WorkspaceInit => Bounded
<1>1. SUFFICES ASSUME WorkspaceInit PROVE Bounded
  OBVIOUS
<1>2. CopyBounds
  <2>1. Init /\ MaxHistory \in Nat /\ MaxRestarts \in Nat
    BY <1>1, FilesAssumption DEF WorkspaceInit, CheckpointAssumption
  <2>2. QED
    BY <2>1, NothingKept DEF Init, CopyBounds
<1>3. UndoBounds
  <2>1. U!Init /\ HistoryMax \in Nat /\ MaxChanges \in Nat
    BY <1>1, FilesAssumption DEF WorkspaceInit, U!UndoAssumption
  <2>2. history = << >> /\ redoBuf = << >> /\ tree \in Trees /\ base \in Trees
        /\ open = {} /\ changes = 0 /\ faithful = TRUE
    BY <2>1 DEF U!Init, U!Trees, Trees
  <2>3. QED
    BY <2>1, <2>2 DEF UndoBounds
<1>4. EndsOrder(todo)
  <2>1. todo = << >>
    BY <1>1 DEF WorkspaceInit, H!Init
  <2>2. Len(HookOrder) \in Nat
    BY ChangesAssumption DEF H!GitHooksAssumption
  <2>3. QED
    BY <2>1, <2>2 DEF EndsOrder
<1>5. DatedRecords
  BY <1>1 DEF WorkspaceInit, B!Init, DatedRecords
<1>6. FewDamages
  <2>1. MaxMessages \in Nat
    BY StoresAssumption DEF C!ConversationsAssumption
  <2>2. QED
    BY <1>1, <2>1 DEF WorkspaceInit, M!Init, C!Init, FewDamages
<1>7. QED
  BY <1>2, <1>3, <1>4, <1>5, <1>6 DEF Bounded

LEMMA NextBounded ==
    ASSUME CopiesInv, part = "undo" => UndoInv, (part = "undo" => UndoInv)', StoresInv, Bounded,
           [WorkspaceNext]_<<part, histories, dVars, rVars, hVars, wVars, mVars, bVars, cVars>>
    PROVE  Bounded'
<1>1. part' = part
  BY DEF WorkspaceNext
<1>2. CopyBounds' /\ UndoBounds'
  <2>1. CASE part = "checkpoint" /\ Next /\ UNCHANGED uVars
    <3>1. CopyBounds'
      BY <2>1, CheckpointBounds DEF Bounded
    <3>2. tree' \in Trees
      BY <3>1 DEF CopyBounds
    <3>3. UndoBounds'
      BY <1>1, <2>1, <3>2 DEF Bounded, UndoBounds, uVars
    <3>4. QED
      BY <3>1, <3>3
  <2>2. CASE /\ part = "undo" /\ U!Next
             /\ UNCHANGED <<clock, checkpoints, snapshots, disk, index, made, reused, copied, restarts>>
    <3>1. UndoBounds'
      BY <1>1, <2>2, UndoStepBounds DEF Bounded
    <3>2. tree' \in Trees
      BY <3>1 DEF UndoBounds
    <3>3. CopyBounds'
      BY <2>2, <3>2 DEF Bounded, CopyBounds
    <3>4. QED
      BY <3>1, <3>3
  <2>3. CASE UNCHANGED histories
    <3>1. CopyBounds'
      BY <2>3 DEF Bounded, CopyBounds, histories, vars
    <3>2. UndoBounds'
      BY <1>1, <2>3 DEF Bounded, UndoBounds, histories, vars, uVars
    <3>3. QED
      BY <3>1, <3>2
  <2>4. QED
    BY <2>1, <2>2, <2>3 DEF WorkspaceNext
<1>3. EndsOrder(todo)'
  <2>1. H!Next \/ UNCHANGED hVars
    BY DEF WorkspaceNext
  <2>2. CASE H!Next
    <3>1. EndsOrder(todo')
      BY <2>2, HookEnds DEF Bounded, StoresInv
    <3>2. QED
      BY <3>1 DEF EndsOrder
  <2>3. CASE UNCHANGED hVars
    BY <2>3 DEF Bounded, EndsOrder, hVars
  <2>4. QED
    BY <2>1, <2>2, <2>3
<1>4. DatedRecords'
  <2>1. B!Next \/ UNCHANGED bVars
    BY DEF WorkspaceNext
  <2>2. CASE B!Next
    BY <2>2, UsageDates DEF Bounded, StoresInv
  <2>3. CASE UNCHANGED bVars
    BY <2>3 DEF Bounded, DatedRecords, bVars
  <2>4. QED
    BY <2>1, <2>2, <2>3
<1>5. FewDamages'
  <2>1. (M!Next \/ UNCHANGED mVars) /\ (C!ContextNext \/ UNCHANGED contexts)
    BY DEF WorkspaceNext, cVars
  <2>2. damaged' \subseteq {"memories", "facts"}
    BY <2>1, FewDamagesStay DEF Bounded, FewDamages, mVars
  <2>3. said' \in 0..MaxMessages
    BY <2>1, FewDamagesStay DEF Bounded, FewDamages, contexts
  <2>4. QED
    BY <2>2, <2>3 DEF FewDamages
<1>6. QED
  BY <1>2, <1>3, <1>4, <1>5 DEF Bounded

LEMMA ElementTypes ==
    ASSUME NEW S, NEW s \in Seq(S) PROVE \A i \in DOMAIN s : s[i] \in S
  OBVIOUS

LEMMA FileTypes ==
    ASSUME CopiesInv, part = "undo" => UndoInv, StageInv, GitInv, Bounded
    PROVE  TypeOK /\ U!TypeOK /\ D!TypeOK /\ R!TypeOK
<1>1. TypeOK
  <2>1. \A k \in DOMAIN checkpoints : checkpoints[k] \in [id : Id, files : SUBSET Paths]
    <3>1. checkpoints \in Seq(Entry)
      BY DEF CopiesInv, CopyTypes
    <3>2. \A k \in DOMAIN checkpoints : checkpoints[k] \in Entry
      BY <3>1, ElementTypes
    <3>3. QED
      BY <3>2 DEF Entry
  <2>2. QED
    BY <2>1 DEF CopiesInv, CopyTypes, Bounded, CopyBounds, TypeOK
<1>2. U!TypeOK
  <2>1. history \in Seq(U!Actions) /\ redoBuf \in Seq(U!Actions)
    <3>1. CASE part = "undo"
      BY <3>1 DEF UndoInv, UndoTypes
    <3>2. CASE part # "undo"
      <4>1. history = << >> /\ redoBuf = << >>
        BY <3>2 DEF Bounded, UndoBounds
      <4>2. QED
        BY <4>1
    <3>3. QED
      BY <3>1, <3>2
  <2>2. U!Trees = Trees
    BY DEF U!Trees, Trees
  <2>3. QED
    BY <2>1, <2>2 DEF Bounded, UndoBounds, U!TypeOK
<1>3. D!TypeOK
  BY EachChangeCounts
<1>4. R!TypeOK
  <2>1. \A i \in DOMAIN commits : commits[i].tree \in GitTrees
    <3>1. commits \in Seq(GitCommits)
      BY DEF GitInv, GitTypes, CommitTypes
    <3>2. \A i \in DOMAIN commits : commits[i] \in GitCommits
      BY <3>1, ElementTypes
    <3>3. QED
      BY <3>2 DEF GitCommits
  <2>2. ASSUME NEW t \in {files, stageArea} \cup {commits[i].tree : i \in DOMAIN commits}
        PROVE  t \in [GitFiles -> Seq(Words) \cup {None}]
    BY <2>1 DEF GitInv, GitTypes, GitTrees
  <2>3. QED
    BY <2>2 DEF GitInv, GitTypes, CommitTypes, RefTypes, R!TypeOK
<1>5. QED
  BY <1>1, <1>2, <1>3, <1>4

LEMMA StoreTypes ==
    ASSUME StoresInv, Bounded
    PROVE  H!TypeOK /\ W!TypeOK /\ M!TypeOK /\ B!TypeOK /\ C!TypeOK
<1>1. H!TypeOK
  <2>1. HookTypes /\ EndsOrder(todo)
    BY DEF StoresInv, HookInv, Bounded
  <2>2. HookOrder \in Seq(H!HookNames)
    BY ChangesAssumption DEF H!GitHooksAssumption, H!HookNames
  <2>3. H!IsSuffix(todo, HookOrder)
    BY <2>1, <2>2, EndIsSuffix DEF HookTypes
  <2>4. QED
    BY <2>1, <2>3 DEF HookTypes, HookFiles, BakFiles, H!TypeOK, H!Idle
<1>2. W!TypeOK
  BY DEF StoresInv, CacheInv, CacheTypes, Entries, CachedOrNone, CacheFiles, W!TypeOK
<1>3. M!TypeOK
  BY DEF StoresInv, MemoryInv, MemoryTypes, FactsInv, Apart, Bounded, FewDamages, M!TypeOK
<1>4. B!TypeOK
  <2>1. UsageTypes /\ DatedRecords /\ MaxDays \in Nat
    BY UsageConstants DEF StoresInv, UsageInv, Bounded
  <2>2. \A i \in DOMAIN records : records[i].user \in Users
    <3>1. records \in Seq(UsageRecord)
      BY <2>1 DEF UsageTypes, Records
    <3>2. \A i \in DOMAIN records : records[i] \in UsageRecord
      BY <3>1, ElementTypes
    <3>3. QED
      BY <3>2 DEF UsageRecord
  <2>3. dayKey \in 0..MaxDays /\ day \in dayKey..MaxDays
    BY <2>1 DEF UsageTypes
  <2>4. QED
    BY <2>1, <2>2, <2>3 DEF UsageTypes, DatedRecords, B!TypeOK
<1>5. C!TypeOK
  <2>1. PICK n \in Nat : n = Len(parent) /\ DOMAIN parent = 1..n
    BY DEF StoresInv, TreeInv
  <2>2. \A i \in 1..n : parent[i] \in 0..(i - 1)
    BY <2>1 DEF StoresInv, TreeInv, Continues
  <2>3. current \in {0} \cup (1..n)
    BY <2>1 DEF StoresInv, TreeInv
  <2>4. QED
    BY <2>1, <2>2, <2>3 DEF StoresInv, IndexInv, IndexTypes, Bounded, FewDamages, C!TypeOK, C!Nodes
<1>6. QED
  BY <1>1, <1>2, <1>3, <1>4, <1>5

\* What is kept in files and beside them has its types and stays within its limits:
\* no more checkpoints, records to undo, facts or messages than the code keeps; an
\* install has only hooks of its list still to write, and no record is dated later than today.
THEOREM WorkspaceTypes == WorkspaceSpec => []TypesOK
<1>1. CopiesInv /\ (part = "undo" => UndoInv) /\ StageInv /\ GitInv /\ StoresInv /\ Bounded => TypesOK
  BY FileTypes, StoreTypes DEF TypesOK
<1>2. WorkspaceSpec => []Bounded
  BY InitBounded, NextBounded, CopiesHold, UndoHolds, StoresInvHolds, PTL DEF WorkspaceSpec
<1>3. QED
  BY <1>1, <1>2, CopiesHold, UndoHolds, ChangesHold, StoresInvHolds, PTL
=============================================================================
