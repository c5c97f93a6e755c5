----------------------------- MODULE JobsProofs -----------------------------
(***************************************************************************)
(* Proofs about the work beside the conversation, for every limit, number  *)
(* of ids, set of scheduled tasks and of goroutines: background commands,  *)
(* loops and scheduled tasks.                                              *)
(***************************************************************************)
EXTENDS MCJobs, Integers, FiniteSetTheorems, TLAPS

-----------------------------------------------------------------------------
(* Background commands.                                                     *)

CommandTypes ==
    /\ nextID \in 0..MaxId
    /\ status \in [Id -> Statuses \cup {Unknown}]
    /\ worker \in [Id -> {"none", "open", "start", "wait", "lock", "exited"}]
    /\ cancel \in [Id -> BOOLEAN]

\* An id that was not handed out has no goroutine; a command that ended has none left.
CommandInv ==
    /\ CommandTypes
    /\ \A i \in Id : i > nextID => status[i] = Unknown /\ worker[i] = "none"
    /\ \A i \in Id : status[i] \in {"done", "failed"} => worker[i] = "exited"
    /\ RunningIsAlive

LEMMA CommandInit == Init => CommandInv
BY JobsAssumption DEF Init, CommandInv, CommandTypes, RunningIsAlive, Alive, Unknown, Statuses,
                      BackgroundAssumption, Id

\* How a command ended stays, or is forgotten.
Final == \A i \in Id : status[i] \in {"done", "failed"} => status'[i] \in {status[i], Unknown}

LEMMA CommandNext == ASSUME CommandInv, Next PROVE CommandInv' /\ Final
<1> USE DEF CommandInv, CommandTypes, RunningIsAlive, Alive, Statuses, Unknown, Final
<1>1. CASE Run
  <2> DEFINE id == nextID + 1
  <2>1. /\ nextID < MaxId /\ nextID' = id /\ UNCHANGED output
        /\ \/ UNCHANGED <<status, worker, exit, cancel>>
           \/ /\ status' = [status EXCEPT ![id] = "running"]
              /\ worker' = [worker EXCEPT ![id] = "open"]
              /\ cancel' = [cancel EXCEPT ![id] = FALSE]
    BY <1>1 DEF Run, FreshId
  <2>2. MaxId \in Nat /\ id \in Id /\ id \in 0..MaxId /\ status[id] = "unknown" /\ nextID \in Nat
    BY <2>1, JobsAssumption DEF BackgroundAssumption, Id
  <2>3. CASE UNCHANGED <<status, worker, exit, cancel>>
    BY <2>1, <2>2, <2>3 DEF Id
  <2>4. CASE /\ status' = [status EXCEPT ![id] = "running"]
             /\ worker' = [worker EXCEPT ![id] = "open"]
             /\ cancel' = [cancel EXCEPT ![id] = FALSE]
    BY <2>1, <2>2, <2>4 DEF Id
  <2>5. QED
    BY <2>1, <2>3, <2>4
<1>2. CASE Cleanup
  BY <1>2 DEF Cleanup, Running, Tasks
<1>3. ASSUME NEW i \in Id, Kill(i) PROVE CommandInv' /\ Final
  BY <1>3 DEF Kill, Running, Tasks
<1>4. ASSUME NEW i \in Id, OpenOutput(i) \/ Start(i) \/ Exit(i) PROVE CommandInv' /\ Final
  <2>1. /\ UNCHANGED <<nextID, status, cancel>>
        /\ worker[i] \in {"open", "start", "wait"}
        /\ \E l \in {"start", "lock", "wait"} : worker' = [worker EXCEPT ![i] = l]
    BY <1>4 DEF OpenOutput, Start, Exit
  <2>2. QED
    BY <2>1
<1>5. ASSUME NEW i \in Id, Finish(i) PROVE CommandInv' /\ Final
  <2>1. /\ UNCHANGED <<nextID, cancel>> /\ worker[i] = "lock"
        /\ worker' = [worker EXCEPT ![i] = "exited"]
        /\ \E s \in {"done", "failed"} :
              status' = [status EXCEPT ![i] = IF status[i] = "unknown" THEN "unknown" ELSE s]
    <3> DEFINE s == IF exit[i] = "ok" THEN "done" ELSE "failed"
    <3>1. status' = [status EXCEPT ![i] = IF status[i] = "unknown" THEN "unknown" ELSE s]
      BY <1>5 DEF Finish
    <3>2. s \in {"done", "failed"}
      OBVIOUS
    <3>3. QED
      BY <1>5, <3>1, <3>2 DEF Finish
  <2>2. QED
    BY <2>1
<1>6. QED
  BY <1>1, <1>2, <1>3, <1>4, <1>5 DEF Next, Work

-----------------------------------------------------------------------------
(* Loops.                                                                   *)

LoopTypes ==
    /\ lastID \in 0..MaxId /\ loops \subseteq Id /\ cancelled \subseteq Id
    /\ adding \in [Id -> {"none", "count", "delete", "accepted", "refused"}]
    /\ loop \in [Id -> {"none", "select", "call", "exited"}]

\* Who is where: no goroutine before its Add is accepted, none that ended
\* without being cancelled, and no cancelled loop in the map but a refused one.
LoopInv ==
    /\ LoopTypes
    /\ \A i \in Id : i > lastID => adding[i] = "none" /\ i \notin loops /\ i \notin cancelled
    /\ \A i \in Id : adding[i] = "accepted" <=> loop[i] # "none"
    /\ \A i \in Id : loop[i] = "exited" => i \in cancelled
    /\ \A i \in Id : adding[i] \in {"count", "accepted"} => (i \in loops <=> i \notin cancelled)
    /\ \A i \in Id : adding[i] = "delete" => i \in cancelled
    /\ \A i \in loops : adding[i] \in {"count", "delete", "accepted"}
    /\ L!Cardinality(L!Live) <= Limit

LEMMA SameCardinality == ASSUME NEW set PROVE L!Cardinality(set) = Cardinality(set)
BY DEF L!Cardinality, Cardinality

LEMMA FewerLoops ==
    ASSUME NEW A \in SUBSET Id, NEW B \in SUBSET A
    PROVE  L!Cardinality(B) <= L!Cardinality(A) /\ L!Cardinality(A) \in Nat /\ L!Cardinality(B) \in Nat
<1>1. IsFiniteSet(Id)
  BY FS_Interval, JobsAssumption DEF Id, BackgroundAssumption
<1>2. IsFiniteSet(A)
  BY <1>1, FS_Subset
<1>3. IsFiniteSet(B) /\ Cardinality(B) <= Cardinality(A)
  BY <1>2, FS_Subset
<1>4. Cardinality(A) \in Nat /\ Cardinality(B) \in Nat
  BY <1>2, <1>3, FS_CardinalityType
<1>5. QED
  BY <1>3, <1>4, SameCardinality

\* The loops that are alive are those of the map that were accepted.
LEMMA LiveIs == ASSUME LoopInv PROVE L!Live = {i \in loops : adding[i] = "accepted"}
BY DEF LoopInv, LoopTypes, L!Live, L!Id, Id

LEMMA LoopsInit == L!Init => LoopInv
<1>1. SUFFICES ASSUME L!Init PROVE LoopInv
  OBVIOUS
<1>2. L!Live = {} /\ Limit \in Nat /\ MaxId \in Nat
  BY <1>1, JobsAssumption DEF L!Init, L!Live, BackgroundAssumption, L!Id, Id
<1>3. L!Cardinality(L!Live) = 0
  BY <1>2, FS_EmptySet, SameCardinality
<1>4. QED
  BY <1>1, <1>2, <1>3 DEF L!Init, LoopInv, LoopTypes, L!Id, Id

\* No other loop comes alive.
LEMMA NoNewLoop ==
    ASSUME LoopInv, L!Live' \subseteq L!Live
    PROVE  L!Cardinality(L!Live)' <= Limit
<1>1. L!Live \in SUBSET Id /\ Limit \in Nat
  BY JobsAssumption DEF L!Live, L!Id, Id, BackgroundAssumption
<1>2. L!Cardinality(L!Live') <= L!Cardinality(L!Live) /\ L!Cardinality(L!Live) \in Nat
      /\ L!Cardinality(L!Live') \in Nat
  BY <1>1, FewerLoops
<1>3. L!Cardinality(L!Live) <= Limit
  BY DEF LoopInv
<1>4. QED
  BY <1>1, <1>2, <1>3

\* What the map holds covers the loop that is accepted.
LEMMA CountInv == ASSUME LoopInv, NEW i \in Id, L!Count(i) PROVE LoopInv'
<1>1. UNCHANGED <<lastID, loops, ticked, fatal>> /\ adding[i] = "count" /\ i \in Id
  BY DEF L!Count
<1>2. CASE L!Cardinality(loops) > Limit
  <2>1. /\ adding' = [adding EXCEPT ![i] = "delete"]
        /\ cancelled' = cancelled \cup {i} /\ loop' = loop
    BY <1>2 DEF L!Count, L!Goes
  <2>2. L!Cardinality(L!Live)' <= Limit
    <3>1. L!Live' \subseteq L!Live
      BY <2>1 DEF L!Live
    <3>2. QED
      BY <3>1, NoNewLoop
  <2>3. QED
    BY <1>1, <2>1, <2>2 DEF LoopInv, LoopTypes
<1>3. CASE ~(L!Cardinality(loops) > Limit)
  <2>1. /\ adding' = [adding EXCEPT ![i] = "accepted"]
        /\ loop' = [loop EXCEPT ![i] = "select"] /\ cancelled' = cancelled
    BY <1>3 DEF L!Count, L!Goes
  <2>2. L!Cardinality(L!Live)' <= Limit
    <3>1. L!Live' \subseteq loops /\ loops \in SUBSET Id
      BY <1>1, <2>1 DEF L!Live, LoopInv, LoopTypes, L!Id, Id
    <3>2. L!Cardinality(L!Live') <= L!Cardinality(loops) /\ L!Cardinality(loops) \in Nat
          /\ L!Cardinality(L!Live') \in Nat /\ Limit \in Nat
      BY <3>1, FewerLoops, JobsAssumption DEF BackgroundAssumption
    <3>3. QED
      BY <1>3, <3>2
  <2>3. QED
    BY <1>1, <2>1, <2>2 DEF LoopInv, LoopTypes
<1>4. QED
  BY <1>2, <1>3

LEMMA LoopsNext == ASSUME LoopInv, L!Next PROVE LoopInv'
<1>1. CASE L!Enter
  <2> DEFINE id == lastID + 1
  <2>1. /\ lastID' = id /\ loops' = loops \cup {id} /\ adding' = [adding EXCEPT ![id] = "count"]
        /\ UNCHANGED <<loop, cancelled>> /\ lastID < MaxId
    BY <1>1 DEF L!Enter, L!Goes
  <2>2. /\ MaxId \in Nat /\ id \in Id /\ id \in 0..MaxId /\ lastID \in Nat
        /\ adding[id] = "none" /\ id \notin loops /\ id \notin cancelled /\ loop[id] = "none"
    BY <2>1, JobsAssumption DEF BackgroundAssumption, Id, LoopInv, LoopTypes
  <2>3. L!Cardinality(L!Live)' <= Limit
    BY <2>1, NoNewLoop DEF L!Live
  <2> HIDE DEF id
  <2>4. LoopTypes'
    BY <2>1, <2>2 DEF LoopInv, LoopTypes
  <2>5. \A i \in Id : adding'[i] = IF i = id THEN "count" ELSE adding[i]
    BY <2>1, <2>2 DEF LoopInv, LoopTypes
  <2>6. \A i \in Id : i > lastID' => i > lastID /\ i # id
    BY <2>1, <2>2 DEF id, Id
  <2>7. QED
    BY <2>1, <2>2, <2>3, <2>4, <2>5, <2>6 DEF LoopInv, LoopTypes
<1>2. CASE L!StopAll
  <2>1. cancelled' = cancelled \cup loops /\ loops' = {} /\ UNCHANGED <<lastID, adding, loop>>
    BY <1>2 DEF L!StopAll
  <2>2. L!Cardinality(L!Live)' <= Limit
    BY <2>1, NoNewLoop DEF L!Live
  <2>3. QED
    BY <2>1, <2>2 DEF LoopInv, LoopTypes
<1>3. ASSUME NEW i \in Id, L!Stop(i) PROVE LoopInv'
  <2>1. cancelled' = cancelled \cup {i} /\ loops' = loops \ {i} /\ UNCHANGED <<lastID, adding, loop>>
        /\ i \in loops
    BY <1>3 DEF L!Stop
  <2>2. L!Cardinality(L!Live)' <= Limit
    BY <2>1, NoNewLoop DEF L!Live
  <2>3. QED
    BY <2>1, <2>2 DEF LoopInv, LoopTypes
<1>4. ASSUME NEW i \in Id, L!Delete(i) PROVE LoopInv'
  <2>1. /\ loops' = loops \ {i} /\ UNCHANGED <<lastID, cancelled, loop>>
        /\ adding[i] = "delete" /\ adding' = [adding EXCEPT ![i] = "refused"]
    BY <1>4 DEF L!Delete, L!Goes
  <2>2. L!Cardinality(L!Live)' <= Limit
    BY <2>1, NoNewLoop DEF L!Live
  <2>3. QED
    BY <2>1, <2>2 DEF LoopInv, LoopTypes
<1>5. ASSUME NEW i \in Id, L!Collide(i) \/ L!Tick(i) PROVE LoopInv'
  <2>1. UNCHANGED <<lastID, loops, adding, loop, cancelled>>
    BY <1>5 DEF L!Collide, L!Tick
  <2>2. L!Cardinality(L!Live)' <= Limit
    BY <2>1, NoNewLoop DEF L!Live
  <2>3. QED
    BY <2>1, <2>2 DEF LoopInv, LoopTypes
<1>6. ASSUME NEW i \in Id, L!Run(i) PROVE LoopInv'
  <2>1. UNCHANGED <<lastID, loops, adding, cancelled>> /\ loop[i] \in {"select", "call"}
    BY <1>6 DEF L!Run, L!TakeTick, L!TakeDone, L!Called
  <2>2. \E l \in {"select", "call", "exited"} :
          loop' = [loop EXCEPT ![i] = l] /\ (l = "exited" => i \in cancelled)
    BY <1>6 DEF L!Run, L!TakeTick, L!TakeDone, L!Called, L!Goes
  <2>3. L!Cardinality(L!Live)' <= Limit
    <3>1. L!Live' \subseteq L!Live
      BY <2>1, <2>2 DEF L!Live, LoopInv, LoopTypes, L!Id, Id
    <3>2. QED
      BY <3>1, NoNewLoop
  <2>4. QED
    BY <2>1, <2>2, <2>3 DEF LoopInv, LoopTypes
<1>7. \A i : i \in L!Id <=> i \in Id
  BY DEF L!Id, Id
<1>8. QED
  BY <1>1, <1>2, <1>3, <1>4, <1>5, <1>6, <1>7, CountInv DEF L!Next

LEMMA LoopInvListed == LoopInv => L!ListedLoopsRun
BY DEF LoopInv, LoopTypes, L!ListedLoopsRun, L!Live, L!Id, Id

-----------------------------------------------------------------------------
(* Scheduled tasks.                                                         *)

SchedulerTypes ==
    /\ crashes \in Nat
    /\ pc \in [Actors -> {"idle", "run", "save", "truncate", "write", "report"}]
    /\ snapshot = [a \in Actors |-> snapshot[a]] /\ mixed = [a \in Actors |-> mixed[a]]
    /\ last \in {"alone", "overlapped", "failed"}

\* A save that nobody overlapped writes the tasks, unless they changed since
\* and are going to be saved again.
SaveInv ==
    /\ SchedulerTypes
    /\ last = "alone" =>
         \/ \E a \in Actors : pc[a] = "save"
         \/ S!Savers = {} /\ file = tasks
         \/ \E a \in Actors : S!Savers = {a} /\ snapshot[a] = tasks /\ ~mixed[a]
    /\ last = "alone" => \A a, b \in S!Savers : a = b
    /\ last = "alone" => \A a \in S!Savers : ~mixed[a]

LEMMA SchedulerInit == S!Init => SaveInv
BY DEF S!Init, SaveInv, SchedulerTypes, S!Savers

Removed ==
    \A t \in Scheduled : t \in added /\ t \notin tasks /\ crashes' = crashes => t \notin tasks'

LEMMA SchedulerNext == ASSUME SaveInv, S!Next PROVE SaveInv' /\ Removed
<1> USE DEF SaveInv, SchedulerTypes
<1>1. ASSUME NEW a \in Actors, NEW t \in Scheduled, S!AddTask(a, t) \/ S!RemoveTask(a, t)
      PROVE  SaveInv' /\ Removed
  <2>1. /\ pc[a] = "idle" /\ pc' = [pc EXCEPT ![a] = "save"]
        /\ UNCHANGED <<file, snapshot, mixed, last, crashes>>
        /\ \/ t \notin added /\ tasks' = tasks \cup {t} /\ added' = added \cup {t}
           \/ tasks' = tasks \ {t} /\ added' = added
    BY <1>1 DEF S!AddTask, S!RemoveTask, S!Begin, S!Goto
  <2>2. S!Savers' = S!Savers
    BY <2>1 DEF S!Savers
  <2>3. pc'[a] = "save"
    BY <2>1
  <2>4. QED
    BY <2>1, <2>2, <2>3 DEF Removed
<1>2. ASSUME NEW a \in Actors, NEW t \in Scheduled, S!BeginRun(a, t) PROVE SaveInv' /\ Removed
  <2>1. /\ pc[a] = "idle" /\ pc' = [pc EXCEPT ![a] = "run"]
        /\ UNCHANGED <<tasks, added, file, snapshot, mixed, last, crashes>>
    BY <1>2 DEF S!BeginRun, S!Begin, S!Goto
  <2>2. S!Savers' = S!Savers /\ \A b \in Actors : pc[b] = "save" => pc'[b] = "save"
    BY <2>1 DEF S!Savers
  <2>3. QED
    BY <2>1, <2>2 DEF Removed
<1>3. ASSUME NEW a \in Actors, S!EndRun(a) PROVE SaveInv' /\ Removed
  <2>1. /\ pc[a] = "run" /\ pc' = [pc EXCEPT ![a] = "save"]
        /\ UNCHANGED <<tasks, added, file, snapshot, mixed, last, crashes>>
    BY <1>3 DEF S!EndRun, S!Goto
  <2>2. S!Savers' = S!Savers /\ pc'[a] = "save"
    BY <2>1 DEF S!Savers
  <2>3. QED
    BY <2>1, <2>2 DEF Removed
<1>4. ASSUME NEW a \in Actors, S!Snapshot(a) PROVE SaveInv' /\ Removed
  <2>1. /\ pc[a] = "save" /\ pc' = [pc EXCEPT ![a] = "truncate"]
        /\ snapshot' = [snapshot EXCEPT ![a] = tasks] /\ mixed' = [mixed EXCEPT ![a] = FALSE]
        /\ last' = (IF S!Savers = {} THEN "alone" ELSE "overlapped") /\ UNCHANGED <<tasks, added, file, crashes>>
    BY <1>4 DEF S!Snapshot, S!Goto
  <2>2. S!Savers' = S!Savers \cup {a}
    BY <2>1 DEF S!Savers
  <2>3. snapshot'[a] = tasks /\ mixed'[a] = FALSE
    BY <2>1
  <2>4. QED
    BY <2>1, <2>2, <2>3 DEF Removed
<1>5. ASSUME NEW a \in Actors, S!Truncate(a) PROVE SaveInv' /\ Removed
  <2>1. /\ pc[a] = "truncate" /\ pc' = [pc EXCEPT ![a] = "write"]
        /\ UNCHANGED <<tasks, added, snapshot, mixed, last, crashes>>
    BY <1>5 DEF S!Truncate, S!Goto
  <2>2. /\ S!Savers' = S!Savers /\ a \in S!Savers
        /\ \A b \in Actors : pc[b] = "save" => pc'[b] = "save"
    BY <2>1 DEF S!Savers
  <2>3. QED
    BY <2>1, <2>2 DEF Removed
<1>6. ASSUME NEW a \in Actors, S!Write(a) \/ S!WriteFails(a) PROVE SaveInv' /\ Removed
  <2>1. /\ pc[a] \in {"truncate", "write"}
        /\ \/ (file' = snapshot[a] \/ mixed[a]) /\ last' = last
           \/ last' = "failed"
        /\ mixed' = [b \in Actors |-> b # a /\ (mixed[b] \/ (pc[a] = "write" /\ pc[b] = "write"))]
        /\ snapshot' = [snapshot EXCEPT ![a] = {}]
        /\ UNCHANGED <<tasks, added, crashes>>
        /\ \E l \in {"report", "idle"} : pc' = [pc EXCEPT ![a] = l]
    BY <1>6 DEF S!Write, S!WriteFails, S!Leave, S!Goto
  <2>2. /\ S!Savers' = S!Savers \ {a} /\ a \in S!Savers
        /\ \A b \in Actors : pc[b] = "save" => pc'[b] = "save"
    BY <2>1 DEF S!Savers
  <2>3. SchedulerTypes' /\ Removed
    BY <2>1 DEF Removed
  <2>4. last = "alone" => S!Savers' = {}
    BY <2>2
  <2>5. QED
    BY <2>1, <2>2, <2>3, <2>4
<1>7. ASSUME NEW a \in Actors, S!Report(a) PROVE SaveInv' /\ Removed
  <2>1. /\ pc[a] = "report" /\ pc' = [pc EXCEPT ![a] = "idle"]
        /\ UNCHANGED <<tasks, added, file, snapshot, mixed, last, crashes>>
    BY <1>7 DEF S!Report, S!Goto
  <2>2. S!Savers' = S!Savers /\ \A b \in Actors : pc[b] = "save" => pc'[b] = "save"
    BY <2>1 DEF S!Savers
  <2>3. QED
    BY <2>1, <2>2 DEF Removed
<1>8. CASE S!Crash
  <2>1. /\ crashes' = crashes + 1 /\ tasks' = (IF file = Torn THEN {} ELSE file) /\ file' = file
        /\ (last' = "alone" => file # Torn)
        /\ last' \in {"alone", "overlapped", "failed"} /\ added' = added /\ pc' = [b \in Actors |-> "idle"]
        /\ snapshot' = [b \in Actors |-> {}] /\ mixed' = [b \in Actors |-> FALSE]
    BY <1>8 DEF S!Crash
  <2>2. S!Savers' = {}
    BY <2>1 DEF S!Savers
  <2>3. QED
    BY <2>1, <2>2 DEF Removed
<1>9. QED
  BY <1>1, <1>2, <1>3, <1>4, <1>5, <1>6, <1>7, <1>8 DEF S!Next, S!Work

-----------------------------------------------------------------------------
JobsInv == CommandInv /\ LoopInv /\ SaveInv

LEMMA SameJobs ==
    /\ CommandInv /\ UNCHANGED vars => CommandInv' /\ Final
    /\ LoopInv /\ UNCHANGED lVars => LoopInv'
    /\ SaveInv /\ UNCHANGED sVars => SaveInv' /\ Removed
<1>1. ASSUME CommandInv, UNCHANGED vars PROVE CommandInv' /\ Final
  BY <1>1 DEF CommandInv, CommandTypes, RunningIsAlive, Alive, Final, vars
<1>2. ASSUME LoopInv, UNCHANGED lVars PROVE LoopInv'
  <2>1. UNCHANGED <<lastID, loops, adding, loop, cancelled>>
    BY <1>2 DEF lVars
  <2>2. L!Cardinality(L!Live)' <= Limit
    BY <1>2, <2>1, NoNewLoop DEF L!Live
  <2>3. QED
    BY <1>2, <2>1, <2>2 DEF LoopInv, LoopTypes
<1>3. ASSUME SaveInv, UNCHANGED sVars PROVE SaveInv' /\ Removed
  <2>1. UNCHANGED <<tasks, file, pc, snapshot, mixed, last, crashes>>
    BY <1>3 DEF sVars
  <2>2. UNCHANGED S!Savers
    BY <2>1 DEF S!Savers
  <2>3. QED
    BY <1>3, <2>1, <2>2 DEF SaveInv, SchedulerTypes, Removed
<1>4. QED
  BY <1>1, <1>2, <1>3

LEMMA JobsSteps == JobsInv /\ [JobsNext]_jobs => JobsInv' /\ Final /\ Removed
<1>1. SUFFICES ASSUME JobsInv, [JobsNext]_jobs PROVE JobsInv' /\ Final /\ Removed
  OBVIOUS
<1>2. CommandInv' /\ Final
  BY <1>1, CommandNext, SameJobs DEF JobsInv, JobsNext, jobs
<1>3. LoopInv'
  BY <1>1, LoopsNext, SameJobs DEF JobsInv, JobsNext, jobs
<1>4. SaveInv' /\ Removed
  BY <1>1, SchedulerNext, SameJobs DEF JobsInv, JobsNext, jobs
<1>5. QED
  BY <1>2, <1>3, <1>4 DEF JobsInv

LEMMA SpecJobsInv == JobsSpec => []JobsInv
<1>1. JobsInit => JobsInv
  BY CommandInit, LoopsInit, SchedulerInit DEF JobsInit, JobsInv
<1>2. QED
  BY <1>1, JobsSteps, PTL DEF JobsSpec

\* A command listed as running and a loop that is listed are alive, there are
\* never more loops than the limit although Add counts without its lock, and
\* the task file holds the tasks when no save is on its way and the last one
\* neither failed nor overlapped another (tasks.go's execute, Kill and Cleanup; loop.go's Add and Stop; scheduler.go's
\* Save).
THEOREM ListsTellTheTruth == JobsSpec => []ListsAreTrue
<1>1. JobsInv => RunningIsAlive
  BY DEF JobsInv, CommandInv
<1>2. JobsInv => L!ListedLoopsRun
  BY LoopInvListed DEF JobsInv
<1>3. JobsInv => S!SavedWhenQuiet
  BY DEF JobsInv, SaveInv, SchedulerTypes, S!SavedWhenQuiet, S!Quiet, S!Savers
<1>4. JobsInv => ListsAreTrue
  BY <1>1, <1>2, <1>3 DEF ListsAreTrue
<1>5. QED
  BY <1>4, SpecJobsInv, PTL

\* How a command ended, and that a task was removed, is not taken back, by a
\* late Kill or a run that ends after its task was removed.
THEOREM NothingIsTakenBack == JobsSpec => NothingComesBack
<1>1. JobsInv /\ [JobsNext]_jobs
        => [\A i \in Id : status[i] \in {"done", "failed"} => status'[i] \in {status[i], Unknown}]_vars
  BY JobsSteps DEF Final
<1>2. JobsInv /\ [JobsNext]_jobs
        => [\A t \in Scheduled : t \in added /\ t \notin tasks /\ crashes' = crashes
                                => t \notin tasks']_(S!vars)
  BY JobsSteps DEF Removed
<1>3. QED
  BY <1>1, <1>2, SpecJobsInv, PTL
     DEF JobsSpec, NothingComesBack, OutcomeIsFinal, S!RemovedStaysRemoved

-----------------------------------------------------------------------------
(* Types.                                                                   *)

JobRecord == [kind : S!Kinds \cup {"none"}, task : Scheduled \cup {"none"}, run : 0..MaxRuns]

\* The file and the copies of it hold tasks that were added.
ScheduleTyped ==
    /\ tasks \subseteq added /\ added \subseteq Scheduled
    /\ result \in [Scheduled -> 0..MaxRuns]
    /\ file = Torn \/ file \subseteq added
    /\ pc \in [Actors -> {"idle", "run", "save", "truncate", "write", "report"}]
    /\ job \in [Actors -> JobRecord]
    /\ snapshot \in [Actors -> SUBSET added]
    /\ mixed \in [Actors -> BOOLEAN]
    /\ last \in {"alone", "overlapped", "failed"} /\ runs \in 0..MaxRuns /\ crashes \in 0..MaxCrashes

Typed == TypeOK /\ L!TypeOK /\ ScheduleTyped

LEMMA JobsTypesInit == JobsInit => Typed
<1> SUFFICES ASSUME JobsInit PROVE Typed
  OBVIOUS
<1>1. TypeOK
  BY JobsAssumption DEF JobsInit, Init, TypeOK, Statuses, Unknown, BackgroundAssumption, Id
<1>2. L!TypeOK
  <2>1. 0 \in 0..MaxId
    BY JobsAssumption DEF BackgroundAssumption
  <2>2. QED
    BY <2>1 DEF JobsInit, L!Init, L!TypeOK
<1>3. ScheduleTyped
  BY JobsAssumption DEF JobsInit, S!Init, ScheduleTyped, S!NoJob, S!NoRun, JobRecord, S!SchedulerAssumption
<1>4. QED
  BY <1>1, <1>2, <1>3 DEF Typed

LEMMA CommandTyped == ASSUME TypeOK, Next PROVE TypeOK'
<1> USE DEF TypeOK, Statuses, Unknown
<1>1. CASE Run
  <2> DEFINE id == nextID + 1
  <2>1. /\ nextID < MaxId /\ nextID' = id /\ UNCHANGED output
        /\ \/ UNCHANGED <<status, worker, exit, cancel>>
           \/ /\ status' = [status EXCEPT ![id] = "running"]
              /\ worker' = [worker EXCEPT ![id] = "open"]
              /\ exit' = [exit EXCEPT ![id] = "none"]
              /\ cancel' = [cancel EXCEPT ![id] = FALSE]
    BY <1>1 DEF Run, FreshId
  <2>2. id \in 0..MaxId
    BY <2>1, JobsAssumption DEF BackgroundAssumption
  <2>3. QED
    BY <2>1, <2>2
<1>2. CASE Cleanup
  BY <1>2 DEF Cleanup, Running, Tasks
<1>3. ASSUME NEW i \in Id, Kill(i) PROVE TypeOK'
  BY <1>3 DEF Kill
<1>4. ASSUME NEW i \in Id, Work(i) PROVE TypeOK'
  <2>1. CASE OpenOutput(i)
    BY <2>1 DEF OpenOutput
  <2>2. CASE Start(i)
    BY <2>2 DEF Start
  <2>3. CASE Exit(i)
    BY <2>3 DEF Exit
  <2>4. CASE Finish(i)
    BY <2>4 DEF Finish
  <2>5. QED
    BY <1>4, <2>1, <2>2, <2>3, <2>4 DEF Work
<1>5. QED
  BY <1>1, <1>2, <1>3, <1>4 DEF Next

LEMMA LoopTyped == ASSUME L!TypeOK, L!Next PROVE L!TypeOK'
<1> USE DEF L!TypeOK, L!Goes
<1>1. CASE L!Enter
  <2>1. lastID + 1 \in L!Id /\ lastID + 1 \in 0..MaxId
    BY <1>1, JobsAssumption DEF L!Enter, BackgroundAssumption, L!Id
  <2>2. QED
    BY <1>1, <2>1 DEF L!Enter
<1>2. CASE L!StopAll
  BY <1>2 DEF L!StopAll
<1>3. ASSUME NEW i \in L!Id, L!Count(i) PROVE L!TypeOK'
  BY <1>3 DEF L!Count
<1>4. ASSUME NEW i \in L!Id, L!Delete(i) \/ L!Collide(i) \/ L!Stop(i) \/ L!Tick(i) PROVE L!TypeOK'
  BY <1>4 DEF L!Delete, L!Collide, L!Stop, L!Tick
<1>5. ASSUME NEW i \in L!Id, L!Run(i) PROVE L!TypeOK'
  BY <1>5 DEF L!Run, L!TakeTick, L!TakeDone, L!Called
<1>6. QED
  BY <1>1, <1>2, <1>3, <1>4, <1>5 DEF L!Next

LEMMA ScheduleSteps == ASSUME ScheduleTyped, S!Next PROVE ScheduleTyped'
<1> USE DEF ScheduleTyped
<1>0. MaxRuns \in Nat /\ MaxCrashes \in Nat
  BY JobsAssumption DEF S!SchedulerAssumption
<1>1. ASSUME NEW a \in Actors, NEW t \in Scheduled,
             S!AddTask(a, t) \/ S!RemoveTask(a, t) \/ S!BeginRun(a, t)
      PROVE  ScheduleTyped'
  <2>1. /\ runs' \in 0..MaxRuns /\ UNCHANGED <<result, file, snapshot, mixed, last, crashes>>
        /\ \E l \in {"save", "run"} : pc' = [pc EXCEPT ![a] = l]
        /\ \E kind \in S!Kinds : job' = [job EXCEPT ![a] = [kind |-> kind, task |-> t, run |-> runs']]
        /\ tasks' \subseteq added' /\ added' \subseteq Scheduled /\ added \subseteq added'
    BY <1>0, <1>1 DEF S!AddTask, S!RemoveTask, S!BeginRun, S!Begin, S!Goto, S!Kinds
  <2>2. \A kind \in S!Kinds : [kind |-> kind, task |-> t, run |-> runs'] \in JobRecord
    BY <2>1 DEF JobRecord
  <2>3. job' \in [Actors -> JobRecord]
    BY <2>1, <2>2
  <2>4. QED
    BY <2>1, <2>3
<1>2. ASSUME NEW a \in Actors, S!EndRun(a) PROVE ScheduleTyped'
  BY <1>2 DEF S!EndRun, S!Goto, JobRecord
<1>3. ASSUME NEW a \in Actors, S!Snapshot(a) PROVE ScheduleTyped'
  BY <1>3 DEF S!Snapshot, S!Goto
<1>4. ASSUME NEW a \in Actors, S!Truncate(a) PROVE ScheduleTyped'
  BY <1>4 DEF S!Truncate, S!Goto
<1>5. ASSUME NEW a \in Actors, S!Write(a) \/ S!WriteFails(a) \/ S!Report(a) PROVE ScheduleTyped'
  <2>1. S!NoJob \in JobRecord
    BY <1>0 DEF S!NoJob, S!NoRun, JobRecord
  <2>2. QED
    BY <1>5, <2>1 DEF S!Write, S!WriteFails, S!Leave, S!Report, S!Goto
<1>6. CASE S!Crash
  <2>1. S!NoJob \in JobRecord /\ S!NoRun \in 0..MaxRuns /\ crashes' \in 0..MaxCrashes
    BY <1>0, <1>6 DEF S!NoJob, S!NoRun, JobRecord, S!Crash
  <2>2. QED
    BY <1>6, <2>1 DEF S!Crash
<1>7. QED
  BY <1>1, <1>2, <1>3, <1>4, <1>5, <1>6 DEF S!Next, S!Work

\* TypesOK: the values the three managers can hold; what a save writes and a
\* restart loads are tasks that were added.
THEOREM JobsTypes == JobsSpec => []TypesOK
<1>1. Typed /\ [JobsNext]_jobs => Typed'
  <2> SUFFICES ASSUME Typed, [JobsNext]_jobs PROVE Typed'
    OBVIOUS
  <2>1. TypeOK'
    <3>1. CASE UNCHANGED vars
      BY <3>1 DEF Typed, TypeOK, vars
    <3>2. QED
      BY <3>1, CommandTyped DEF Typed, JobsNext, jobs
  <2>2. L!TypeOK'
    <3>1. CASE UNCHANGED lVars
      BY <3>1 DEF Typed, L!TypeOK, lVars
    <3>2. QED
      BY <3>1, LoopTyped DEF Typed, JobsNext, jobs
  <2>3. ScheduleTyped'
    <3>1. CASE UNCHANGED sVars
      BY <3>1 DEF Typed, ScheduleTyped, sVars
    <3>2. QED
      BY <3>1, ScheduleSteps DEF Typed, JobsNext, jobs
  <2>4. QED
    BY <2>1, <2>2, <2>3 DEF Typed
<1>2. Typed => TypesOK
  BY DEF Typed, ScheduleTyped, JobRecord, S!TypeOK, TypesOK
<1>3. QED
  BY <1>1, <1>2, JobsTypesInit, PTL DEF JobsSpec
=============================================================================
