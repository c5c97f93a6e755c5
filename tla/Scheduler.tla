----------------------------- MODULE Scheduler -----------------------------
(***************************************************************************)
(* internal/scheduler/scheduler.go: tasks in a locked map, their file, and *)
(* the goroutines that change both: a tick that starts due tasks, the run  *)
(* of a task, and the skills that add, remove and run tasks.  Save takes   *)
(* its snapshot under the lock and writes the file without it.  Which      *)
(* tasks a minute's tick finds due (matchCron) is left open.               *)
(***************************************************************************)
EXTENDS Naturals, FiniteSets

CONSTANTS Tasks,      \* tasks that may be added
          Actors,     \* goroutines that may work at the same time
          MaxRuns,    \* bound on runs
          MaxCrashes, \* bound on restarts
          Torn        \* a file that cannot be parsed

SchedulerAssumption ==
    MaxRuns \in Nat /\ MaxCrashes \in Nat /\ \A s \in SUBSET Tasks : s # Torn

VARIABLES tasks,    \* Scheduler.tasks
          added,    \* tasks ever added
          result,   \* LastResult of each task: the run it comes from
          file,     \* the tasks in the data file, or Torn
          pc,       \* what each actor is doing
          job,      \* what for: the kind of call, its task, its run
          snapshot, \* the tasks its Save will write
          mixed,    \* another Save wrote the file since this one opened it
          last,     \* how the last save goes: alone, overlapped or failed
          runs, crashes

vars == <<tasks, added, result, file, pc, job, snapshot, mixed, last, runs, crashes>>

NoRun == 0
NoJob == [kind |-> "none", task |-> "none", run |-> NoRun]
Kinds == {"add", "remove", "tick", "skill"}
Savers == {a \in Actors : pc[a] \in {"truncate", "write"}}
Goto(a, l) == pc' = [pc EXCEPT ![a] = l]

Init ==
    /\ tasks = {} /\ added = {} /\ file = {}
    /\ result = [t \in Tasks |-> NoRun]
    /\ pc = [a \in Actors |-> "idle"]
    /\ job = [a \in Actors |-> NoJob]
    /\ snapshot = [a \in Actors |-> {}]
    /\ mixed = [a \in Actors |-> FALSE]
    /\ last = "alone"
    /\ runs = 0 /\ crashes = 0

Begin(a, kind, t, l) ==
    /\ pc[a] = "idle"
    /\ job' = [job EXCEPT ![a] = [kind |-> kind, task |-> t, run |-> runs']]
    /\ Goto(a, l)
    /\ UNCHANGED <<result, file, snapshot, mixed, last, crashes>>

\* AddTask, which makes up a new id.
AddTask(a, t) ==
    /\ t \notin added
    /\ tasks' = tasks \cup {t} /\ added' = added \cup {t}
    /\ UNCHANGED runs
    /\ Begin(a, "add", t, "save")

\* Mutant: the removal is not saved.
RemoveTaskUnsaved(a, t) ==
    /\ pc[a] = "idle" /\ t \in tasks
    /\ tasks' = tasks \ {t}
    /\ UNCHANGED <<added, result, file, pc, job, snapshot, mixed, last, runs, crashes>>

RemoveTask(a, t) ==
    /\ t \in added
    /\ tasks' = tasks \ {t}
    /\ UNCHANGED <<added, runs>>
    /\ Begin(a, "remove", t, "save")

\* A tick starts a goroutine for a due task, scheduler_run runs it itself; the
\* task may be running already.
BeginRun(a, t) ==
    /\ t \in tasks /\ runs < MaxRuns
    /\ runs' = runs + 1
    /\ UNCHANGED <<tasks, added>>
    /\ \E kind \in {"tick", "skill"} : Begin(a, kind, t, "run")

\* Mutant: the task of a finished run is put into the map again.
EndRunStores(a) ==
    /\ pc[a] = "run"
    /\ result' = [result EXCEPT ![job[a].task] = job[a].run]
    /\ tasks' = tasks \cup {job[a].task}
    /\ Goto(a, "save")
    /\ UNCHANGED <<added, file, job, snapshot, mixed, last, runs, crashes>>

\* runTask: the command ends or times out; its result is recorded under the
\* lock, in the task the goroutine has kept, removed or not.
EndRun(a) ==
    /\ pc[a] = "run"
    /\ result' = [result EXCEPT ![job[a].task] = job[a].run]
    /\ Goto(a, "save")
    /\ UNCHANGED <<tasks, added, file, job, snapshot, mixed, last, runs, crashes>>

\* Save, under the read lock.
Snapshot(a) ==
    /\ pc[a] = "save"
    /\ snapshot' = [snapshot EXCEPT ![a] = tasks]
    /\ mixed' = [mixed EXCEPT ![a] = FALSE]
    /\ last' = IF Savers = {} THEN "alone" ELSE "overlapped"
    /\ Goto(a, "truncate")
    /\ UNCHANGED <<tasks, added, result, file, job, runs, crashes>>

\* os.WriteFile: the file is cut to nothing, then written from its start; a
\* text written over another, longer one leaves the rest of it.
Truncate(a) ==
    /\ pc[a] = "truncate"
    /\ file' = Torn
    /\ Goto(a, "write")
    /\ UNCHANGED <<tasks, added, result, job, snapshot, mixed, last, runs, crashes>>

Leave(a) ==
    /\ mixed' = [b \in Actors |-> b # a /\ (mixed[b] \/ (pc[a] = "write" /\ pc[b] = "write"))]
    /\ snapshot' = [snapshot EXCEPT ![a] = {}]
    /\ IF job[a].kind = "skill"
       THEN Goto(a, "report") /\ UNCHANGED job
       ELSE Goto(a, "idle") /\ job' = [job EXCEPT ![a] = NoJob]
    /\ UNCHANGED <<tasks, added, result, runs, crashes>>

Write(a) ==
    /\ pc[a] = "write"
    /\ \/ file' = snapshot[a]
       \/ mixed[a] /\ file' = Torn
    /\ Leave(a) /\ UNCHANGED last

\* The file cannot be opened, or part of the text is all that is written.  A run
\* ignores the error, AddTask and RemoveTask return it; the map stays as it is.
WriteFails(a) ==
    /\ \/ pc[a] = "truncate" /\ UNCHANGED file
       \/ pc[a] = "write" /\ file' \in {file, Torn}
    /\ last' = "failed"
    /\ Leave(a)

\* scheduler_run returns the task's LastResult.
Report(a) ==
    /\ pc[a] = "report"
    /\ Goto(a, "idle")
    /\ job' = [job EXCEPT ![a] = NoJob]
    /\ UNCHANGED <<tasks, added, result, file, snapshot, mixed, last, runs, crashes>>

\* A restart; main ignores the error of a Load that cannot parse the file.
\* Results are compared within one life of the process only.
Crash ==
    /\ crashes < MaxCrashes
    /\ crashes' = crashes + 1
    /\ tasks' = IF file = Torn THEN {} ELSE file
    /\ pc' = [a \in Actors |-> "idle"]
    /\ job' = [a \in Actors |-> NoJob]
    /\ snapshot' = [a \in Actors |-> {}]
    /\ mixed' = [a \in Actors |-> FALSE]
    /\ result' = [t \in Tasks |-> NoRun]
    /\ last' = IF file = Torn THEN "failed" ELSE "alone"
    /\ UNCHANGED <<added, file, runs>>

Work(a) == EndRun(a) \/ Snapshot(a) \/ Truncate(a) \/ Write(a) \/ WriteFails(a) \/ Report(a)

Next ==
    \/ \E a \in Actors : Work(a)
    \/ \E a \in Actors, t \in Tasks : AddTask(a, t) \/ RemoveTask(a, t) \/ BeginRun(a, t)
    \/ Crash

Spec == Init /\ [][Next]_vars
\* A run ends: commands have a timeout of five minutes.
FairSpec == Spec /\ \A a \in Actors : WF_vars(Work(a))

-----------------------------------------------------------------------------
TypeOK ==
    /\ tasks \subseteq added /\ added \subseteq Tasks
    /\ result \in [Tasks -> 0..MaxRuns]
    /\ file = Torn \/ file \subseteq Tasks
    /\ pc \in [Actors -> {"idle", "run", "save", "truncate", "write", "report"}]
    /\ \A a \in Actors : job[a].kind \in Kinds \cup {"none"} /\ job[a].run \in 0..MaxRuns
    /\ snapshot \in [Actors -> SUBSET Tasks]
    /\ mixed \in [Actors -> BOOLEAN]
    /\ last \in {"alone", "overlapped", "failed"} /\ runs \in 0..MaxRuns /\ crashes \in 0..MaxCrashes

Quiet == \A a \in Actors : pc[a] \in {"idle", "run", "report"}

\* When no save is under way, the file holds the tasks of the map, unless the
\* last saves overlapped or the last one failed: a save that succeeds alone
\* makes up for all before it, however runs, additions and removals interleave.
SavedWhenQuiet == Quiet /\ last = "alone" => file = tasks

\* Only RemoveTask and a restart take a task out of the map or put it back: a
\* run that ends after its task was removed does not bring the task back.
RemovedStaysRemoved ==
    [][\A t \in Tasks : t \in added /\ t \notin tasks /\ crashes' = crashes => t \notin tasks']_vars

\* scheduler.go:83 "Save persists tasks": with no save under way the file holds
\* the tasks, if the last one did not fail.
SavePersists == Quiet /\ crashes = 0 /\ last # "failed" => file = tasks
=============================================================================
