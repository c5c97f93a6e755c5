----------------------------- MODULE Background -----------------------------
(***************************************************************************)
(* internal/background/tasks.go: commands run in the background.  A task   *)
(* is an entry of the manager's map, a goroutine that creates the output   *)
(* file and waits for the process, and the process itself; Kill, Cleanup   *)
(* and new tasks come in between.                                          *)
(***************************************************************************)
EXTENDS Naturals, FiniteSets

CONSTANTS Limit,   \* tasks the map may hold (10 in the code)
          MaxId    \* bound on the ids handed out

BackgroundAssumption == Limit \in Nat \ {0} /\ MaxId \in Nat \ {0}

VARIABLES nextID,
          status,  \* the tasks in the map: "running", "killed", "done", "failed"
          worker,  \* its goroutine: "none", "open", "start", "wait",
                   \* "lock" or "exited"
          exit,    \* how its process ended, "none" while it has not
          cancel,  \* its context was cancelled
          output   \* its output file exists

vars == <<nextID, status, worker, exit, cancel, output>>

Id == 1..MaxId
Unknown == "unknown"
Statuses == {"running", "killed", "done", "failed"}
Tasks == {i \in Id : status[i] # Unknown}
Running == {i \in Tasks : status[i] = "running"}
Alive == {i \in Id : worker[i] # "none" /\ worker[i] # "exited"}

Init ==
    /\ nextID = 0
    /\ status = [i \in Id |-> Unknown]
    /\ worker = [i \in Id |-> "none"]
    /\ exit = [i \in Id |-> "none"]
    /\ cancel = [i \in Id |-> FALSE]
    /\ output = [i \in Id |-> FALSE]

FreshId(held) == nextID + 1

\* Run: the id is taken even when the map is full.
Run ==
    LET id == FreshId(Tasks)
    IN /\ nextID < MaxId
       /\ nextID' = id
       /\ IF Cardinality(Tasks) >= Limit
          THEN UNCHANGED <<status, worker, exit, cancel>>
          ELSE /\ status' = [status EXCEPT ![id] = "running"]
               /\ worker' = [worker EXCEPT ![id] = "open"]
               /\ exit' = [exit EXCEPT ![id] = "none"]
               /\ cancel' = [cancel EXCEPT ![id] = FALSE]
       /\ UNCHANGED output

\* execute: the output file; without one the command runs all the same.
OpenOutput(i) ==
    /\ worker[i] = "open"
    /\ \E made \in BOOLEAN : output' = [output EXCEPT ![i] = @ \/ made]
    /\ worker' = [worker EXCEPT ![i] = "start"]
    /\ UNCHANGED <<nextID, status, exit, cancel>>

\* The process starts, unless its context was cancelled before.
Start(i) ==
    /\ worker[i] = "start"
    /\ IF cancel[i]
       THEN /\ exit' = [exit EXCEPT ![i] = "error"]
            /\ worker' = [worker EXCEPT ![i] = "lock"]
       ELSE UNCHANGED exit /\ worker' = [worker EXCEPT ![i] = "wait"]
    /\ UNCHANGED <<nextID, status, cancel, output>>

\* The process ends by itself, or because its context was cancelled.
Exit(i) ==
    /\ worker[i] = "wait"
    /\ \/ exit' = [exit EXCEPT ![i] = "ok"]
       \/ exit' = [exit EXCEPT ![i] = "error"]
    /\ worker' = [worker EXCEPT ![i] = "lock"]
    /\ UNCHANGED <<nextID, status, cancel, output>>

\* Mutant: the process's result is taken for the task's status.
FinishRaw(i) ==
    /\ worker[i] = "lock"
    /\ status' = [status EXCEPT ![i] = IF @ = Unknown THEN @ ELSE exit[i]]
    /\ worker' = [worker EXCEPT ![i] = "exited"]
    /\ UNCHANGED <<nextID, exit, cancel, output>>

\* execute, under the lock: the status says how the process ended, whether or
\* not the task was killed; the task may no longer be in the map.
Finish(i) ==
    /\ worker[i] = "lock"
    /\ status' = [status EXCEPT ![i] =
                    IF @ = Unknown THEN @ ELSE IF exit[i] = "ok" THEN "done" ELSE "failed"]
    /\ worker' = [worker EXCEPT ![i] = "exited"]
    /\ UNCHANGED <<nextID, exit, cancel, output>>

Kill(i) ==
    /\ i \in Running
    /\ cancel' = [cancel EXCEPT ![i] = TRUE]
    /\ status' = [status EXCEPT ![i] = "killed"]
    /\ UNCHANGED <<nextID, worker, exit, output>>

\* Mutant: Cleanup drops every task.
CleanupAll ==
    /\ status' = [i \in Id |-> Unknown]
    /\ output' = [i \in Id |-> output[i] /\ i \notin Tasks]
    /\ UNCHANGED <<nextID, worker, exit, cancel>>

\* Cleanup drops what is not running, with the output files.
Cleanup ==
    /\ status' = [i \in Id |-> IF i \in Running THEN status[i] ELSE Unknown]
    /\ output' = [i \in Id |-> output[i] /\ i \notin Tasks \ Running]
    /\ UNCHANGED <<nextID, worker, exit, cancel>>

Work(i) == OpenOutput(i) \/ Start(i) \/ Exit(i) \/ Finish(i)

Next == Run \/ Cleanup \/ \E i \in Id : Work(i) \/ Kill(i)

Spec == Init /\ [][Next]_vars
\* The goroutines run, and a command that is killed ends; others may run on.
Ends(i) == (cancel[i] /\ Work(i)) \/ OpenOutput(i) \/ Start(i) \/ Finish(i)
FairSpec == Spec /\ \A i \in Id : WF_vars(Ends(i))

-----------------------------------------------------------------------------
TypeOK ==
    /\ nextID \in 0..MaxId
    /\ status \in [Id -> Statuses \cup {Unknown}]
    /\ worker \in [Id -> {"none", "open", "start", "wait", "lock", "exited"}]
    /\ exit \in [Id -> {"none", "ok", "error"}]
    /\ cancel \in [Id -> BOOLEAN] /\ output \in [Id -> BOOLEAN]

\* A task is listed as running exactly while its goroutine has not finished
\* and nobody killed it: a task that ended is never shown running, and no
\* process runs that List, Kill and Cleanup do not know of, killed ones apart.
RunningIsAlive ==
    \A i \in Id : status[i] = "running" <=> i \in Alive /\ ~cancel[i]

\* How a task ended is final: it is not changed by a late Kill, nor by another
\* task that gets its id.
OutcomeIsFinal ==
    [][\A i \in Id :
          status[i] \in {"done", "failed"} => status'[i] \in {status[i], Unknown}]_vars

\* A killed task does not stay listed as killed, it ends; and then a Cleanup
\* can drop it.
KilledEnds == \A i \in Id : status[i] = "killed" ~> i \notin Alive
=============================================================================
