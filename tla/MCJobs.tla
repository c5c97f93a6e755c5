------------------------------- MODULE MCJobs -------------------------------
(* The three managers that run work beside the conversation: background      *)
(* commands, scheduled tasks and loops.  They share no state, so a behaviour *)
(* moves one of them, which shows all that it does; the others stay as they  *)
(* were made.                                                                *)
EXTENDS Background

CONSTANTS Scheduled, Actors, MaxRuns, MaxCrashes, Torn

VARIABLES manager,  \* the manager that moves
          tasks, added, result, file, pc, job, snapshot, mixed, last, runs, crashes,
          lastID, loops, adding, loop, cancelled, ticked, fatal

S == INSTANCE Scheduler WITH Tasks <- Scheduled
L == INSTANCE Loop

ASSUME JobsAssumption == BackgroundAssumption /\ S!SchedulerAssumption /\ L!LoopAssumption

sVars == <<tasks, added, result, file, pc, job, snapshot, mixed, last, runs, crashes>>
lVars == <<lastID, loops, adding, loop, cancelled, ticked, fatal>>
jobs == <<manager, vars, sVars, lVars>>

JobsInit ==
    /\ manager \in {"background", "scheduler", "loop"}
    /\ Init /\ S!Init /\ L!Init

JobsNext ==
    \/ manager = "background" /\ Next /\ UNCHANGED <<manager, sVars, lVars>>
    \/ manager = "scheduler" /\ S!Next /\ UNCHANGED <<manager, vars, lVars>>
    \/ manager = "loop" /\ L!Next /\ UNCHANGED <<manager, vars, sVars>>

JobsSpec ==
    /\ JobsInit /\ [][JobsNext]_jobs
    /\ \A i \in Id : WF_vars(manager = "background" /\ Ends(i))
    /\ L!Fairness

-----------------------------------------------------------------------------
TypesOK == TypeOK /\ S!TypeOK /\ L!TypeOK

\* A command listed as running and a loop that is listed are alive, and when no
\* save is on its way the task file holds the tasks that are listed.
ListsAreTrue == RunningIsAlive /\ L!ListedLoopsRun /\ S!SavedWhenQuiet

\* How a command ended, and that a task was removed, is not taken back.
NothingComesBack == OutcomeIsFinal /\ S!RemovedStaysRemoved

\* What was killed or stopped ends.
StoppedEnds == KilledEnds /\ L!StoppedEnds
=============================================================================
