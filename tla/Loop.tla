-------------------------------- MODULE Loop --------------------------------
(***************************************************************************)
(* internal/loop/loop.go: prompts that run again and again.  Add enters    *)
(* the task under the lock, but counts the tasks and takes a refused one   *)
(* out without it; every accepted task has a goroutine that waits for its  *)
(* ticker and calls back, until its context is cancelled.  Ids are never   *)
(* used twice, so an Add is named by the id it was given.                  *)
(***************************************************************************)
EXTENDS Naturals, FiniteSets

CONSTANTS Limit,   \* tasks the map may hold (20 in the code)
          MaxId    \* bound on the ids handed out

LoopAssumption == Limit \in Nat \ {0} /\ MaxId \in Nat \ {0}

VARIABLES lastID,    \* Manager.nextID
          loops,     \* Manager.tasks
          adding,    \* where each Add is
          loop,      \* where each task's goroutine is
          cancelled, \* the loops whose context is cancelled
          ticked,    \* the loops whose ticker has fired
          fatal      \* the runtime has found two goroutines in the map

vars == <<lastID, loops, adding, loop, cancelled, ticked, fatal>>

Id == 1..MaxId
Live == {i \in Id : loop[i] \in {"select", "call"} /\ i \notin cancelled}
Goes(i, f, l) == [f EXCEPT ![i] = l]

Init ==
    /\ lastID = 0 /\ loops = {}
    /\ adding = [i \in Id |-> "none"]
    /\ loop = [i \in Id |-> "none"]
    /\ cancelled = {} /\ ticked = {}
    /\ fatal = FALSE

\* Add, under the lock: the id and the entry.  An interval that does not parse
\* or is under 10s was refused before.
Enter ==
    /\ ~fatal /\ lastID < MaxId
    /\ lastID' = lastID + 1
    /\ loops' = loops \cup {lastID'}
    /\ adding' = Goes(lastID', adding, "count")
    /\ UNCHANGED <<loop, cancelled, ticked, fatal>>

\* Add, with the lock given back.
Count(i) ==
    /\ ~fatal /\ adding[i] = "count"
    /\ IF Cardinality(loops) > Limit
       THEN /\ adding' = Goes(i, adding, "delete")
            /\ cancelled' = cancelled \cup {i}
            /\ UNCHANGED loop
       ELSE /\ adding' = Goes(i, adding, "accepted")
            /\ loop' = Goes(i, loop, "select")
            /\ UNCHANGED cancelled
    /\ UNCHANGED <<lastID, loops, ticked, fatal>>

Delete(i) ==
    /\ ~fatal /\ adding[i] = "delete"
    /\ loops' = loops \ {i}
    /\ adding' = Goes(i, adding, "refused")
    /\ UNCHANGED <<lastID, loop, cancelled, ticked, fatal>>

\* The unlocked delete meets another write of the map, and the runtime may end
\* the process with "concurrent map writes".
Collide(i) ==
    /\ ~fatal /\ adding[i] = "delete"
    /\ lastID < MaxId \/ loops # {i}
    /\ fatal' = TRUE
    /\ UNCHANGED <<lastID, loops, adding, loop, cancelled, ticked>>

\* The counts and times of the runs are left out.  The ticker holds one tick that was not taken.
Tick(i) ==
    /\ ~fatal /\ loop[i] \in {"select", "call"}
    /\ ticked' = ticked \cup {i}
    /\ UNCHANGED <<lastID, loops, adding, loop, cancelled, fatal>>

\* Of a tick and a cancelled context, select takes either.
TakeTick(i) ==
    /\ ~fatal /\ loop[i] = "select" /\ i \in ticked
    /\ ticked' = ticked \ {i}
    /\ loop' = Goes(i, loop, "call")
    /\ UNCHANGED <<lastID, loops, adding, cancelled, fatal>>

\* Mutant: a tick is taken first.
TakeDoneLast(i) ==
    /\ ~fatal /\ loop[i] = "select" /\ i \in cancelled \ ticked
    /\ loop' = Goes(i, loop, "exited")
    /\ UNCHANGED <<lastID, loops, adding, cancelled, ticked, fatal>>

TakeDone(i) ==
    /\ ~fatal /\ loop[i] = "select" /\ i \in cancelled
    /\ loop' = Goes(i, loop, "exited")
    /\ UNCHANGED <<lastID, loops, adding, cancelled, ticked, fatal>>

\* The prompt has run (onRun).
Called(i) ==
    /\ ~fatal /\ loop[i] = "call"
    /\ loop' = Goes(i, loop, "select")
    /\ UNCHANGED <<lastID, loops, adding, cancelled, ticked, fatal>>

Stop(i) ==
    /\ ~fatal /\ i \in loops
    /\ cancelled' = cancelled \cup {i}
    /\ loops' = loops \ {i}
    /\ UNCHANGED <<lastID, adding, loop, ticked, fatal>>

StopAll ==
    /\ ~fatal
    /\ cancelled' = cancelled \cup loops
    /\ loops' = {}
    /\ UNCHANGED <<lastID, adding, loop, ticked, fatal>>

Run(i) == TakeTick(i) \/ TakeDone(i) \/ Called(i)

Next ==
    \/ Enter \/ StopAll
    \/ \E i \in Id : Count(i) \/ Delete(i) \/ Collide(i) \/ Stop(i) \/ Tick(i) \/ Run(i)

\* Add goes on, a prompt's run returns, and select does not ignore a cancelled
\* context for ever: it chooses among its ready cases at random.
Fairness ==
    \A i \in Id : WF_vars(Count(i) \/ Delete(i)) /\ WF_vars(Called(i)) /\ SF_vars(TakeDone(i))

Spec == Init /\ [][Next]_vars
FairSpec == Spec /\ Fairness

-----------------------------------------------------------------------------
TypeOK ==
    /\ lastID \in 0..MaxId /\ loops \subseteq Id
    /\ adding \in [Id -> {"none", "count", "delete", "accepted", "refused"}]
    /\ loop \in [Id -> {"none", "select", "call", "exited"}]
    /\ cancelled \subseteq Id /\ ticked \subseteq Id
    /\ fatal \in BOOLEAN

\* Although Add counts without the lock: the loops that run are those in the
\* map, no loop runs that Stop and StopAll cannot reach, no entry is left
\* without its loop, and there are never more of them than the limit.
ListedLoopsRun ==
    /\ Live \subseteq loops /\ Cardinality(Live) <= Limit
    /\ \A i \in loops : adding[i] \in {"count", "delete"} \/ i \in Live

\* A loop that was stopped, also while it was being added, ends.
StoppedEnds == \A i \in Id : i \in cancelled /\ loop[i] # "none" ~> loop[i] = "exited" \/ fatal
=============================================================================
