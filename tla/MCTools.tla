------------------------------ MODULE MCTools ------------------------------
(* A completion with its tool loop, and the executor that runs the calls of  *)
(* one response in groups.  The code keeps them apart; a behaviour moves one *)
(* of them.  The executor's tools work on two tables of one bit: they read a *)
(* table or flip the bit of the first.                                       *)
EXTENDS Parallel

CONSTANTS MaxToolIter, MaxRetries, Made, Indexes, MaxDeltas

VARIABLES part,  \* the one that moves
          mode, pc, iter, attempt, requests, msgs, streamed, todo, content, shown,
          asked, executed, canceled, outcome

L == INSTANCE ToolLoop WITH calls <- streamed

ASSUME LoopAssumption == L!ToolLoopAssumption

MCWorld == [{"a", "b"} -> 0..1]
MCReads == {<<"read", f>> : f \in {"a", "b"}}
MCTools == MCReads \cup {<<"flip", "a">>, <<"copy", "b">>}
MCReplies == 0..2
MCEffect ==
    [t \in MCTools |-> [w \in MCWorld |->
        CASE t[1] = "read" -> w
          [] t[1] = "flip" -> [w EXCEPT !["a"] = 1 - @]
          [] t[1] = "copy" -> [w EXCEPT !["b"] = w["a"]]]]
MCReply ==
    [t \in MCTools |-> [w \in MCWorld |->
        IF t[1] = "read" THEN w[t[2]] ELSE IF t[1] = "flip" THEN w["a"] ELSE 2]]

lVars == <<mode, pc, iter, attempt, requests, msgs, streamed, todo, content, shown,
           asked, executed, canceled, outcome>>

\* The one that does not move has one state only.
ToolsInit ==
    /\ Init /\ L!Init
    /\ \/ part = "executor" /\ mode = "sync"
       \/ part = "loop" /\ calls = << >> /\ world = [f \in {"a", "b"} |-> 0]

ToolsNext ==
    \/ part = "executor" /\ Next /\ UNCHANGED <<part, lVars>>
    \/ part = "loop" /\ L!Next /\ UNCHANGED <<part, vars>>

ToolsSpec ==
    /\ ToolsInit /\ [][ToolsNext]_<<part, vars, lVars>>
    /\ WF_vars(part = "executor" /\ Next)
    /\ WF_lVars(part = "loop" /\ L!Step)

-----------------------------------------------------------------------------
TypesOK == TypeOK /\ L!TypeOK
ToolProtocol == L!ToolProtocol

\* Whatever is retried or cut short, a call the model made runs, and none twice.
EachCallOnce == L!NothingTwice /\ L!EveryCallRun

\* The one that moves ends: ToolLoop's Terminates, and the executor returns,
\* whatever the calls.
BothEnd == <>(IF part = "loop" THEN pc = "done" ELSE Finished)
=============================================================================
