------------------------------ MODULE Parallel ------------------------------
(***************************************************************************)
(* internal/parallel/parallel.go: the tool calls of one response are run   *)
(* in groups.  A run of read-only calls forms a group whose calls run in   *)
(* goroutines of their own; any other call is a group by itself.  The      *)
(* results come back in the order of the calls.                            *)
(***************************************************************************)
EXTENDS Naturals, Sequences

CONSTANTS Tools,     \* tools with their arguments
          ReadOnly,  \* the tools on the read-only list
          World,     \* states of what the tools work on
          Replies,   \* what a tool may return, an error included
          Effect,    \* what each tool does to the world
          Reply,     \* what each tool returns in a world
          MaxCalls   \* bound on the calls of a response

ASSUME ParallelAssumption ==
    /\ ReadOnly \subseteq Tools
    /\ Effect \in [Tools -> [World -> World]]
    /\ Reply \in [Tools -> [World -> Replies]]
    /\ MaxCalls \in Nat

\* The tools on the list do only read.
ReadsOnlyRead == \A t \in ReadOnly, w \in World : Effect[t][w] = w

VARIABLES calls,   \* the calls of the response
          world,
          start,   \* first call of the group being run, or one past the last
          running, \* calls whose execution has not finished
          results, \* the result of each call that has one
          initial  \* the world before the first call

vars == <<calls, world, start, running, results, initial>>

CallLists == UNION {[1..n -> Tools] : n \in 0..MaxCalls}
Index == 1..Len(calls)
IsReadOnly(i) == calls[i] \in ReadOnly

\* Mutant: a write joins the reads that follow it.
GroupAfterWrite(i) ==
    {j \in Index : j >= i /\ \A k \in (i + 1)..j : IsReadOnly(k)}

\* buildGroups: the group that begins at call i.
Group(i) ==
    IF IsReadOnly(i)
    THEN {j \in Index : j >= i /\ \A k \in i..j : IsReadOnly(k)}
    ELSE {i}

Init ==
    /\ calls \in CallLists
    /\ world \in World
    /\ initial = world
    /\ start = 1
    /\ running = IF calls = << >> THEN {} ELSE Group(1)
    /\ results = << >>

\* executeSingle of one call of the group; the goroutines of a group run in
\* any order.
Execute(i) ==
    /\ i \in running
    /\ results' = [j \in DOMAIN results \cup {i} |->
                     IF j = i THEN Reply[calls[i]][world] ELSE results[j]]
    /\ world' = Effect[calls[i]][world]
    /\ running' = running \ {i}
    /\ UNCHANGED <<calls, start, initial>>

\* The WaitGroup lets the loop go on to the next group once all calls of this
\* one have returned.
NextGroup ==
    /\ start \in Index
    /\ running = {}
    /\ \E next \in start..(Len(calls) + 1) :
         /\ Group(start) = start..(next - 1)
         /\ start' = next
         /\ running' = IF next = Len(calls) + 1 THEN {} ELSE Group(next)
    /\ UNCHANGED <<calls, world, results, initial>>

Next == (\E i \in Index : Execute(i)) \/ NextGroup

Spec == Init /\ [][Next]_vars
\* Tools return: each call is run, and the loop goes on.
FairSpec == Spec /\ WF_vars(Next)

-----------------------------------------------------------------------------
TypeOK ==
    /\ calls \in CallLists
    /\ world \in World /\ initial \in World
    /\ start \in 1..(Len(calls) + 1)
    /\ running \in SUBSET Index
    /\ DOMAIN results \subseteq Index
    /\ \A i \in DOMAIN results : results[i] \in Replies

\* ws and rs are the worlds and results of running the first n calls one after
\* another.
Sequential(n, ws, rs) ==
    /\ ws[1] = initial
    /\ \A i \in 1..n :
         /\ rs[i] = Reply[calls[i]][ws[i]]
         /\ ws[i + 1] = Effect[calls[i]][ws[i]]

Finished == start = Len(calls) + 1

\* Running reads in parallel changes nothing: when Execute returns, every
\* call has its own result, and results and world are those of running the
\* calls one after another.
SameAsSequential ==
    Finished =>
        /\ DOMAIN results = Index
        /\ \E ws \in [1..(Len(calls) + 1) -> World] :
             Sequential(Len(calls), ws, results) /\ ws[Len(calls) + 1] = world
=============================================================================
