----------------------------- MODULE ToolsProofs -----------------------------
(***************************************************************************)
(* Proofs about tool calls.  The executor, for every list of calls and     *)
(* whatever the tools do: if the tools on the read-only list only read,    *)
(* its results are those of running the calls one after another.  The tool *)
(* loop, for every number of iterations, retries, calls and deltas: what   *)
(* is sent keeps to the protocol, and each call runs once.                 *)
(***************************************************************************)
EXTENDS MCTools, Integers, FiniteSetTheorems, TLAPS

-----------------------------------------------------------------------------
(* The executor.                                                            *)

\* The group being run.
Current == IF start \in Index THEN Group(start) ELSE {}

\* ws are the worlds of the sequential run up to the current group; each call
\* of the group that is done has the result it has there, and a write, which
\* is a group by itself, has changed the world.
Follows(ws) ==
    /\ Sequential(start - 1, ws, results)
    /\ \A i \in Current \ running : results[i] = Reply[calls[i]][ws[start]]
    /\ world = IF start \notin Index \/ IsReadOnly(start) \/ running # {}
               THEN ws[start] ELSE Effect[calls[start]][ws[start]]

IInv ==
    /\ TypeOK
    /\ running \subseteq Current
    /\ DOMAIN results = (1..(start - 1)) \cup (Current \ running)
    /\ \E ws \in [1..start -> World] : Follows(ws)

-----------------------------------------------------------------------------
LEMMA CallsType ==
    ASSUME calls \in CallLists
    PROVE  /\ Len(calls) \in Nat
           /\ calls \in [Index -> Tools]
<1>1. PICK n \in 0..MaxCalls : calls \in [1..n -> Tools]
  BY DEF CallLists
<1>2. n \in Nat
  BY ParallelAssumption DEF ParallelAssumption
<1>3. calls \in Seq(Tools) /\ Len(calls) = n
  BY <1>1, <1>2
<1> QED
  BY <1>1, <1>2, <1>3 DEF Index

\* A group starts at its first call, lies within the calls, and is one write
\* or reads only.
LEMMA GroupShape ==
    ASSUME calls \in CallLists, NEW i \in Index
    PROVE  /\ i \in Group(i)
           /\ Group(i) \subseteq {j \in Index : j >= i}
           /\ IsReadOnly(i) => \A j \in Group(i) : IsReadOnly(j)
           /\ ~IsReadOnly(i) => Group(i) = {i}
<1>1. Len(calls) \in Nat
  BY CallsType
<1>2. i \in Nat /\ i >= 1 /\ i \in i..i
  BY <1>1 DEF Index
<1>3. CASE IsReadOnly(i)
  <2>1. i \in Group(i)
    BY <1>1, <1>2, <1>3 DEF Group, Index
  <2>2. ASSUME NEW j \in Group(i)
        PROVE  j \in Index /\ j >= i /\ IsReadOnly(j)
    <3>1. j \in Index /\ j >= i /\ \A k \in i..j : IsReadOnly(k)
      BY <1>3, <2>2 DEF Group
    <3>2. j \in i..j
      BY <1>1, <1>2, <3>1 DEF Index
    <3> QED
      BY <3>1, <3>2
  <2> QED
    BY <1>3, <2>1, <2>2
<1>4. CASE ~IsReadOnly(i)
  BY <1>2, <1>4 DEF Group
<1> QED
  BY <1>3, <1>4

LEMMA InitInv == Init => IInv
<1> SUFFICES ASSUME Init PROVE IInv
  OBVIOUS
<1>1. Len(calls) \in Nat /\ calls \in [Index -> Tools] /\ calls \in CallLists
  BY CallsType DEF Init
<1>2. calls = << >> <=> Len(calls) = 0
  <2>1. CASE calls = << >>
    BY <2>1
  <2>2. CASE Len(calls) = 0
    BY <1>1, <2>2 DEF Index
  <2> QED
    BY <2>1, <2>2
<1>3. start = 1 /\ (1 \in Index <=> calls # << >>)
  BY <1>1, <1>2 DEF Init, Index
<1>4. running = Current
  BY <1>3 DEF Init, Current
<1>5. Current \subseteq Index
  BY <1>1, <1>3, GroupShape DEF Current
<1>6. DOMAIN results = {}
  BY DEF Init
<1>7. TypeOK
  BY <1>1, <1>3, <1>4, <1>5, <1>6 DEF TypeOK, Init
<1>8. DOMAIN results = (1..(start - 1)) \cup (Current \ running)
  BY <1>3, <1>4, <1>6
<1>9. \E ws \in [1..start -> World] : Follows(ws)
  <2> DEFINE ws == [j \in 1..start |-> world]
  <2>1. ws \in [1..start -> World]
    BY DEF Init
  <2>2. ws[1] = initial
    BY <1>3 DEF Init
  <2>3. Sequential(start - 1, ws, results)
    BY <1>3, <2>2 DEF Sequential
  <2>4. start \in Index => running # {}
    BY <1>1, <1>3, <1>4, GroupShape DEF Current
  <2>5. world = ws[start]
    BY <1>3
  <2> HIDE DEF ws
  <2>6. Follows(ws)
    BY <1>4, <2>3, <2>4, <2>5 DEF Follows
  <2> QED
    BY <2>1, <2>6
<1> QED
  BY <1>4, <1>7, <1>8, <1>9 DEF IInv

-----------------------------------------------------------------------------
\* A call of the current group runs.
LEMMA ExecuteInv ==
    ASSUME ReadsOnlyRead, IInv, NEW i \in Index, Execute(i)
    PROVE  IInv'
<1>1. /\ Len(calls) \in Nat /\ calls \in [Index -> Tools] /\ calls \in CallLists
      /\ start \in 1..(Len(calls) + 1) /\ world \in World /\ initial \in World
      /\ running \in SUBSET Index
  BY CallsType DEF IInv, TypeOK
<1>2. i \in running /\ i \in Current /\ start \in Index /\ i \in Group(start) /\ i >= start
  BY <1>1, GroupShape DEF Execute, IInv, Current
<1>3. calls' = calls /\ start' = start /\ initial' = initial /\ running' = running \ {i}
      /\ Index' = Index /\ Current' = Current
  BY DEF Execute, Index, Current, Group, IsReadOnly
<1>4. calls[i] \in Tools /\ world' = Effect[calls[i]][world] /\ world' \in World
      /\ Reply[calls[i]][world] \in Replies
  BY <1>1, ParallelAssumption DEF Execute, ParallelAssumption
<1>5. /\ DOMAIN results' = DOMAIN results \cup {i}
      /\ results'[i] = Reply[calls[i]][world]
      /\ \A j \in DOMAIN results : j # i => results'[j] = results[j]
  BY DEF Execute
<1>6. TypeOK'
  <2>1. DOMAIN results' \subseteq Index'
    BY <1>1, <1>3, <1>5 DEF IInv, TypeOK
  <2>2. \A j \in DOMAIN results' : results'[j] \in Replies
    BY <1>4, <1>5 DEF IInv, TypeOK
  <2> QED
    BY <1>1, <1>3, <1>4, <2>1, <2>2 DEF TypeOK, CallLists
<1>7. running' \subseteq Current'
  BY <1>3 DEF IInv
<1>8. DOMAIN results' = (1..(start' - 1)) \cup (Current' \ running')
  BY <1>2, <1>3, <1>5 DEF IInv
<1>9. PICK ws \in [1..start -> World] : Follows(ws)
  BY DEF IInv
<1>10. world = ws[start]
  BY <1>2, <1>9 DEF Follows
<1>11. Sequential(start - 1, ws, results)'
  <2>1. \A j \in 1..(start - 1) : j \in DOMAIN results /\ j # i
    BY <1>1, <1>2 DEF IInv, Index
  <2>2. \A j \in 1..(start - 1) : results'[j] = results[j]
    BY <1>5, <2>1
  <2>3. Sequential(start - 1, ws, results)
    BY <1>9 DEF Follows
  <2> QED
    BY <1>3, <2>2, <2>3 DEF Sequential
<1>12. \A j \in Current' \ running' : results'[j] = Reply[calls[j]][ws[start]]
  <2> SUFFICES ASSUME NEW j \in Current \ (running \ {i})
               PROVE  results'[j] = Reply[calls[j]][ws[start]]
    BY <1>3
  <2>1. CASE j = i
    BY <1>5, <1>10, <2>1
  <2>2. CASE j # i
    <3>1. j \in DOMAIN results
      BY <2>2 DEF IInv
    <3>2. results[j] = Reply[calls[j]][ws[start]]
      BY <1>9, <2>2 DEF Follows
    <3> QED
      BY <1>5, <2>2, <3>1, <3>2
  <2> QED
    BY <2>1, <2>2
<1>13. world' = IF start \notin Index \/ IsReadOnly(start) \/ running' # {}
                THEN ws[start] ELSE Effect[calls[start]][ws[start]]
  <2>1. CASE IsReadOnly(start)
    <3>1. IsReadOnly(i)
      BY <1>1, <1>2, <2>1, GroupShape
    <3>2. world' = world
      BY <1>1, <1>4, <3>1 DEF ReadsOnlyRead, IsReadOnly
    <3> QED
      BY <1>10, <2>1, <3>2
  <2>2. CASE ~IsReadOnly(start)
    <3>1. Current = {start} /\ i = start
      BY <1>1, <1>2, <2>2, GroupShape DEF Current
    <3>2. running' = {}
      BY <1>3, <3>1 DEF IInv
    <3> QED
      BY <1>2, <1>4, <1>10, <2>2, <3>1, <3>2
  <2> QED
    BY <2>1, <2>2
<1>14. Follows(ws)'
  BY <1>3, <1>11, <1>12, <1>13 DEF Follows, IsReadOnly
<1> QED
  BY <1>3, <1>6, <1>7, <1>8, <1>9, <1>14 DEF IInv

\* The loop goes on to the next group.
LEMMA NextGroupInv ==
    ASSUME ReadsOnlyRead, IInv, NextGroup
    PROVE  IInv'
<1>1. /\ Len(calls) \in Nat /\ calls \in [Index -> Tools] /\ calls \in CallLists
      /\ start \in 1..(Len(calls) + 1) /\ world \in World /\ initial \in World
  BY CallsType DEF IInv, TypeOK
<1>2. PICK next \in start..(Len(calls) + 1) :
        /\ Group(start) = start..(next - 1)
        /\ start' = next
        /\ running' = IF next = Len(calls) + 1 THEN {} ELSE Group(next)
  BY DEF NextGroup
<1>3. start \in Index /\ running = {} /\ calls' = calls /\ world' = world
      /\ results' = results /\ initial' = initial /\ Index' = Index
  BY DEF NextGroup, Index
<1>4. next \in Nat /\ next >= start + 1 /\ start \in Nat /\ start >= 1
  BY <1>1, <1>2, <1>3, GroupShape DEF Index
<1>5. next \in Index <=> next # Len(calls) + 1
  BY <1>1, <1>2, <1>4 DEF Index
<1>6. running' = Current' /\ (next \in Index => next \in running')
  BY <1>1, <1>2, <1>3, <1>5, GroupShape DEF Current, Group, IsReadOnly
<1>7. running' \subseteq Index
  BY <1>1, <1>2, <1>5, GroupShape
<1>8. TypeOK'
  <2>1. start' \in 1..(Len(calls') + 1)
    BY <1>1, <1>2, <1>3
  <2> QED
    BY <1>1, <1>3, <1>7, <2>1 DEF IInv, TypeOK
<1>9. DOMAIN results' = (1..(start' - 1)) \cup (Current' \ running')
  <2>1. DOMAIN results = (1..(start - 1)) \cup (start..(next - 1))
    BY <1>2, <1>3 DEF IInv, Current
  <2> QED
    BY <1>1, <1>2, <1>3, <1>4, <1>6, <2>1
<1>10. PICK ws \in [1..start -> World] : Follows(ws)
  BY DEF IInv
<1>11. ws[start] \in World /\ calls[start] \in Tools
  BY <1>1, <1>3, <1>4, <1>10
<1>12. PICK vs \in [1..next -> World] :
         /\ \A j \in 1..start : vs[j] = ws[j]
         /\ \A j \in (start + 1)..next : vs[j] = world
  <2> DEFINE us == [j \in 1..next |-> IF j <= start THEN ws[j] ELSE world]
  <2>1. us \in [1..next -> World]
    BY <1>1, <1>4, <1>10
  <2>2. /\ \A j \in 1..start : us[j] = ws[j]
        /\ \A j \in (start + 1)..next : us[j] = world
    BY <1>4
  <2> HIDE DEF us
  <2> QED
    BY <2>1, <2>2
<1>13. vs[next] = world
  BY <1>4, <1>12
<1>14. world = IF IsReadOnly(start) THEN ws[start] ELSE Effect[calls[start]][ws[start]]
  BY <1>3, <1>10 DEF Follows
<1>15. ASSUME NEW j \in start..(next - 1)
       PROVE  /\ results[j] = Reply[calls[j]][vs[j]]
              /\ vs[j + 1] = Effect[calls[j]][vs[j]]
  <2>1. j \in Group(start) /\ j \in Nat /\ j >= start /\ j + 1 \in (start + 1)..next
        /\ calls[j] \in Tools
    BY <1>1, <1>2, <1>3, <1>4, <1>15, GroupShape
  <2>2. vs[j + 1] = world /\ vs[start] = ws[start]
    BY <1>4, <1>12, <2>1
  <2>3. results[j] = Reply[calls[j]][ws[start]]
    BY <1>3, <1>10, <2>1 DEF Follows, Current
  <2>4. CASE IsReadOnly(start)
    <3>1. IsReadOnly(j) /\ world = ws[start]
      BY <1>1, <1>3, <1>14, <2>1, <2>4, GroupShape
    <3>2. vs[j] = world
      BY <1>4, <1>12, <2>1, <2>2, <3>1
    <3>3. Effect[calls[j]][world] = world
      BY <1>1, <3>1 DEF ReadsOnlyRead, IsReadOnly
    <3> QED
      BY <2>2, <2>3, <3>1, <3>2, <3>3
  <2>5. CASE ~IsReadOnly(start)
    <3>1. j = start
      BY <1>1, <1>3, <2>1, <2>5, GroupShape
    <3> QED
      BY <1>14, <2>2, <2>3, <2>5, <3>1
  <2> QED
    BY <2>4, <2>5
<1>16. Sequential(next - 1, vs, results)
  <2>1. vs[1] = initial
    BY <1>4, <1>10, <1>12 DEF Follows, Sequential
  <2>2. ASSUME NEW j \in 1..(start - 1)
        PROVE  results[j] = Reply[calls[j]][vs[j]] /\ vs[j + 1] = Effect[calls[j]][vs[j]]
    <3>1. vs[j] = ws[j] /\ vs[j + 1] = ws[j + 1]
      BY <1>4, <1>12
    <3> QED
      BY <1>10, <3>1 DEF Follows, Sequential
  <2>3. \A j \in 1..(next - 1) : j \in 1..(start - 1) \/ j \in start..(next - 1)
    BY <1>4
  <2> QED
    BY <1>15, <2>1, <2>2, <2>3 DEF Sequential
<1>17. Follows(vs)'
  <2>1. Sequential(start - 1, vs, results)'
    BY <1>2, <1>3, <1>16 DEF Sequential
  <2>2. world' = vs[start'] /\ (start' \notin Index' \/ running' # {})
    BY <1>2, <1>3, <1>6, <1>13
  <2> QED
    BY <1>6, <2>1, <2>2 DEF Follows, IsReadOnly
<1>18. \E us \in [1..start' -> World] : Follows(us)'
  BY <1>2, <1>17
<1> QED
  BY <1>6, <1>8, <1>9, <1>18 DEF IInv

LEMMA Inductive == ReadsOnlyRead /\ Spec => []IInv
<1>1. ReadsOnlyRead /\ IInv /\ [Next]_vars => IInv'
  <2> SUFFICES ASSUME ReadsOnlyRead, IInv, [Next]_vars PROVE IInv'
    OBVIOUS
  <2>1. ASSUME NEW i \in Index, Execute(i) PROVE IInv'
    BY <2>1, ExecuteInv
  <2>2. CASE NextGroup
    BY <2>2, NextGroupInv
  <2>3. CASE UNCHANGED vars
    BY <2>3 DEF vars, IInv, TypeOK, Follows, Sequential, Current, Group, Index, IsReadOnly, CallLists
  <2> QED
    BY <2>1, <2>2, <2>3 DEF Next
<1>2. ReadsOnlyRead => []ReadsOnlyRead
  <2>1. ReadsOnlyRead => ReadsOnlyRead'
    BY DEF ReadsOnlyRead
  <2> QED
    BY <2>1, PTL
<1> QED
  BY InitInv, <1>1, <1>2, PTL DEF Spec

-----------------------------------------------------------------------------
\* Executor.Execute, parallel.go:41-64: running the read-only calls with maximum parallelism gives
\* the results and the world of running all calls one after another, for every
\* list of calls and every set of tools whose read-only ones only read.
THEOREM ParallelIsSequential == ReadsOnlyRead /\ Spec => []SameAsSequential
<1>1. IInv => SameAsSequential
  <2> SUFFICES ASSUME IInv, Finished
               PROVE  /\ DOMAIN results = Index
                      /\ \E ws \in [1..(Len(calls) + 1) -> World] :
                           Sequential(Len(calls), ws, results) /\ ws[Len(calls) + 1] = world
    BY DEF SameAsSequential
  <2>1. Len(calls) \in Nat /\ start = Len(calls) + 1 /\ start \notin Index /\ start - 1 = Len(calls)
    BY CallsType DEF IInv, TypeOK, Finished, Index
  <2>2. Current = {}
    BY <2>1 DEF Current
  <2>3. DOMAIN results = Index
    BY <2>1, <2>2 DEF IInv, Index
  <2>4. PICK ws \in [1..start -> World] : Follows(ws)
    BY DEF IInv
  <2>5. Sequential(Len(calls), ws, results) /\ ws[start] = world
    BY <2>1, <2>4 DEF Follows
  <2> QED
    BY <2>1, <2>3, <2>4, <2>5
<1> QED
  BY Inductive, <1>1, PTL

-----------------------------------------------------------------------------
(* The tool loop.                                                           *)

Delta == [iter : Nat, n : Nat]
Messages == {L!Prompt} \cup {L!Assistant(cs) : cs \in Seq(L!Calls)} \cup {L!Result(c) : c \in L!Calls}
IsAssistant(i) == msgs[i].kind = "assistant"

LoopTypes ==
    /\ mode \in {"sync", "stream"}
    /\ pc \in {"request", "backoff", "stream", "tools", "done"}
    /\ iter \in 0..(MaxToolIter - 1) /\ attempt \in 0..MaxRetries
    /\ msgs \in Seq(Messages)
    /\ streamed \in [Indexes -> SUBSET Made] /\ asked \subseteq L!AllAsked
    /\ todo \in Seq(L!Calls) /\ executed \in Seq(L!Calls)
    /\ content \in Seq(Delta) /\ shown \in Seq(Delta)
    /\ canceled \in BOOLEAN
    /\ outcome \in {"none", "ok", "error", "canceled", "exceeded"}
    /\ outcome = "none" <=> pc # "done"

\* Each try of an iteration sends one request.
TriesBefore == iter * (MaxRetries + 1) + attempt
RequestsCounted ==
    /\ requests \in Nat
    /\ requests <= TriesBefore + 1 /\ (pc = "request" => requests <= TriesBefore)
    /\ pc = "backoff" => attempt < MaxRetries

\* The results of a message's calls follow it; those of the response at work
\* follow it as far as its calls have run, and the rest is still to do.
Answered(i) ==
    \A j \in DOMAIN msgs[i].calls :
       i + j \in DOMAIN msgs /\ msgs[i + j] = L!Result(msgs[i].calls[j])
AtWork(i) ==
    \E n \in 0..Len(msgs[i].calls) :
       /\ Len(msgs) = i + n /\ Len(todo) = Len(msgs[i].calls) - n
       /\ \A j \in 1..n : msgs[i + j] = L!Result(msgs[i].calls[j])
       /\ \A j \in 1..Len(todo) : todo[j] = msgs[i].calls[n + j]
InProtocol ==
    /\ pc # "tools" => todo = << >>
    /\ \A i \in DOMAIN msgs : IsAssistant(i) => Answered(i) \/ (pc = "tools" /\ AtWork(i))
Assistants == {i \in DOMAIN msgs : IsAssistant(i)}
Counted ==
    IsFiniteSet(Assistants) /\ Len(msgs) = 1 + Cardinality(Assistants) + Len(executed)

\* What was run or shown is of an earlier iteration, or it is of this one and
\* is not still to come.
RunOnce ==
    /\ L!IsInjective(executed) /\ L!IsInjective(todo)
    /\ \A j \in DOMAIN todo : todo[j].iter = iter
    /\ \A k \in DOMAIN executed :
         \/ executed[k].iter < iter
         \/ /\ executed[k].iter = iter /\ pc \in {"tools", "done"}
            /\ \A j \in DOMAIN todo : todo[j] # executed[k]
ShownOnce ==
    /\ L!IsInjective(shown)
    /\ \A k \in DOMAIN shown :
         \/ shown[k].iter < iter
         \/ /\ shown[k].iter = iter /\ pc \in {"stream", "tools", "done"}
            /\ pc # "done" => shown[k].n >= 1
            /\ pc = "stream" => shown[k].n <= Len(content)

\* Every call that a response which is over waits for is run or to be run by
\* itself, if its calls are numbered as they should; and what is run or to be
\* run is put together from calls of the model's.
Taken(c) ==
    (\E k \in DOMAIN executed : executed[k] = c) \/ (\E j \in DOMAIN todo : todo[j] = c)
Due(a) == a.due /\ L!Numbered(a.iter) => Taken([iter |-> a.iter, index |-> a.call, of |-> {a.call}])
Honest(e) == e.of # {} /\ e.of \subseteq L!AskedIn(e.iter)
AskedAndTaken ==
    /\ \A e \in L!Calls : Taken(e) => Honest(e)
    /\ \A a \in asked :
         /\ a.iter <= iter
         /\ a.iter = iter => pc \in {"stream", "tools", "done"}
         /\ a.iter = iter /\ pc = "stream" => a.call \in streamed[a.index]
         /\ a.iter < iter \/ pc = "tools" \/ outcome \in {"ok", "exceeded"} => Due(a)
    /\ pc = "stream" => \A i \in Indexes : \A c \in streamed[i] : L!Asked(c, i, TRUE) \in asked

LoopInv ==
    /\ LoopTypes /\ RequestsCounted /\ InProtocol /\ Counted /\ RunOnce /\ ShownOnce
    /\ AskedAndTaken

\* The loop's Cardinality is the library's.
LEMMA SameCardinality == \A S : L!Cardinality(S) = Cardinality(S)
BY DEF L!Cardinality, Cardinality

LEMMA LoopConstants ==
    /\ MaxToolIter \in Nat \ {0} /\ MaxRetries \in Nat /\ MaxDeltas \in Nat
    /\ IsFiniteSet(Indexes) /\ Cardinality(Indexes) \in Nat
    /\ Indexes = 0..(Cardinality(Indexes) - 1)
    /\ IsFiniteSet(Made) /\ Cardinality(Made) \in Nat /\ Made = 0..(Cardinality(Made) - 1)
    /\ Made \subseteq Indexes /\ 0 \in Indexes
<1>1. IsFiniteSet(Indexes) /\ IsFiniteSet(Made)
  BY LoopAssumption DEF L!ToolLoopAssumption, L!IsFiniteSet, IsFiniteSet
<1>2. QED
  BY <1>1, FS_CardinalityType, SameCardinality, LoopAssumption DEF L!ToolLoopAssumption

LEMMA CallType ==
    ASSUME LoopInv, NEW i \in Indexes, NEW of \in SUBSET Made PROVE L!Call(i, of) \in L!Calls
BY DEF LoopInv, LoopTypes, L!Call, L!Calls

LEMMA InitLoop == L!Init => LoopInv
<1> SUFFICES ASSUME L!Init PROVE LoopInv
  OBVIOUS
<1> USE LoopConstants DEF L!Init
<1>1. LoopTypes
  <2>1. << >> \in Seq(L!Calls) /\ << >> \in Seq(Delta) /\ <<L!Prompt>> \in Seq(Messages)
    BY DEF Messages
  <2>2. 0 \in 0..(MaxToolIter - 1) /\ 0 \in 0..MaxRetries
    OBVIOUS
  <2>3. QED
    BY <2>1, <2>2 DEF LoopTypes
<1>2. RequestsCounted
  BY DEF RequestsCounted, TriesBefore
<1>3. \A i \in DOMAIN msgs : ~IsAssistant(i)
  BY DEF IsAssistant, L!Prompt
<1>4. InProtocol
  BY <1>3 DEF InProtocol
<1>5. Counted
  <2>1. Assistants = {}
    BY <1>3 DEF Assistants
  <2>2. Len(msgs) = 1 /\ Len(executed) = 0
    OBVIOUS
  <2>3. IsFiniteSet({}) /\ Cardinality({}) = 0
    BY FS_EmptySet
  <2>4. QED
    BY <2>1, <2>2, <2>3 DEF Counted
<1>6. RunOnce /\ ShownOnce
  BY DEF RunOnce, ShownOnce, L!IsInjective
<1>7. AskedAndTaken
  BY DEF AskedAndTaken, Taken
<1>8. QED
  BY <1>1, <1>2, <1>4, <1>5, <1>6, <1>7 DEF LoopInv

\* With nothing left to do every call has its result.
LEMMA NothingLeft ==
    ASSUME LoopInv, todo = << >>, NEW i \in DOMAIN msgs, IsAssistant(i) PROVE Answered(i)
<1>1. CASE Answered(i)
  BY <1>1
<1>2. CASE AtWork(i)
  <2>1. msgs \in Seq(Messages)
    BY DEF LoopInv, LoopTypes
  <2>2. PICK cs \in Seq(L!Calls) : msgs[i] = L!Assistant(cs)
    BY <2>1 DEF Messages, IsAssistant, L!Prompt, L!Result
  <2>3. msgs[i].calls = cs
    BY <2>2 DEF L!Assistant
  <2>4. Len(msgs) = i + Len(cs) /\ \A j \in 1..Len(cs) : msgs[i + j] = L!Result(cs[j])
    BY <1>2, <2>3 DEF AtWork
  <2>5. QED
    BY <2>1, <2>3, <2>4 DEF Answered
<1>3. QED
  BY <1>1, <1>2 DEF LoopInv, InProtocol

-----------------------------------------------------------------------------
(* The steps of the tool loop.                                              *)

\* The conversation and what is to do stay.
Talk == <<msgs, streamed, todo, executed, asked, shown, content, iter, mode>>

LEMMA TalkStays ==
    ASSUME LoopInv, UNCHANGED Talk
    PROVE  /\ \A i : (Answered(i)' <=> Answered(i)) /\ (AtWork(i)' <=> AtWork(i))
           /\ \A i : IsAssistant(i)' <=> IsAssistant(i)
           /\ \A c : Taken(c)' <=> Taken(c)
           /\ \A a : Due(a)' <=> Due(a)
           /\ \A e : Honest(e)' <=> Honest(e)
           /\ Counted'
BY DEF Talk, Answered, AtWork, IsAssistant, Taken, Due, Honest, L!Numbered, L!AskedIn, Counted,
   Assistants, LoopInv

\* The completion ends, in an answer or at the limit only if all is done.
LEMMA EndInv ==
    ASSUME LoopInv, NEW o \in {"ok", "error", "canceled", "exceeded"}, L!End(o), todo = << >>,
           UNCHANGED <<mode, iter, attempt, msgs, streamed, todo, content, executed, canceled>>,
           requests' \in Nat, requests' <= TriesBefore + 1,
           asked' \subseteq L!AllAsked, shown' \in Seq(Delta), ShownOnce', AskedAndTaken'
    PROVE  LoopInv'
<1>1. pc' = "done" /\ outcome' = o
  BY DEF L!End
<1> USE <1>1
<1>2. LoopTypes'
  BY DEF LoopInv, LoopTypes
<1>3. RequestsCounted'
  BY DEF RequestsCounted, TriesBefore
<1>4. InProtocol'
  <2>1. \A i \in DOMAIN msgs : IsAssistant(i) => Answered(i)
    BY NothingLeft
  <2>2. QED
    BY <2>1 DEF InProtocol, IsAssistant, Answered
<1>5. RunOnce'
  BY DEF LoopInv, RunOnce, L!IsInjective
<1>6. Counted'
  BY DEF LoopInv, Counted, Assistants, IsAssistant
<1>7. QED
  BY <1>2, <1>3, <1>4, <1>5, <1>6 DEF LoopInv

LEMMA ReturnInv ==
    ASSUME LoopInv, NEW o \in {"ok", "error", "canceled", "exceeded"}, L!Return(o),
           todo = << >>,
           requests' \in Nat, requests' <= TriesBefore + 1,
           o \in {"ok", "exceeded"} => \A a \in asked : Due(a)
    PROVE  LoopInv'
<1>1. UNCHANGED Talk /\ L!End(o) /\ attempt' = attempt /\ canceled' = canceled
  BY DEF L!Return, Talk
<1>2. pc' = "done" /\ outcome' = o
  BY <1>1 DEF L!End
<1>3. ShownOnce' /\ asked' \subseteq L!AllAsked /\ shown' \in Seq(Delta)
  BY <1>1, <1>2 DEF LoopInv, LoopTypes, ShownOnce, L!IsInjective, Talk
<1>4. AskedAndTaken'
  <2>1. ASSUME NEW a \in asked
        PROVE  /\ a.iter <= iter
               /\ a.iter < iter \/ o \in {"ok", "exceeded"} => Due(a)
    BY DEF LoopInv, AskedAndTaken
  <2>2. QED
    BY <1>1, <1>2, <2>1, TalkStays DEF LoopInv, AskedAndTaken, Talk
<1>5. QED
  BY <1>1, <1>3, <1>4, EndInv DEF Talk

\* A request that is sent is within the tries.
LEMMA OneMoreRequest ==
    ASSUME LoopInv, pc = "request", requests' = requests + 1
    PROVE  requests' \in Nat /\ requests' <= TriesBefore + 1
<1>1. requests \in Nat /\ requests <= TriesBefore
  BY DEF LoopInv, RequestsCounted
<1>2. TriesBefore \in Int
  BY LoopConstants DEF LoopInv, LoopTypes, TriesBefore
<1>3. QED
  BY <1>1, <1>2

\* A request fails, and is tried again or not.
LEMMA RetryableErrorInv == ASSUME LoopInv, L!RetryableError PROVE LoopInv'
<1>1. pc = "request" /\ requests' = requests + 1 /\ todo = << >>
  BY DEF L!RetryableError, LoopInv, InProtocol
<1>2. requests' \in Nat /\ requests' <= TriesBefore + 1
  BY <1>1, OneMoreRequest
<1>3. CASE attempt = MaxRetries
  BY <1>1, <1>2, <1>3, ReturnInv DEF L!RetryableError
<1>4. CASE attempt # MaxRetries
  <2>1. UNCHANGED Talk /\ pc' = "backoff" /\ UNCHANGED <<attempt, canceled, outcome>>
    BY <1>4 DEF L!RetryableError, Talk
  <2> USE <2>1
  <2>2. LoopTypes'
    BY <1>1 DEF LoopInv, LoopTypes, Talk
  <2>3. RequestsCounted'
    BY <1>2, <1>4, LoopConstants DEF LoopInv, LoopTypes, RequestsCounted, TriesBefore, Talk
  <2>4. InProtocol'
    BY <1>1, TalkStays DEF LoopInv, InProtocol, Talk
  <2>5. RunOnce' /\ ShownOnce'
    BY <1>1 DEF LoopInv, RunOnce, ShownOnce, L!IsInjective, Talk
  <2>6. AskedAndTaken'
    BY <1>1, TalkStays DEF LoopInv, AskedAndTaken, Talk
  <2>7. QED
    BY <2>2, <2>3, <2>4, <2>5, <2>6, TalkStays DEF LoopInv
<1>5. QED
  BY <1>3, <1>4

\* A request fails for good.
LEMMA FatalErrorInv == ASSUME LoopInv, L!FatalError PROVE LoopInv'
<1>1. pc = "request" /\ requests' = requests + 1 /\ todo = << >>
  BY DEF L!FatalError, LoopInv, InProtocol
<1>2. QED
  BY <1>1, OneMoreRequest, ReturnInv DEF L!FatalError

LEMMA BackoffInv == ASSUME LoopInv, L!Backoff PROVE LoopInv'
<1>1. pc = "backoff" /\ requests' = requests /\ todo = << >>
  BY DEF L!Backoff, LoopInv, InProtocol
<1>2. requests \in Nat /\ requests <= TriesBefore + 1
  BY <1>1 DEF LoopInv, RequestsCounted
<1>3. CASE canceled /\ L!Return("canceled")
  BY <1>1, <1>2, <1>3, ReturnInv
<1>4. CASE attempt' = attempt + 1 /\ pc' = "request"
  <2>1. UNCHANGED Talk /\ UNCHANGED <<canceled, outcome>>
    BY <1>4 DEF L!Backoff, L!Return, Talk
  <2> USE <2>1, <1>4
  <2>2. LoopTypes'
    BY <1>1, LoopConstants DEF LoopInv, LoopTypes, RequestsCounted, Talk
  <2>3. RequestsCounted'
    <3>1. attempt \in Int /\ iter * (MaxRetries + 1) \in Int
      BY LoopConstants DEF LoopInv, LoopTypes
    <3>2. TriesBefore' = TriesBefore + 1
      BY <3>1 DEF TriesBefore, Talk
    <3>3. TriesBefore \in Int
      BY <3>1 DEF TriesBefore
    <3>4. QED
      BY <1>1, <1>2, <3>2, <3>3 DEF RequestsCounted
  <2>4. InProtocol'
    BY <1>1, TalkStays DEF LoopInv, InProtocol, Talk
  <2>5. RunOnce' /\ ShownOnce'
    BY <1>1 DEF LoopInv, RunOnce, ShownOnce, L!IsInjective, Talk
  <2>6. AskedAndTaken'
    BY <1>1, TalkStays DEF LoopInv, AskedAndTaken, Talk
  <2>7. QED
    BY <2>2, <2>3, <2>4, <2>5, <2>6, TalkStays DEF LoopInv
<1>5. QED
  BY <1>3, <1>4 DEF L!Backoff

LEMMA CancelInv == ASSUME LoopInv, L!Cancel PROVE LoopInv'
<1>1. UNCHANGED Talk /\ UNCHANGED <<pc, attempt, requests, outcome>> /\ canceled' = TRUE
  BY DEF L!Cancel, Talk
<1> USE <1>1
<1>2. LoopTypes' /\ RequestsCounted'
  BY DEF LoopInv, LoopTypes, RequestsCounted, TriesBefore, Talk
<1>3. InProtocol'
  <2>1. ASSUME NEW i \in DOMAIN msgs, IsAssistant(i)
        PROVE  Answered(i)' \/ (pc' = "tools" /\ AtWork(i)')
    <3>1. Answered(i) \/ (pc = "tools" /\ AtWork(i))
      BY <2>1 DEF LoopInv, InProtocol
    <3>2. QED
      BY <3>1, TalkStays
  <2>2. QED
    BY <2>1, TalkStays DEF LoopInv, InProtocol, Talk
<1>4. AskedAndTaken'
  <2>1. \A i, c : L!Asked(c, i, TRUE)' = L!Asked(c, i, TRUE)
    BY DEF L!Asked, Talk
  <2>2. QED
    BY <2>1, TalkStays DEF LoopInv, AskedAndTaken, Talk
<1>5. RunOnce' /\ ShownOnce'
  BY DEF LoopInv, RunOnce, ShownOnce, L!IsInjective, Talk
<1>6. QED
  BY <1>2, <1>3, <1>4, <1>5, TalkStays DEF LoopInv

-----------------------------------------------------------------------------
(* A response arrives.                                                      *)

LEMMA OpenStreamInv == ASSUME LoopInv, L!OpenStream PROVE LoopInv'
<1>1. /\ pc = "request" /\ pc' = "stream" /\ requests' = requests + 1
      /\ streamed' = [i \in Indexes |-> {}] /\ content' = << >>
      /\ UNCHANGED <<mode, iter, attempt, msgs, todo, shown, asked, executed, canceled, outcome>>
      /\ todo = << >>
  BY DEF L!OpenStream, LoopInv, InProtocol
<1> USE <1>1
<1>2. LoopTypes'
  BY DEF LoopInv, LoopTypes
<1>3. RequestsCounted'
  BY OneMoreRequest DEF LoopInv, RequestsCounted, TriesBefore
<1>4. InProtocol'
  BY NothingLeft DEF InProtocol, IsAssistant, Answered
<1>5. Counted'
  BY DEF LoopInv, Counted, Assistants, IsAssistant
<1>6. RunOnce' /\ ShownOnce'
  BY DEF LoopInv, RunOnce, ShownOnce, L!IsInjective
<1>7. AskedAndTaken'
  BY DEF LoopInv, AskedAndTaken, Due, Honest, L!Numbered, L!AskedIn, Taken
<1>8. QED
  BY <1>2, <1>3, <1>4, <1>5, <1>6, <1>7 DEF LoopInv

LEMMA RecvContentInv == ASSUME LoopInv, L!RecvContent PROVE LoopInv'
<1> DEFINE d == [iter |-> iter, n |-> Len(content) + 1]
<1>1. /\ pc = "stream" /\ content' = Append(content, d) /\ shown' = Append(shown, d)
      /\ UNCHANGED <<mode, pc, iter, attempt, requests, msgs, streamed, todo, asked, executed,
                     canceled, outcome>>
      /\ todo = << >>
  BY DEF L!RecvContent, LoopInv, InProtocol
<1>2. iter \in Nat /\ content \in Seq(Delta) /\ shown \in Seq(Delta) /\ d \in Delta
  BY LoopConstants DEF LoopInv, LoopTypes, Delta
<1>3. d.iter = iter /\ d.n = Len(content) + 1
  OBVIOUS
<1> HIDE DEF d
<1>4. /\ content' \in Seq(Delta) /\ Len(content') = Len(content) + 1
      /\ shown' \in Seq(Delta) /\ Len(shown') = Len(shown) + 1 /\ shown'[Len(shown) + 1] = d
      /\ \A k \in 1..Len(shown) : shown'[k] = shown[k]
  BY <1>1, <1>2
<1>5. LoopTypes'
  BY <1>1, <1>4 DEF LoopInv, LoopTypes
<1>6. ShownOnce'
  <2>1. ASSUME NEW k \in DOMAIN shown
        PROVE  \/ shown[k].iter < iter
               \/ shown[k].iter = iter /\ shown[k].n >= 1 /\ shown[k].n <= Len(content)
    BY <1>1 DEF LoopInv, ShownOnce
  <2>2. ASSUME NEW k \in DOMAIN shown PROVE shown[k] \in Delta /\ shown[k] # d
    <3>1. shown[k] \in Delta /\ Len(content) \in Nat
      BY <1>2
    <3>2. CASE shown[k] = d
      BY <1>2, <1>3, <2>1, <3>1, <3>2
    <3>3. QED
      BY <3>1, <3>2
  <2>3. DOMAIN shown = 1..Len(shown) /\ DOMAIN shown' = 1..(Len(shown) + 1) /\ Len(shown) \in Nat
    BY <1>2, <1>4
  <2>4. L!IsInjective(shown')
    <3>1. ASSUME NEW a \in DOMAIN shown', NEW b \in DOMAIN shown', shown'[a] = shown'[b]
          PROVE  a = b
      <4>1. a \in DOMAIN shown \/ a = Len(shown) + 1
        BY <2>3
      <4>2. b \in DOMAIN shown \/ b = Len(shown) + 1
        BY <2>3
      <4>3. CASE a \in DOMAIN shown /\ b \in DOMAIN shown
        BY <1>4, <2>3, <3>1, <4>3 DEF LoopInv, ShownOnce, L!IsInjective
      <4>4. QED
        BY <1>4, <2>2, <2>3, <3>1, <4>1, <4>2, <4>3
    <3>2. QED
      BY <3>1 DEF L!IsInjective
  <2>5. ASSUME NEW k \in DOMAIN shown'
        PROVE  \/ shown'[k].iter < iter
               \/ shown'[k].iter = iter /\ shown'[k].n >= 1 /\ shown'[k].n <= Len(content')
    <3>1. CASE k \in DOMAIN shown
      <4>1. shown'[k] = shown[k] /\ shown[k].n \in Nat
        BY <1>4, <2>2, <2>3, <3>1 DEF Delta
      <4>2. QED
        BY <1>2, <1>4, <2>1, <3>1, <4>1
    <3>2. CASE k = Len(shown) + 1
      BY <1>2, <1>3, <1>4, <3>2
    <3>3. QED
      BY <2>3, <3>1, <3>2
  <2>6. QED
    BY <1>1, <2>4, <2>5 DEF ShownOnce, L!IsInjective
<1>7. RequestsCounted' /\ RunOnce'
  BY <1>1 DEF LoopInv, RequestsCounted, TriesBefore, RunOnce, L!IsInjective
<1>8. InProtocol'
  BY <1>1, NothingLeft DEF InProtocol, IsAssistant, Answered
<1>9. Counted' /\ AskedAndTaken'
  BY <1>1 DEF LoopInv, Counted, Assistants, IsAssistant, AskedAndTaken, Due, Honest,
     L!Numbered, L!AskedIn, Taken, L!Asked
<1>10. QED
  BY <1>5, <1>6, <1>7, <1>8, <1>9 DEF LoopInv

\* What was asked for in another iteration stays.
LEMMA OtherIterations ==
    ASSUME asked \subseteq asked', \A a \in asked' : a \notin asked => a.iter = iter,
           NEW k, k # iter
    PROVE  /\ L!AskedIn(k)' = L!AskedIn(k)
           /\ L!Numbered(k)' <=> L!Numbered(k)
<1>1. {a \in asked' : a.iter = k} = {a \in asked : a.iter = k}
  OBVIOUS
<1>2. L!AskedIn(k)' = L!AskedIn(k)
  BY <1>1, Zenon DEF L!AskedIn
<1>3. (\A a \in asked' : a.iter = k => a.index = a.call) <=> \A a \in asked : a.iter = k => a.index = a.call
  BY <1>1
<1>4. QED
  BY <1>2, <1>3 DEF L!Numbered

\* What runs is put together from calls of its iteration, also when more come.
LEMMA HonestStays == ASSUME asked \subseteq asked', NEW e, Honest(e) PROVE Honest(e)'
<1>1. L!AskedIn(e.iter) \subseteq L!AskedIn(e.iter)'
  BY DEF L!AskedIn
<1>2. QED
  BY <1>1 DEF Honest

LEMMA RecvToolCallInv ==
    ASSUME LoopInv, NEW c \in Made, NEW i \in Indexes, L!RecvToolCall(c, i) PROVE LoopInv'
<1> DEFINE a0 == L!Asked(c, i, TRUE)
<1>1. /\ pc = "stream" /\ streamed' = [streamed EXCEPT ![i] = @ \cup {c}] /\ asked' = asked \cup {a0}
      /\ UNCHANGED <<mode, pc, iter, attempt, requests, msgs, todo, content, shown, executed,
                     canceled, outcome>>
      /\ todo = << >>
  BY DEF L!RecvToolCall, LoopInv, InProtocol
<1>2. a0 \in L!AllAsked /\ a0.iter = iter /\ a0.call = c /\ a0.index = i
  BY DEF L!Asked, L!AllAsked, LoopInv, LoopTypes
<1>3. streamed \in [Indexes -> SUBSET Made] /\ asked \subseteq L!AllAsked /\ iter \in Nat
  BY LoopConstants DEF LoopInv, LoopTypes
<1>4. LoopTypes'
  <2>1. streamed' \in [Indexes -> SUBSET Made] /\ asked' \subseteq L!AllAsked
    BY <1>1, <1>2, <1>3
  <2>2. QED
    BY <1>1, <2>1 DEF LoopInv, LoopTypes
<1>5. AskedAndTaken'
  <2>1. \A e \in L!Calls : Taken(e)' => Honest(e)'
    BY <1>1, HonestStays DEF LoopInv, AskedAndTaken, Taken
  <2>2. ASSUME NEW a \in asked'
        PROVE  /\ a.iter <= iter
               /\ a.iter = iter => a.call \in streamed'[a.index]
               /\ a.iter < iter => Due(a)'
    <3>1. CASE a = a0
      <4>1. a.iter = iter /\ a.call = c /\ a.index = i
        BY <1>2, <3>1
      <4>2. c \in streamed'[i]
        BY <1>1, <1>3
      <4>3. QED
        BY <1>3, <4>1, <4>2
    <3>2. CASE a \in asked
      <4>1. a.iter <= iter /\ (a.iter = iter => a.call \in streamed[a.index]) /\ a.index \in Indexes
            /\ (a.iter < iter => Due(a)) /\ a.iter \in Int
        BY <1>1, <1>3, <3>2 DEF LoopInv, AskedAndTaken, L!AllAsked
      <4>2. ASSUME a.iter < iter PROVE Due(a)'
        <5>1. a.iter # iter
          BY <1>3, <4>1, <4>2
        <5>2. L!Numbered(a.iter)' <=> L!Numbered(a.iter)
          BY <1>1, <1>2, <5>1, OtherIterations
        <5>3. QED
          BY <1>1, <4>1, <4>2, <5>2 DEF Due, Taken
      <4>3. QED
        BY <1>1, <1>3, <4>1, <4>2
    <3>3. QED
      BY <1>1, <3>1, <3>2
  <2>3. ASSUME NEW j \in Indexes, NEW e \in streamed'[j] PROVE L!Asked(e, j, TRUE)' \in asked'
    <3>1. L!Asked(e, j, TRUE)' = L!Asked(e, j, TRUE)
      BY <1>1 DEF L!Asked
    <3>2. e \in streamed[j] \/ (j = i /\ e = c)
      BY <1>1, <1>3, <2>3
    <3>3. QED
      BY <1>1, <3>1, <3>2 DEF LoopInv, AskedAndTaken
  <2>4. outcome' = "none"
    BY <1>1 DEF LoopInv, LoopTypes
  <2>5. QED
    BY <1>1, <2>1, <2>2, <2>3, <2>4 DEF AskedAndTaken
<1>6. RequestsCounted' /\ RunOnce' /\ ShownOnce'
  BY <1>1 DEF LoopInv, RequestsCounted, TriesBefore, RunOnce, ShownOnce, L!IsInjective
<1>7. InProtocol'
  BY <1>1, NothingLeft DEF InProtocol, IsAssistant, Answered
<1>8. Counted'
  BY <1>1 DEF LoopInv, Counted, Assistants, IsAssistant
<1>9. QED
  BY <1>4, <1>5, <1>6, <1>7, <1>8 DEF LoopInv

\* A response with calls, each of them once and by itself if they are numbered.
LEMMA TakeCallsInv ==
    ASSUME LoopInv, pc \in {"request", "stream"}, NEW cs \in Seq(L!Calls), L!TakeCalls(cs),
           UNCHANGED <<mode, iter, attempt, streamed, content, shown, executed, canceled, outcome>>,
           requests' \in Nat, requests' <= TriesBefore + 1,
           L!IsInjective(cs), \A j \in DOMAIN cs : cs[j].iter = iter,
           \A e \in L!Calls : (\E j \in DOMAIN cs : cs[j] = e) => Honest(e)',
           asked \subseteq asked', asked' \subseteq L!AllAsked,
           \A a \in asked' : a \notin asked => a.iter = iter,
           \A a \in asked' : a.iter = iter /\ L!Numbered(iter)' =>
              \E j \in DOMAIN cs : cs[j] = [iter |-> a.iter, index |-> a.call, of |-> {a.call}]
    PROVE  LoopInv'
<1> DEFINE m == L!Assistant(cs)
<1>1. todo = << >> /\ todo' = cs /\ pc' = "tools" /\ msgs' = Append(msgs, m)
  BY DEF LoopInv, InProtocol, L!TakeCalls
<1>2. msgs \in Seq(Messages) /\ m \in Messages /\ m.kind = "assistant" /\ m.calls = cs
  BY DEF LoopInv, LoopTypes, Messages, L!Assistant
<1> HIDE DEF m
<1>3. /\ msgs' \in Seq(Messages) /\ Len(msgs) \in Nat /\ Len(msgs') = Len(msgs) + 1
      /\ DOMAIN msgs = 1..Len(msgs) /\ DOMAIN msgs' = 1..(Len(msgs) + 1)
      /\ msgs'[Len(msgs) + 1] = m /\ \A i \in 1..Len(msgs) : msgs'[i] = msgs[i]
  BY <1>1, <1>2
<1>4. LoopTypes'
  BY <1>1, <1>3 DEF LoopInv, LoopTypes
<1>5. RequestsCounted'
  BY <1>1 DEF RequestsCounted, TriesBefore
<1>6. InProtocol'
  <2>1. ASSUME NEW i \in 1..Len(msgs), IsAssistant(i)' PROVE Answered(i)'
    <3>1. IsAssistant(i) /\ msgs'[i] = msgs[i] /\ i \in DOMAIN msgs
      BY <1>3, <2>1 DEF IsAssistant
    <3>2. Answered(i)
      BY <1>1, <3>1, NothingLeft
    <3>3. QED
      BY <1>3, <3>1, <3>2 DEF Answered
  <2>2. PICK last \in Nat : last = Len(msgs) + 1
    BY <1>3
  <2>3. AtWork(last)'
    <3>1. Len(cs) \in Nat
      OBVIOUS
    <3>2. msgs'[last] = m /\ Len(msgs') = last + 0 /\ Len(todo') = Len(cs) - 0
      BY <1>1, <1>3, <2>2, <3>1
    <3>3. \A j \in 1..Len(todo') : todo'[j] = cs[0 + j]
      BY <1>1, <3>1
    <3>4. QED
      BY <1>2, <3>1, <3>2, <3>3 DEF AtWork
  <2>4. QED
    BY <1>1, <1>3, <2>1, <2>2, <2>3 DEF InProtocol
<1>7. Counted'
  <2>1. Assistants' = Assistants \cup {Len(msgs) + 1} /\ Len(msgs) + 1 \notin Assistants
    BY <1>2, <1>3 DEF Assistants, IsAssistant
  <2>2. IsFiniteSet(Assistants) /\ Len(msgs) = 1 + Cardinality(Assistants) + Len(executed)
    BY DEF LoopInv, Counted
  <2>3. IsFiniteSet(Assistants') /\ Cardinality(Assistants') = Cardinality(Assistants) + 1
    BY <2>1, <2>2, FS_AddElement
  <2>4. Cardinality(Assistants) \in Nat /\ Len(executed) \in Nat
    BY <2>2, FS_CardinalityType DEF LoopInv, LoopTypes
  <2>5. QED
    BY <1>3, <2>2, <2>3, <2>4 DEF Counted
<1>8. RunOnce'
  <2>1. iter \in Nat
    BY LoopConstants DEF LoopInv, LoopTypes
  <2>2. \A k \in DOMAIN executed : executed[k].iter < iter
    BY DEF LoopInv, RunOnce
  <2>3. L!IsInjective(executed) /\ L!IsInjective(cs)
    BY DEF LoopInv, RunOnce
  <2>4. QED
    BY <1>1, <2>2, <2>3 DEF RunOnce, L!IsInjective
<1>9. ShownOnce'
  BY <1>1 DEF LoopInv, ShownOnce, L!IsInjective
<1>10. AskedAndTaken'
  <2>1. ASSUME NEW a \in asked', a.iter # iter
        PROVE  a \in asked /\ a.iter < iter /\ Due(a)'
    <3>1. a \in asked
      BY <2>1
    <3>2. a.iter <= iter /\ a \in L!AllAsked /\ iter \in Int
      BY <3>1, LoopConstants DEF LoopInv, LoopTypes, AskedAndTaken
    <3>3. a.iter < iter
      BY <2>1, <3>2 DEF L!AllAsked
    <3>4. L!Numbered(a.iter)' <=> L!Numbered(a.iter)
      BY <2>1, OtherIterations
    <3>5. Due(a)
      BY <3>1, <3>3 DEF LoopInv, AskedAndTaken
    <3>6. QED
      BY <1>1, <3>1, <3>3, <3>4, <3>5 DEF Due, Taken
  <2>2. ASSUME NEW a \in asked', a.iter = iter PROVE Due(a)'
    BY <1>1, <2>2 DEF Due, Taken
  <2>3. \A a \in asked' : a.iter <= iter'
    <3>1. iter \in Nat /\ \A a \in asked' : a.iter \in Nat
      BY LoopConstants DEF LoopInv, LoopTypes, L!AllAsked
    <3>2. QED
      BY <2>1, <3>1
  <2>4. \A e \in L!Calls : Taken(e)' => Honest(e)'
    BY <1>1, HonestStays DEF LoopInv, AskedAndTaken, Taken
  <2>5. QED
    BY <1>1, <2>1, <2>2, <2>3, <2>4 DEF AskedAndTaken
<1>11. QED
  BY <1>4, <1>5, <1>6, <1>7, <1>8, <1>9, <1>10 DEF LoopInv

\* Between two responses every earlier call is taken.
LEMMA EarlierTaken ==
    ASSUME LoopInv, NEW a \in asked, pc = "request" \/ a.iter # iter
    PROVE  a.iter # iter /\ a.iter < iter /\ Due(a)
<1>1. a.iter \in Nat /\ iter \in Nat
  BY LoopConstants DEF LoopInv, LoopTypes, L!AllAsked
<1>2. a.iter <= iter /\ a.iter # iter
  BY DEF LoopInv, AskedAndTaken
<1>3. a.iter < iter
  BY <1>1, <1>2
<1>4. QED
  BY <1>2, <1>3 DEF LoopInv, AskedAndTaken

LEMMA RespondInv == ASSUME LoopInv, L!Respond PROVE LoopInv'
<1>1. /\ pc = "request" /\ requests' = requests + 1 /\ todo = << >>
      /\ UNCHANGED <<mode, iter, attempt, streamed, content, shown, executed, canceled>>
  BY DEF L!Respond, LoopInv, InProtocol
<1>2. requests' \in Nat /\ requests' <= TriesBefore + 1
  BY <1>1, OneMoreRequest
<1>3. PICK n \in 0..L!Cardinality(Made), f \in BOOLEAN :
         /\ asked' = asked \cup {L!Asked(c, c, f) : c \in 0..(n - 1)}
         /\ IF f /\ n > 0
            THEN L!TakeCalls([j \in 1..n |-> L!Call(j - 1, {j - 1})]) /\ UNCHANGED outcome
            ELSE L!End("ok") /\ UNCHANGED <<msgs, todo>>
  BY DEF L!Respond
<1>4. n \in Nat /\ n <= Cardinality(Made) /\ \A c \in 0..(n - 1) : c \in Made /\ c \in Indexes
  BY SameCardinality, LoopConstants
<1>5. \A c \in 0..(n - 1) :
         /\ L!Asked(c, c, f) \in L!AllAsked /\ L!Asked(c, c, f).iter = iter
         /\ L!Asked(c, c, f).call = c /\ L!Asked(c, c, f).due = f
  BY <1>4 DEF L!Asked, L!AllAsked, LoopInv, LoopTypes
<1>6. /\ asked \subseteq asked' /\ asked' \subseteq L!AllAsked
      /\ \A a \in asked' : a \notin asked => a.iter = iter
  BY <1>3, <1>5 DEF LoopInv, LoopTypes
<1>7. \A a \in asked : a.iter # iter
  BY <1>1, EarlierTaken
<1>8. CASE f /\ n > 0
  <2>1. \A j \in 1..n : j - 1 \in 0..(n - 1) /\ j - 1 \in Indexes /\ {j - 1} \in SUBSET Made
    BY <1>4
  <2>2. \A j \in 1..n : /\ L!Call(j - 1, {j - 1}) \in L!Calls
                        /\ L!Call(j - 1, {j - 1}) = [iter |-> iter, index |-> j - 1, of |-> {j - 1}]
    BY <2>1, CallType DEF L!Call
  <2>3. [j \in 1..n |-> L!Call(j - 1, {j - 1})] \in Seq(L!Calls)
    <3> DEFINE called == [j \in 1..n |-> L!Call(j - 1, {j - 1})]
    <3>1. called \in [1..n -> L!Calls]
      BY <2>2
    <3> HIDE DEF called
    <3>2. called \in Seq(L!Calls)
      BY <1>4, <3>1
    <3>3. QED
      BY <3>2 DEF called
  <2>4. PICK cs \in Seq(L!Calls) : cs = [j \in 1..n |-> L!Call(j - 1, {j - 1})]
    BY <2>3
  <2>5. /\ L!TakeCalls(cs) /\ UNCHANGED outcome /\ DOMAIN cs = 1..n
        /\ \A j \in 1..n : cs[j] = [iter |-> iter, index |-> j - 1, of |-> {j - 1}]
    BY <1>3, <1>8, <2>2, <2>4
  <2>6. L!IsInjective(cs)
    <3>1. ASSUME NEW j \in 1..n, NEW k \in 1..n, cs[j] = cs[k] PROVE j = k
      <4>1. cs[j].index = j - 1 /\ cs[k].index = k - 1
        BY <2>5
      <4>2. QED
        BY <1>4, <3>1, <4>1
    <3>2. QED
      BY <2>5, <3>1 DEF L!IsInjective
  <2>7. ASSUME NEW e \in L!Calls, NEW j \in DOMAIN cs, cs[j] = e PROVE Honest(e)'
    <3>1. PICK a \in asked' : a = L!Asked(j - 1, j - 1, f)
      BY <1>3, <2>1, <2>5
    <3>2. a.iter = iter /\ a.call = j - 1
      BY <1>5, <2>1, <2>5, <3>1
    <3>3. j - 1 \in L!AskedIn(iter)'
      BY <1>1, <3>2 DEF L!AskedIn
    <3>4. e.of = {j - 1} /\ e.iter = iter
      BY <2>5, <2>7
    <3>5. QED
      BY <1>1, <3>3, <3>4 DEF Honest
  <2>8. ASSUME NEW a \in asked', a.iter = iter
        PROVE  \E j \in DOMAIN cs : cs[j] = [iter |-> a.iter, index |-> a.call, of |-> {a.call}]
    <3>1. PICK c \in 0..(n - 1) : a = L!Asked(c, c, f)
      BY <1>3, <1>7, <2>8
    <3>2. a.call = c /\ c + 1 \in 1..n /\ (c + 1) - 1 = c
      BY <1>4, <1>5, <3>1
    <3>3. QED
      BY <2>5, <2>8, <3>2
  <2>9. \A j \in DOMAIN cs : cs[j].iter = iter
    BY <2>5
  <2>10. QED
    BY <1>1, <1>2, <1>6, <2>5, <2>6, <2>7, <2>8, <2>9, TakeCallsInv
<1>9. CASE ~(f /\ n > 0)
  <2>1. L!End("ok") /\ UNCHANGED <<msgs, todo>>
    BY <1>3, <1>9
  <2>2. pc' = "done" /\ outcome' = "ok"
    BY <2>1 DEF L!End
  <2>3. ShownOnce' /\ shown' \in Seq(Delta)
    BY <1>1, <2>2 DEF LoopInv, LoopTypes, ShownOnce, L!IsInjective
  <2>4. AskedAndTaken'
    <3>1. ASSUME NEW a \in asked' PROVE a.iter <= iter /\ Due(a)'
      <4>1. CASE a \in asked
        <5>1. a.iter # iter /\ a.iter < iter /\ Due(a) /\ a.iter <= iter
          BY <1>1, <4>1, EarlierTaken DEF LoopInv, AskedAndTaken
        <5>2. L!Numbered(a.iter)' <=> L!Numbered(a.iter)
          BY <1>6, <5>1, OtherIterations
        <5>3. QED
          BY <1>1, <2>1, <5>1, <5>2 DEF Due, Taken
      <4>2. CASE a \notin asked
        <5>1. PICK c \in 0..(n - 1) : a = L!Asked(c, c, f)
          BY <1>3, <4>2
        <5>2. n > 0
          BY <1>4, <5>1
        <5>3. a.due = FALSE /\ a.iter = iter /\ iter \in Nat
          BY <1>5, <1>9, <5>1, <5>2, LoopConstants DEF LoopInv, LoopTypes
        <5>4. QED
          BY <5>3 DEF Due
      <4>3. QED
        BY <4>1, <4>2
    <3>2. \A e \in L!Calls : Taken(e)' => Honest(e)'
      BY <1>1, <1>6, <2>1, HonestStays DEF LoopInv, AskedAndTaken, Taken
    <3>3. QED
      BY <1>1, <2>1, <2>2, <3>1, <3>2 DEF AskedAndTaken
  <2>5. QED
    BY <1>1, <1>2, <1>6, <2>1, <2>3, <2>4, EndInv
<1>10. QED
  BY <1>8, <1>9

LEMMA RecvErrorInv == ASSUME LoopInv, L!RecvError PROVE LoopInv'
<1>1. pc = "stream" /\ requests' = requests /\ todo = << >>
  BY DEF L!RecvError, LoopInv, InProtocol
<1>2. requests \in Nat /\ requests <= TriesBefore + 1
  BY DEF LoopInv, RequestsCounted
<1>3. QED
  BY <1>1, <1>2, ReturnInv DEF L!RecvError

\* Listed by rising index, every call found is there once.
LEMMA DenseCallsFacts ==
    ASSUME LoopInv, NEW cs \in L!DenseCalls
    PROVE  /\ cs \in Seq(L!Calls) /\ L!IsInjective(cs)
           /\ \A j \in DOMAIN cs : \E i \in L!Found : cs[j] = L!Call(i, streamed[i])
           /\ \A i \in L!Found : \E j \in DOMAIN cs : cs[j] = L!Call(i, streamed[i])
<1> DEFINE n == Cardinality(L!Found)
           found == {L!Call(i, streamed[i]) : i \in L!Found}
<1>1. L!Found \subseteq Indexes /\ IsFiniteSet(L!Found) /\ n \in Nat
  <2>1. L!Found \subseteq Indexes
    BY DEF L!Present, L!Found
  <2>2. QED
    BY <2>1, LoopConstants, FS_Subset, FS_CardinalityType
<1>2. /\ cs \in [1..n -> found]
      /\ \A j, k \in DOMAIN cs : j < k => cs[j].index < cs[k].index
  BY SameCardinality DEF L!DenseCalls
<1>3. found \subseteq L!Calls /\ \A c \in found : c.index \in Int
  <2>1. ASSUME NEW i \in L!Found PROVE L!Call(i, streamed[i]) \in L!Calls /\ i \in Int
    BY <1>1, CallType, LoopConstants DEF LoopInv, LoopTypes
  <2>2. QED
    BY <2>1 DEF L!Call
<1>4. cs \in Seq(L!Calls) /\ DOMAIN cs = 1..n
  BY <1>1, <1>2, <1>3
<1>5. \A j, k \in 1..n : cs[j] = cs[k] => j = k
  <2>1. ASSUME NEW j \in 1..n, NEW k \in 1..n, cs[j] = cs[k], j < k PROVE FALSE
    <3>1. cs[j].index < cs[k].index /\ cs[j].index \in Int
      BY <1>2, <1>3, <1>4, <2>1
    <3>2. QED
      BY <2>1, <3>1
  <2>2. QED
    BY <1>1, <2>1
<1>6. IsFiniteSet(found) /\ Cardinality(found) = n
  <2> DEFINE f == [i \in L!Found |-> L!Call(i, streamed[i])]
  <2>1. f \in Bijection(L!Found, found)
    <3>1. f \in [L!Found -> found]
      OBVIOUS
    <3>2. \A i, j \in L!Found : f[i] = f[j] => i = j
      BY DEF L!Call
    <3>3. \A c \in found : \E i \in L!Found : f[i] = c
      OBVIOUS
    <3> HIDE DEF f
    <3>4. QED
      BY <3>1, <3>2, <3>3 DEF Bijection, Injection, Surjection, IsInjective
  <2>2. QED
    BY <1>1, <2>1, FS_Bijection DEF ExistsBijection
<1>7. cs \in Injection(1..n, found)
  BY <1>2, <1>5 DEF Injection, IsInjective
<1>8. Cardinality(1..n) = n
  BY <1>1, FS_Interval
<1>9. cs \in Surjection(1..n, found)
  BY <1>6, <1>7, <1>8, FS_Injection
<1>10. \A c \in found : \E j \in 1..n : cs[j] = c
  BY <1>9 DEF Surjection
<1>11. QED
  BY <1>2, <1>4, <1>5, <1>10 DEF L!IsInjective

LEMMA EofInv == ASSUME LoopInv, L!Eof PROVE LoopInv'
<1>1. pc = "stream" /\ requests' = requests /\ todo = << >>
  BY DEF L!Eof, LoopInv, InProtocol
<1>2. requests \in Nat /\ requests <= TriesBefore + 1
  BY DEF LoopInv, RequestsCounted
<1>3. /\ streamed \in [Indexes -> SUBSET Made] /\ asked \subseteq L!AllAsked
      /\ \A i \in Indexes : \A c \in streamed[i] :
            L!Asked(c, i, TRUE) \in asked /\ L!Asked(c, i, TRUE).iter = iter
            /\ L!Asked(c, i, TRUE).call = c /\ L!Asked(c, i, TRUE).index = i
      /\ \A a \in asked : a.iter = iter => a.call \in streamed[a.index] /\ a.index \in Indexes
  BY <1>1 DEF LoopInv, LoopTypes, AskedAndTaken, L!Asked, L!AllAsked
<1>4. CASE L!Present = {} /\ L!Return("ok")
  <2>1. ASSUME NEW a \in asked PROVE a.iter # iter
    BY <1>3, <1>4 DEF L!Present
  <2>2. QED
    BY <1>1, <1>2, <1>4, <2>1, EarlierTaken, ReturnInv
<1>5. ASSUME NEW cs \in L!DenseCalls, L!TakeCalls(cs),
             UNCHANGED <<mode, iter, attempt, streamed, content, shown, asked, executed, canceled,
                         outcome>>
      PROVE  LoopInv'
  <2>1. /\ cs \in Seq(L!Calls) /\ L!IsInjective(cs)
        /\ \A j \in DOMAIN cs : \E i \in L!Found : cs[j] = L!Call(i, streamed[i])
        /\ \A i \in L!Found : \E j \in DOMAIN cs : cs[j] = L!Call(i, streamed[i])
    BY DenseCallsFacts
  <2>2. \A k : L!AskedIn(k)' = L!AskedIn(k) /\ (L!Numbered(k)' <=> L!Numbered(k))
    BY <1>5 DEF L!Numbered, L!AskedIn
  <2>3. ASSUME NEW e \in L!Calls, NEW j \in DOMAIN cs, cs[j] = e PROVE e.iter = iter /\ Honest(e)'
    <3>1. PICK i \in L!Found : e = L!Call(i, streamed[i])
      BY <2>1, <2>3
    <3>2. i \in Indexes /\ streamed[i] # {} /\ e.iter = iter /\ e.of = streamed[i]
      BY <3>1 DEF L!Found, L!Present, L!Call
    <3>3. streamed[i] \subseteq L!AskedIn(iter)
      <4>1. ASSUME NEW c \in streamed[i] PROVE c \in L!AskedIn(iter)
        <5>1. i \in Indexes /\ c \in streamed[i]
          BY <3>2, <4>1
        <5>2. PICK a \in asked : a = L!Asked(c, i, TRUE)
          BY <1>1, <5>1 DEF LoopInv, AskedAndTaken
        <5>3. a.iter = iter /\ a.call = c
          BY <5>2 DEF L!Asked
        <5>4. QED
          BY <5>3 DEF L!AskedIn
      <4>2. QED
        BY <4>1
    <3>4. QED
      BY <2>2, <3>2, <3>3 DEF Honest
  <2>4. ASSUME NEW a \in asked, a.iter = iter, L!Numbered(iter)
        PROVE  \E j \in DOMAIN cs : cs[j] = [iter |-> a.iter, index |-> a.call, of |-> {a.call}]
    <3>1. \A b \in asked : b.iter = iter => b.index = b.call
      BY <2>4 DEF L!Numbered
    <3>2. \A i \in Indexes : streamed[i] \subseteq {i}
      BY <1>3, <3>1
    <3>3. L!AskedIn(iter) = L!Present
      <4>1. ASSUME NEW b \in asked, b.iter = iter PROVE b.call \in L!Present
        BY <1>3, <3>1, <4>1 DEF L!Present
      <4>2. ASSUME NEW i \in L!Present PROVE \E b \in asked : b.iter = iter /\ b.call = i
        <5>1. i \in Indexes /\ i \in streamed[i]
          BY <3>2, <4>2 DEF L!Present
        <5>2. QED
          BY <1>3, <5>1
      <4>3. QED
        BY <4>1, <4>2 DEF L!AskedIn
    <3>4. L!Present = 0..(Cardinality(L!Present) - 1)
      BY <2>4, <3>3, SameCardinality DEF L!Numbered
    <3>5. IsFiniteSet(L!Present) /\ Cardinality(L!Present) \in Nat
      <4>1. L!Present \subseteq Indexes
        BY DEF L!Present
      <4>2. QED
        BY <4>1, LoopConstants, FS_Subset, FS_CardinalityType
    <3>6. a.call \in L!Present /\ a.call \in Indexes /\ streamed[a.call] = {a.call}
      BY <1>3, <2>4, <3>1, <3>2 DEF L!Present
    <3>7. a.call \in L!Found
      BY <3>4, <3>5, <3>6, SameCardinality DEF L!Found
    <3>8. L!Call(a.call, streamed[a.call]) = [iter |-> a.iter, index |-> a.call, of |-> {a.call}]
      BY <2>4, <3>6 DEF L!Call
    <3>9. QED
      BY <2>1, <3>7, <3>8
  <2>5. \A j \in DOMAIN cs : cs[j].iter = iter
    BY <2>1, <2>3
  <2>6. QED
    BY <1>1, <1>2, <1>3, <1>5, <2>1, <2>2, <2>3, <2>4, <2>5, TakeCallsInv
<1>6. QED
  BY <1>4, <1>5 DEF L!Eof

-----------------------------------------------------------------------------
(* The tools.                                                               *)

LEMMA RunToolInv == ASSUME LoopInv, L!RunTool PROVE LoopInv'
<1> DEFINE c0 == Head(todo)
           m == L!Result(c0)
<1>1. /\ pc = "tools" /\ todo # << >> /\ todo' = Tail(todo) /\ executed' = Append(executed, c0)
      /\ msgs' = Append(msgs, m)
      /\ UNCHANGED <<mode, pc, iter, attempt, requests, streamed, content, shown, asked, canceled,
                     outcome>>
  BY DEF L!RunTool
<1>2. todo \in Seq(L!Calls) /\ executed \in Seq(L!Calls) /\ msgs \in Seq(Messages)
  BY DEF LoopInv, LoopTypes
<1>3. /\ c0 \in L!Calls /\ c0 = todo[1] /\ Len(todo) \in Nat /\ Len(todo) >= 1
      /\ todo' \in Seq(L!Calls) /\ Len(todo') = Len(todo) - 1
      /\ \A j \in 1..Len(todo') : todo'[j] = todo[j + 1]
  BY <1>1, <1>2
<1>4. m \in Messages /\ m.kind = "tool" /\ m = L!Result(c0)
  BY <1>3 DEF Messages, L!Result
<1> HIDE DEF c0, m
<1>5. /\ executed' \in Seq(L!Calls) /\ Len(executed) \in Nat /\ Len(executed') = Len(executed) + 1
      /\ DOMAIN executed = 1..Len(executed) /\ DOMAIN executed' = 1..(Len(executed) + 1)
      /\ executed'[Len(executed) + 1] = c0
      /\ \A k \in 1..Len(executed) : executed'[k] = executed[k]
  BY <1>1, <1>2, <1>3
<1>6. /\ msgs' \in Seq(Messages) /\ Len(msgs) \in Nat /\ Len(msgs') = Len(msgs) + 1
      /\ DOMAIN msgs = 1..Len(msgs) /\ DOMAIN msgs' = 1..(Len(msgs) + 1)
      /\ msgs'[Len(msgs) + 1] = m /\ \A i \in 1..Len(msgs) : msgs'[i] = msgs[i]
  BY <1>1, <1>2, <1>4
<1>7. LoopTypes' /\ RequestsCounted'
  BY <1>1, <1>3, <1>5, <1>6 DEF LoopInv, LoopTypes, RequestsCounted, TriesBefore
<1>8. InProtocol'
  <2>1. ASSUME NEW i \in 1..Len(msgs), IsAssistant(i)' PROVE Answered(i)' \/ AtWork(i)'
    <3>1. IsAssistant(i) /\ msgs'[i] = msgs[i] /\ i \in DOMAIN msgs
      BY <1>6, <2>1 DEF IsAssistant
    <3>2. CASE Answered(i)
      BY <1>6, <3>1, <3>2 DEF Answered
    <3>3. CASE AtWork(i)
      <4>1. PICK cs \in Seq(L!Calls) : msgs[i] = L!Assistant(cs)
        BY <1>2, <3>1 DEF Messages, IsAssistant, L!Prompt, L!Result
      <4>2. msgs[i].calls = cs /\ Len(cs) \in Nat
        BY <4>1 DEF L!Assistant
      <4>3. PICK n \in 0..Len(cs) :
              /\ Len(msgs) = i + n /\ Len(todo) = Len(cs) - n
              /\ \A j \in 1..n : msgs[i + j] = L!Result(cs[j])
              /\ \A j \in 1..Len(todo) : todo[j] = cs[n + j]
        BY <3>3, <4>2 DEF AtWork
      <4>4. n + 1 \in 0..Len(cs) /\ c0 = cs[n + 1]
        BY <1>3, <4>2, <4>3
      <4>5. Len(msgs') = i + (n + 1) /\ Len(todo') = Len(cs) - (n + 1)
        BY <1>3, <1>6, <4>2, <4>3
      <4>6. \A j \in 1..(n + 1) : msgs'[i + j] = L!Result(cs[j])
        BY <1>4, <1>6, <4>3, <4>4
      <4>7. \A j \in 1..Len(todo') : todo'[j] = cs[(n + 1) + j]
        BY <1>3, <4>2, <4>3
      <4>8. QED
        BY <3>1, <4>2, <4>4, <4>5, <4>6, <4>7 DEF AtWork
    <3>4. QED
      BY <3>1, <3>2, <3>3 DEF LoopInv, InProtocol
  <2>2. PICK last \in Nat : last = Len(msgs) + 1
    BY <1>6
  <2>3. ~IsAssistant(last)'
    BY <1>4, <1>6, <2>2 DEF IsAssistant
  <2>4. QED
    BY <1>1, <1>6, <2>1, <2>2, <2>3 DEF InProtocol
<1>9. Counted'
  <2>1. Assistants' = Assistants
    BY <1>4, <1>6 DEF Assistants, IsAssistant
  <2>2. IsFiniteSet(Assistants) /\ Len(msgs) = 1 + Cardinality(Assistants) + Len(executed)
    BY DEF LoopInv, Counted
  <2>3. Cardinality(Assistants) \in Nat
    BY <2>2, FS_CardinalityType
  <2>4. QED
    BY <1>5, <1>6, <2>1, <2>2, <2>3 DEF Counted
<1>10. RunOnce'
  <2>1. /\ \A j \in 1..Len(todo) : todo[j].iter = iter
        /\ \A a, b \in 1..Len(todo) : todo[a] = todo[b] => a = b
    BY <1>2 DEF LoopInv, RunOnce, L!IsInjective
  <2>2. ASSUME NEW j \in 1..Len(todo') PROVE todo'[j].iter = iter /\ todo'[j] # c0
    <3>1. todo'[j] = todo[j + 1] /\ j + 1 \in 1..Len(todo) /\ 1 \in 1..Len(todo) /\ j + 1 # 1
      BY <1>3
    <3>2. todo[j + 1] # todo[1]
      BY <2>1, <3>1
    <3>3. QED
      BY <1>3, <2>1, <3>1, <3>2
  <2>3. L!IsInjective(todo')
    <3>1. ASSUME NEW a \in 1..Len(todo'), NEW b \in 1..Len(todo'), todo'[a] = todo'[b] PROVE a = b
      <4>1. /\ todo[a + 1] = todo[b + 1] /\ a + 1 \in 1..Len(todo) /\ b + 1 \in 1..Len(todo)
            /\ a \in Int /\ b \in Int
        BY <1>3, <3>1
      <4>2. a + 1 = b + 1
        BY <1>2, <4>1 DEF LoopInv, RunOnce, L!IsInjective
      <4>3. QED
        BY <4>1, <4>2
    <3>2. QED
      BY <1>3, <3>1 DEF L!IsInjective
  <2>4. ASSUME NEW k \in 1..Len(executed) PROVE executed[k] # c0
    <3>1. 1 \in DOMAIN todo /\ c0.iter = iter /\ iter \in Nat
      BY <1>2, <1>3, <2>1 DEF LoopInv, LoopTypes
    <3>2. executed[k].iter < iter \/ \A j \in DOMAIN todo : todo[j] # executed[k]
      BY <1>5 DEF LoopInv, RunOnce
    <3>3. CASE executed[k].iter < iter
      BY <3>1, <3>3
    <3>4. CASE \A j \in DOMAIN todo : todo[j] # executed[k]
      BY <1>3, <3>1, <3>4
    <3>5. QED
      BY <3>2, <3>3, <3>4
  <2>5. L!IsInjective(executed')
    <3>1. ASSUME NEW a \in 1..(Len(executed) + 1), NEW b \in 1..(Len(executed) + 1),
                 executed'[a] = executed'[b]
          PROVE  a = b
      <4>1. a \in 1..Len(executed) \/ a = Len(executed) + 1
        BY <1>5
      <4>2. b \in 1..Len(executed) \/ b = Len(executed) + 1
        BY <1>5
      <4>3. QED
        BY <1>5, <2>4, <3>1, <4>1, <4>2 DEF LoopInv, RunOnce, L!IsInjective
    <3>2. QED
      BY <1>5, <3>1 DEF L!IsInjective
  <2>6. ASSUME NEW k \in 1..(Len(executed) + 1)
        PROVE  \/ executed'[k].iter < iter
               \/ executed'[k].iter = iter /\ \A j \in DOMAIN todo' : todo'[j] # executed'[k]
    <3>1. CASE k = Len(executed) + 1
      BY <1>3, <1>5, <2>1, <2>2, <3>1
    <3>2. CASE k \in 1..Len(executed)
      <4>1. executed[k].iter < iter
            \/ (executed[k].iter = iter /\ \A j \in 1..Len(todo) : todo[j] # executed[k])
        BY <1>2, <1>5, <3>2 DEF LoopInv, RunOnce
      <4>2. \A j \in DOMAIN todo' : j + 1 \in 1..Len(todo) /\ todo'[j] = todo[j + 1]
        BY <1>3
      <4>3. QED
        BY <1>5, <3>2, <4>1, <4>2
    <3>3. QED
      BY <1>5, <3>1, <3>2
  <2>7. QED
    BY <1>1, <1>3, <1>5, <2>2, <2>3, <2>5, <2>6 DEF RunOnce
<1>11. ShownOnce'
  BY <1>1 DEF LoopInv, ShownOnce, L!IsInjective
<1>12. AskedAndTaken'
  <2>1. ASSUME NEW c, Taken(c) PROVE Taken(c)'
    <3>1. CASE \E k \in DOMAIN executed : executed[k] = c
      BY <1>5, <3>1 DEF Taken
    <3>2. ASSUME NEW j \in 1..Len(todo), todo[j] = c PROVE Taken(c)'
      <4>1. CASE j = 1
        BY <1>3, <1>5, <3>2, <4>1 DEF Taken
      <4>2. CASE j # 1
        <5>1. j - 1 \in 1..Len(todo') /\ todo'[j - 1] = todo[j]
          BY <1>3, <4>2
        <5>2. DOMAIN todo' = 1..Len(todo')
          BY <1>3
        <5>3. QED
          BY <3>2, <5>1, <5>2 DEF Taken
      <4>3. QED
        BY <4>1, <4>2
    <3>3. QED
      BY <1>2, <2>1, <3>1, <3>2 DEF Taken
  <2>2. (\A k : L!Numbered(k)' <=> L!Numbered(k)) /\ (\A e : Honest(e)' <=> Honest(e))
    BY <1>1 DEF L!Numbered, Honest, L!AskedIn
  <2>3. ASSUME NEW e, Taken(e)' PROVE Taken(e)
    <3>1. CASE \E k \in DOMAIN executed' : executed'[k] = e
      BY <1>2, <1>3, <1>5, <3>1 DEF Taken
    <3>2. ASSUME NEW j \in DOMAIN todo', todo'[j] = e PROVE Taken(e)
      <4>1. DOMAIN todo = 1..Len(todo) /\ DOMAIN todo' = 1..Len(todo')
        BY <1>2, <1>3
      <4>2. j + 1 \in DOMAIN todo /\ todo'[j] = todo[j + 1]
        BY <1>3, <3>2, <4>1
      <4>3. QED
        BY <3>2, <4>2 DEF Taken
    <3>3. QED
      BY <2>3, <3>1, <3>2 DEF Taken
  <2>4. \A e \in L!Calls : Taken(e)' => Honest(e)'
    BY <2>2, <2>3 DEF LoopInv, AskedAndTaken
  <2>6. \A a \in asked : a.iter <= iter /\ Due(a)'
    BY <1>1, <2>1, <2>2 DEF LoopInv, AskedAndTaken, Due
  <2>7. QED
    BY <1>1, <2>4, <2>6 DEF LoopInv, AskedAndTaken
<1>13. QED
  BY <1>7, <1>8, <1>9, <1>10, <1>11, <1>12 DEF LoopInv

LEMMA NextIterationInv == ASSUME LoopInv, L!NextIteration PROVE LoopInv'
<1>1. pc = "tools" /\ todo = << >> /\ requests' = requests
  BY DEF L!NextIteration
<1>2. requests \in Nat /\ requests <= TriesBefore + 1
  BY DEF LoopInv, RequestsCounted
<1>3. \A a \in asked : a.iter <= iter /\ Due(a)
  BY <1>1 DEF LoopInv, AskedAndTaken
<1>0. iter \in Nat /\ L!Break \in Delta /\ L!Break.iter = iter /\ L!Break.n = 0
  BY LoopConstants DEF LoopInv, LoopTypes, Delta, L!Break
<1>7. /\ shown' \in Seq(Delta) /\ L!IsInjective(shown')
      /\ \A k \in DOMAIN shown' : shown'[k].iter \in Nat /\ shown'[k].iter <= iter
  <2>1. shown \in Seq(Delta) /\ L!IsInjective(shown)
    BY DEF LoopInv, LoopTypes, ShownOnce
  <2>2. ASSUME NEW k \in DOMAIN shown
        PROVE  shown[k] \in Delta /\ shown[k].iter \in Nat /\ shown[k].iter <= iter /\ shown[k] # L!Break
    <3>1. shown[k] \in Delta
      BY <2>1
    <3>2. shown[k].iter < iter \/ (shown[k].iter = iter /\ shown[k].n >= 1)
      BY <1>1 DEF LoopInv, ShownOnce
    <3>3. QED
      BY <1>0, <3>1, <3>2 DEF Delta
  <2>3. CASE shown' = shown
    BY <2>1, <2>2, <2>3
  <2>4. CASE shown' = Append(shown, L!Break)
    <3>1. /\ shown' \in Seq(Delta) /\ DOMAIN shown = 1..Len(shown) /\ Len(shown) \in Nat
          /\ DOMAIN shown' = 1..(Len(shown) + 1) /\ shown'[Len(shown) + 1] = L!Break
          /\ \A k \in 1..Len(shown) : shown'[k] = shown[k]
      BY <1>0, <2>1, <2>4
    <3>2. ASSUME NEW a \in DOMAIN shown', NEW b \in DOMAIN shown', shown'[a] = shown'[b] PROVE a = b
      <4>1. a \in DOMAIN shown \/ a = Len(shown) + 1
        BY <3>1
      <4>2. b \in DOMAIN shown \/ b = Len(shown) + 1
        BY <3>1
      <4>3. CASE a \in DOMAIN shown /\ b \in DOMAIN shown
        BY <2>1, <3>1, <3>2, <4>3 DEF L!IsInjective
      <4>4. QED
        BY <2>2, <3>1, <3>2, <4>1, <4>2, <4>3
    <3>3. ASSUME NEW k \in DOMAIN shown' PROVE shown'[k].iter \in Nat /\ shown'[k].iter <= iter
      <4>1. CASE k \in DOMAIN shown
        BY <2>2, <3>1, <4>1
      <4>2. CASE k = Len(shown) + 1
        BY <1>0, <3>1, <4>2
      <4>3. QED
        BY <3>1, <3>3, <4>1, <4>2
    <3>4. QED
      BY <3>1, <3>2, <3>3 DEF L!IsInjective
  <2>5. QED
    BY <2>3, <2>4 DEF L!NextIteration
<1>4. CASE iter + 1 = MaxToolIter
  <2>1. /\ L!End("exceeded") /\ pc' = "done" /\ outcome' = "exceeded"
        /\ UNCHANGED <<mode, iter, attempt, requests, msgs, streamed, todo, content, asked, executed, canceled>>
    BY <1>4 DEF L!NextIteration, L!End
  <2>2. ShownOnce'
    <3>1. \A k \in DOMAIN shown' : shown'[k].iter < iter \/ shown'[k].iter = iter
      BY <1>0, <1>7
    <3>2. QED
      BY <1>7, <2>1, <3>1 DEF ShownOnce
  <2>3. AskedAndTaken'
    BY <1>1, <1>3, <2>1 DEF LoopInv, AskedAndTaken, Due, Honest, Taken, L!Numbered, L!AskedIn
  <2>4. asked' \subseteq L!AllAsked
    BY <2>1 DEF LoopInv, LoopTypes
  <2>5. QED
    BY <1>1, <1>2, <1>7, <2>1, <2>2, <2>3, <2>4, EndInv
<1>5. CASE iter + 1 # MaxToolIter
  <2>1. /\ iter' = iter + 1 /\ attempt' = 0 /\ pc' = "request"
        /\ UNCHANGED <<mode, msgs, streamed, todo, content, asked, executed, canceled, outcome>>
    BY <1>5 DEF L!NextIteration
  <2>2. iter \in 0..(MaxToolIter - 1) /\ iter + 1 \in 0..(MaxToolIter - 1) /\ attempt \in 0..MaxRetries
    BY <1>5, LoopConstants DEF LoopInv, LoopTypes
  <2>3. LoopTypes'
    BY <1>1, <1>7, <2>1, <2>2, LoopConstants DEF LoopInv, LoopTypes
  <2>4. RequestsCounted'
    <3>1. iter * (MaxRetries + 1) \in Int /\ (iter + 1) * (MaxRetries + 1) = iter * (MaxRetries + 1) + (MaxRetries + 1)
      BY <2>2, LoopConstants
    <3>2. TriesBefore' = (iter + 1) * (MaxRetries + 1) + 0
      BY <2>1 DEF TriesBefore
    <3>3. requests <= iter * (MaxRetries + 1) + attempt + 1
      BY <1>2 DEF TriesBefore
    <3>4. QED
      BY <1>1, <1>2, <2>1, <2>2, <3>1, <3>2, <3>3, LoopConstants DEF RequestsCounted
  <2>5. InProtocol'
    BY <1>1, <2>1, NothingLeft DEF InProtocol, IsAssistant, Answered
  <2>6. Counted'
    BY <2>1 DEF LoopInv, Counted, Assistants, IsAssistant
  <2>7. RunOnce'
    <3>1. ASSUME NEW k \in DOMAIN executed PROVE executed[k].iter \in Nat /\ executed[k].iter <= iter
      <4>1. executed \in Seq(L!Calls)
        BY DEF LoopInv, LoopTypes
      <4>2. executed[k] \in L!Calls
        BY <4>1
      <4>3. executed[k].iter < iter \/ executed[k].iter = iter
        BY DEF LoopInv, RunOnce
      <4>4. QED
        BY <2>2, <4>2, <4>3 DEF L!Calls
    <3>2. \A k \in DOMAIN executed : executed[k].iter < iter + 1
      BY <2>2, <3>1
    <3>3. QED
      BY <1>1, <2>1, <3>2 DEF LoopInv, RunOnce, L!IsInjective
  <2>8. ShownOnce'
    <3>1. \A k \in DOMAIN shown' : shown'[k].iter < iter + 1
      BY <1>0, <1>7
    <3>2. QED
      BY <1>7, <2>1, <3>1 DEF ShownOnce
  <2>9. AskedAndTaken'
    <3>1. \A a \in asked : a.iter \in Nat /\ a.iter <= iter
      BY DEF LoopInv, LoopTypes, AskedAndTaken, L!AllAsked
    <3>2. \A a \in asked : a.iter < iter' /\ a.iter <= iter'
      BY <2>1, <2>2, <3>1
    <3>3. /\ \A a \in asked : Due(a)'
          /\ \A e : (Honest(e)' <=> Honest(e)) /\ (Taken(e)' <=> Taken(e))
      BY <1>3, <2>1 DEF Due, Honest, L!Numbered, L!AskedIn, Taken
    <3>4. QED
      BY <1>1, <2>1, <2>2, <3>1, <3>2, <3>3 DEF LoopInv, AskedAndTaken
  <2>10. QED
    BY <2>3, <2>4, <2>5, <2>6, <2>7, <2>8, <2>9 DEF LoopInv
<1>6. QED
  BY <1>4, <1>5 DEF L!NextIteration

LEMMA LoopInductive == L!Spec => []LoopInv
<1>1. LoopInv /\ [L!Next]_L!vars => LoopInv'
  <2> SUFFICES ASSUME LoopInv, [L!Next]_L!vars PROVE LoopInv'
    OBVIOUS
  <2>1. CASE L!RetryableError
    BY <2>1, RetryableErrorInv
  <2>2. CASE L!FatalError
    BY <2>2, FatalErrorInv
  <2>3. CASE L!Backoff
    BY <2>3, BackoffInv
  <2>4. CASE L!Respond
    BY <2>4, RespondInv
  <2>5. CASE L!OpenStream
    BY <2>5, OpenStreamInv
  <2>6. CASE L!RecvContent
    BY <2>6, RecvContentInv
  <2>7. ASSUME NEW c \in Made, L!RecvUnnumbered(c) \/ \E i \in Indexes : L!RecvToolCall(c, i)
        PROVE  LoopInv'
    BY <2>7, RecvToolCallInv, LoopConstants DEF L!RecvUnnumbered
  <2>8. CASE L!RecvError
    BY <2>8, RecvErrorInv
  <2>9. CASE L!Eof
    BY <2>9, EofInv
  <2>10. CASE L!RunTool
    BY <2>10, RunToolInv
  <2>11. CASE L!NextIteration
    BY <2>11, NextIterationInv
  <2>12. CASE L!Cancel
    BY <2>12, CancelInv
  <2>13. CASE UNCHANGED L!vars
    <3>1. UNCHANGED Talk /\ UNCHANGED <<pc, attempt, requests, canceled, outcome>>
      BY <2>13 DEF L!vars, Talk
    <3> USE <3>1
    <3>2. LoopTypes' /\ RequestsCounted' /\ RunOnce' /\ ShownOnce'
      BY DEF LoopInv, LoopTypes, RequestsCounted, TriesBefore, RunOnce, ShownOnce, L!IsInjective,
         Talk
    <3>3. InProtocol'
      <4>1. \A i \in DOMAIN msgs : IsAssistant(i) =>
               Answered(i)' \/ (pc' = "tools" /\ AtWork(i)')
        BY TalkStays DEF LoopInv, InProtocol
      <4>2. QED
        BY <4>1, TalkStays DEF LoopInv, InProtocol, Talk
    <3>4. AskedAndTaken'
      <4>1. \A i, c : L!Asked(c, i, TRUE)' = L!Asked(c, i, TRUE)
        BY DEF L!Asked, Talk
      <4>2. QED
        BY <4>1, TalkStays DEF LoopInv, AskedAndTaken, Talk
    <3>5. QED
      BY <3>2, <3>3, <3>4, TalkStays DEF LoopInv
  <2>14. QED
    BY <2>1, <2>2, <2>3, <2>4, <2>5, <2>6, <2>7, <2>8, <2>9, <2>10, <2>11, <2>12, <2>13
       DEF L!Next, L!Step
<1>2. QED
  BY InitLoop, <1>1, PTL DEF L!Spec

-----------------------------------------------------------------------------
(* Both, as they are checked together.                                      *)

LEMMA EachOnItsOwn == ToolsSpec => Spec /\ L!Spec
<1>1. ToolsInit => Init /\ L!Init
  BY DEF ToolsInit
<1>2. [ToolsNext]_<<part, vars, lVars>> => [Next]_vars /\ [L!Next]_L!vars
  BY DEF ToolsNext, lVars, L!vars
<1>3. QED
  BY <1>1, <1>2, PTL DEF ToolsSpec, Spec, L!Spec

\* client.go:115-170, :174-332: whenever the conversation is sent, each
\* assistant message with calls is followed by exactly one result for each of
\* them, in order, whatever failed, was retried or cut short before.
THEOREM ConversationInProtocol == ToolsSpec => []ToolProtocol
<1>1. LoopInv => ToolProtocol
  <2> SUFFICES ASSUME LoopInv, pc \in {"request", "backoff"}
               PROVE  /\ \A i \in DOMAIN msgs : IsAssistant(i) => Answered(i)
                      /\ Len(msgs) = 1 + L!Cardinality(Assistants) + Len(executed)
    BY DEF ToolProtocol, L!ToolProtocol, IsAssistant, Answered, Assistants
  <2>1. todo = << >>
    BY DEF LoopInv, InProtocol
  <2>2. QED
    BY <2>1, NothingLeft, SameCardinality DEF LoopInv, Counted
<1>2. QED
  BY <1>1, LoopInductive, EachOnItsOwn, PTL

\* retry.go:19-49, client.go:115-332: no tool runs twice for a call and no delta
\* is shown twice, however often a request is sent again; every call that a
\* response waits for has run by itself before the model is asked again and when
\* the loop ends without an error, if the response numbers its calls from 0 and
\* each fragment bears its call's number; and whatever runs is put together from
\* calls of that response.
THEOREM CallsRunOnce == ToolsSpec => []EachCallOnce
<1>1. LoopInv => EachCallOnce
  <2> SUFFICES ASSUME LoopInv PROVE EachCallOnce
    OBVIOUS
  <2>1. L!NothingTwice
    BY DEF LoopInv, RunOnce, ShownOnce, L!NothingTwice
  <2>2. \A e \in L!Range(executed) : e.of # {} /\ e.of \subseteq L!AskedIn(e.iter)
    <3>1. \A e \in L!Range(executed) : e \in L!Calls /\ Taken(e)
      BY DEF LoopInv, LoopTypes, Taken, L!Range
    <3>2. QED
      BY <3>1 DEF LoopInv, AskedAndTaken, Honest
  <2>3. ASSUME pc = "request" \/ outcome \in {"ok", "exceeded"}, NEW a \in asked,
               a.due, L!Numbered(a.iter)
        PROVE  [iter |-> a.iter, index |-> a.call, of |-> {a.call}] \in L!Range(executed)
    <3>1. Due(a)
      BY <2>3, EarlierTaken DEF LoopInv, AskedAndTaken
    <3>2. todo = << >>
      BY <2>3 DEF LoopInv, LoopTypes, InProtocol
    <3>3. QED
      BY <2>3, <3>1, <3>2 DEF Due, Taken, L!Range
  <2>4. QED
    BY <2>1, <2>2, <2>3 DEF EachCallOnce, L!EveryCallRun
<1>2. QED
  BY <1>1, LoopInductive, EachOnItsOwn, PTL

\* The executor's types do not need tools that only read.
LEMMA ExecutorTypes == Spec => []TypeOK
<1>1. Init => TypeOK
  BY InitInv DEF IInv
<1>2. ASSUME TypeOK, NEW i \in Index, Execute(i) PROVE TypeOK'
  <2>1. calls \in CallLists /\ calls \in [Index -> Tools] /\ i \in Index /\ world \in World
    BY <1>2, CallsType DEF TypeOK
  <2>2. calls[i] \in Tools /\ world' \in World /\ Reply[calls[i]][world] \in Replies
    BY <1>2, <2>1, ParallelAssumption DEF Execute, ParallelAssumption
  <2>3. DOMAIN results' = DOMAIN results \cup {i}
    BY <1>2 DEF Execute
  <2>4. \A j \in DOMAIN results' : results'[j] \in Replies
    BY <1>2, <2>2 DEF Execute, TypeOK
  <2>5. QED
    BY <1>2, <2>1, <2>2, <2>3, <2>4 DEF Execute, TypeOK, CallLists, Index
<1>3. ASSUME TypeOK, NextGroup PROVE TypeOK'
  <2>1. PICK next \in start..(Len(calls) + 1) :
          /\ start' = next
          /\ running' = IF next = Len(calls) + 1 THEN {} ELSE Group(next)
    BY <1>3 DEF NextGroup
  <2>2. UNCHANGED <<calls, world, results, initial>> /\ Index' = Index /\ CallLists' = CallLists
    BY <1>3 DEF NextGroup, Index, CallLists
  <2>3. /\ calls \in CallLists /\ Len(calls) \in Nat /\ start \in 1..(Len(calls) + 1)
        /\ next \in 1..(Len(calls) + 1)
    BY <1>3, <2>1, CallsType DEF TypeOK
  <2>4. next # Len(calls) + 1 => next \in Index
    BY <2>3 DEF Index
  <2>5. running' \subseteq Index
    BY <2>1, <2>3, <2>4, GroupShape
  <2>6. start' \in 1..(Len(calls') + 1)
    BY <2>1, <2>2, <2>3
  <2>7. QED
    BY <1>3, <2>2, <2>5, <2>6 DEF TypeOK
<1>4. TypeOK /\ UNCHANGED vars => TypeOK'
  BY DEF TypeOK, vars, CallLists, Index
<1>5. TypeOK /\ [Next]_vars => TypeOK'
  BY <1>2, <1>3, <1>4 DEF Next
<1>6. QED
  BY <1>1, <1>5, PTL DEF Spec

\* client.go:115, retry.go:19-49: at most MaxRetries + 1 requests are sent for
\* each of at most MaxToolIter iterations, and the state of loop and executor
\* has its types.
THEOREM ToolsTypes == ToolsSpec => []TypesOK
<1>1. LoopInv => L!TypeOK
  <2> SUFFICES ASSUME LoopInv PROVE L!TypeOK
    OBVIOUS
  <2> DEFINE k == MaxRetries + 1
  <2>1. /\ iter \in 0..(MaxToolIter - 1) /\ attempt \in 0..MaxRetries
        /\ requests \in Nat /\ requests <= iter * k + attempt + 1
    BY DEF LoopInv, LoopTypes, RequestsCounted, TriesBefore
  <2>2. k \in Nat /\ attempt + 1 <= k
    BY <2>1, LoopConstants
  <2>3. iter * k \in Nat /\ MaxToolIter * k \in Nat /\ iter * k + k <= MaxToolIter * k
    <3>1. PICK n \in Nat : MaxToolIter = iter + 1 + n
      <4>1. MaxToolIter - iter - 1 \in Nat /\ MaxToolIter = iter + 1 + (MaxToolIter - iter - 1)
        BY <2>1, LoopConstants
      <4>2. QED
        BY <4>1
    <3> HIDE DEF k
    <3>2. iter * k \in Nat /\ n * k \in Nat /\ iter \in Nat
      BY <2>1, <2>2, <3>1, LoopConstants
    <3>3. (iter + 1 + n) * k = iter * k + k + n * k
      BY <2>2, <3>1, <3>2
    <3>4. QED
      BY <2>2, <3>1, <3>2, <3>3
  <2>4. requests <= MaxToolIter * k
    <3> HIDE DEF k
    <3>1. QED
      BY <2>1, <2>2, <2>3, LoopConstants
  <2>5. requests \in 0..(MaxToolIter * (MaxRetries + 1))
    BY <2>1, <2>3, <2>4
  <2>6. \A i \in DOMAIN msgs : msgs[i].kind \in {"prompt", "assistant", "tool"}
    <3>1. ASSUME NEW i \in DOMAIN msgs PROVE msgs[i].kind \in {"prompt", "assistant", "tool"}
      <4>1. msgs[i] \in Messages
        BY DEF LoopInv, LoopTypes
      <4>2. QED
        BY <4>1 DEF Messages, L!Prompt, L!Assistant, L!Result
    <3>2. QED
      BY <3>1
  <2>7. QED
    BY <2>5, <2>6 DEF LoopInv, LoopTypes, L!TypeOK
<1>2. QED
  BY <1>1, LoopInductive, ExecutorTypes, EachOnItsOwn, PTL DEF TypesOK

=============================================================================
