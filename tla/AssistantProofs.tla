--------------------------- MODULE AssistantProofs ---------------------------
(***************************************************************************)
(* Proofs about the assistant that MCAssistant puts together: the persona  *)
(* and the tools of an answer, the MCP server's answers, the decision of   *)
(* the permission rules and what hooks hear, the start and end of the      *)
(* process, agents, skills and plugins, and the knowledge base: its        *)
(* schema, the chunks of a text and their rows, and what a search gives.   *)
(***************************************************************************)
EXTENDS MCAssistant, Integers, Sequences, FiniteSetTheorems, WellFoundedInduction, TLAPS

-----------------------------------------------------------------------------
(* Answering.  Requests that met no change of agent are in flight together   *)
(* only with others that met none, so each of them works with the active     *)
(* agent, and what each writes into the client's list is the same.           *)

Apart(r) == requestAt[r] \in {"agent", "list", "length", "search", "call"} /\ r \notin overlapped

AnswerInv ==
    /\ R!TypeOK
    /\ skillNames = [list |-> skillNames.list, len |-> skillNames.len]
    /\ tools = [r \in Requests |-> tools[r]]
    /\ overlapped \subseteq {r \in Requests : requestAt[r] # "new"}
    /\ R!InFlight \cap overlapped # {} => R!InFlight \subseteq overlapped
    /\ \A r \in Requests : Apart(r) =>
         /\ requestAt[r] # "agent" => persona[r] = agentName
         /\ requestAt[r] \in {"length", "search", "call"} => skillNames.list = agentName
         /\ requestAt[r] \in {"search", "call"} => skillNames.len = R!Cardinality(SkillsOf[agentName])
    /\ R!ToolsFitThePersona

LEMMA AnswerInit == R!Init => AnswerInv
<1> SUFFICES ASSUME R!Init PROVE AnswerInv
  OBVIOUS
<1>1. R!TypeOK
  BY AnsweringAssumption DEF R!Init, R!TypeOK, R!AnsweringAssumption
<1>2. QED
  BY <1>1 DEF R!Init, AnswerInv, Apart, R!ToolsFitThePersona

\* Where another request is in flight that met no change, all of them did not.
LEMMA Together ==
    ASSUME AnswerInv, NEW r \in Requests, Apart(r)
    PROVE  \A q \in R!InFlight : Apart(q)
BY DEF AnswerInv, Apart, R!InFlight

LEMMA ListSize == ASSUME NEW S PROVE R!Cardinality(S) = Cardinality(S) /\ (R!IsFiniteSet(S) <=> IsFiniteSet(S))
BY DEF R!Cardinality, Cardinality, R!IsFiniteSet, IsFiniteSet

\* A whole list is the only part of it that is as long.
LEMMA WholeList ==
    ASSUME NEW a \in Speakers
    PROVE  R!kSubset(R!Cardinality(SkillsOf[a]), SkillsOf[a]) = {SkillsOf[a]}
           /\ ~ R!Cardinality(SkillsOf[a]) > R!Cardinality(SkillsOf[a])
<1> DEFINE S == SkillsOf[a]
<1>1. IsFiniteSet(S)
  BY ListSize, AnsweringAssumption DEF R!AnsweringAssumption
<1> HIDE DEF S
<1>2. \A U \in SUBSET S : Cardinality(U) = Cardinality(S) => U = S
  BY <1>1, FS_Subset
<1>3. R!kSubset(R!Cardinality(S), S) = {U \in SUBSET S : Cardinality(U) = Cardinality(S)}
  BY ListSize DEF R!kSubset
<1>4. R!kSubset(R!Cardinality(S), S) = {S}
  BY <1>2, <1>3
<1>5. Cardinality(S) \in Nat
  BY <1>1, FS_CardinalityType
<1>6. ~ Cardinality(S) > Cardinality(S)
  BY <1>5
<1>7. QED
  BY <1>4, <1>6, ListSize DEF S

LEMMA AnswerStep == ASSUME AnswerInv, [R!Next]_R!vars PROVE AnswerInv'
<1> USE DEF AnswerInv, R!TypeOK
<1>1. ASSUME NEW a \in Speakers, R!SetAgent(a) PROVE AnswerInv'
  <2>1. /\ UNCHANGED <<toolsOn, skillNames, requestAt, persona, tools>>
        /\ agentName' \in Speakers /\ overlapped' = overlapped \cup R!InFlight
    BY <1>1 DEF R!SetAgent
  <2>2. R!InFlight' = R!InFlight /\ R!InFlight \subseteq Requests
    BY <2>1 DEF R!InFlight
  <2>3. \A r \in Requests : ~ Apart(r)'
    BY <2>1 DEF Apart, R!InFlight
  <2>4. R!ToolsFitThePersona'
    BY <2>1 DEF R!ToolsFitThePersona
  <2>5. overlapped' \subseteq {r \in Requests : requestAt'[r] # "new"} /\ R!InFlight' \subseteq overlapped'
    BY <2>1, <2>2 DEF R!InFlight
  <2>6. R!TypeOK'
    BY <2>1
  <2>7. QED
    BY <2>1, <2>3, <2>4, <2>5, <2>6
<1>2. ASSUME NEW r \in Requests, NEW s \in R!Sender, R!Receive(r, s) PROVE AnswerInv'
  <2>1. /\ UNCHANGED <<toolsOn, agentName, skillNames, persona, tools>>
        /\ requestAt[r] = "new"
        /\ requestAt' \in [Requests -> {"new", "agent", "list", "length", "search", "call", "done",
                                       "unauthorized", "bad_request", "not_allowed"}]
        /\ requestAt'[r] \in {"agent", "unauthorized", "bad_request", "not_allowed"}
        /\ \A q \in Requests : q # r => requestAt'[q] = requestAt[q]
        /\ overlapped' = IF R!InFlight \cap overlapped # {} THEN overlapped \cup {r} ELSE overlapped
    BY <1>2 DEF R!Receive, R!Goto, R!Refusal
  <2>2. R!InFlight' \subseteq R!InFlight \cup {r} /\ r \notin R!InFlight
    BY <2>1 DEF R!InFlight
  <2>3. \A q \in Requests : Apart(q)' => Apart(q) \/ requestAt'[q] = "agent"
    BY <2>1 DEF Apart
  <2>4. R!InFlight' \cap overlapped' # {} => R!InFlight' \subseteq overlapped'
    BY <2>1, <2>2 DEF R!InFlight
  <2>5. R!ToolsFitThePersona'
    BY <2>1 DEF R!ToolsFitThePersona
  <2>6. QED
    BY <2>1, <2>3, <2>4, <2>5 DEF Apart
<1>3. ASSUME NEW r \in Requests, R!GetAgent(r) \/ R!SetSkillNames(r) \/ R!BuildSystemPrompt(r) \/ R!Complete(r)
      PROVE  AnswerInv'
  <2>1. /\ UNCHANGED <<toolsOn, agentName, overlapped>>
        /\ \A q \in Requests : q # r => /\ requestAt'[q] = requestAt[q] /\ persona'[q] = persona[q]
                                        /\ tools'[q] = tools[q]
        /\ persona' \in [Requests -> Speakers]
        /\ skillNames' = [list |-> skillNames'.list, len |-> skillNames'.len] /\ skillNames'.list \in Speakers
        /\ tools' = [q \in Requests |-> tools'[q]]
    BY <1>3 DEF R!GetAgent, R!SetSkillNames, R!BuildSystemPrompt, R!Complete, R!Goto
  <2>2. /\ requestAt[r] \in {"agent", "list", "length", "search", "call"}
        /\ requestAt' \in [Requests -> {"new", "agent", "list", "length", "search", "call", "done",
                                       "unauthorized", "bad_request", "not_allowed"}]
        /\ requestAt'[r] \in {"list", "length", "search", "call", "done"}
    BY <1>3 DEF R!GetAgent, R!SetSkillNames, R!BuildSystemPrompt, R!Complete, R!Goto
  <2>3. R!InFlight' \subseteq R!InFlight
    BY <2>1, <2>2 DEF R!InFlight
  <2>4. \A q \in Requests : Apart(q)' => Apart(q) /\ Apart(r)
    BY <2>1, <2>2, Together DEF Apart, R!InFlight
  <2>5. ASSUME NEW q \in Requests, Apart(q)'
        PROVE  /\ requestAt'[q] # "agent" => persona'[q] = agentName
               /\ requestAt'[q] \in {"length", "search", "call"} => skillNames'.list = agentName
               /\ requestAt'[q] \in {"search", "call"} => skillNames'.len = R!Cardinality(SkillsOf[agentName])
    <3>1. Apart(q) /\ Apart(r)
      BY <2>4, <2>5
    <3>2. CASE R!GetAgent(r)
      BY <2>1, <2>2, <3>1, <3>2 DEF R!GetAgent, R!Goto
    <3>3. CASE R!SetSkillNames(r)
      <4>1. persona' = persona /\ persona[r] = agentName
        BY <2>2, <3>1, <3>3 DEF R!SetSkillNames
      <4>2. CASE requestAt[r] = "list"
        <5>1. requestAt'[r] = "length" /\ skillNames'.list = agentName /\ skillNames'.len = skillNames.len
          BY <3>3, <4>1, <4>2 DEF R!SetSkillNames, R!Goto
        <5>2. QED
          BY <2>1, <3>1, <4>1, <5>1
      <4>3. CASE requestAt[r] = "length"
        <5>1. /\ skillNames'.list = skillNames.list
              /\ skillNames'.len = R!Cardinality(SkillsOf[agentName])
          BY <3>3, <4>1, <4>3 DEF R!SetSkillNames, R!Goto
        <5>2. skillNames.list = agentName
          BY <3>1, <4>3
        <5>3. QED
          BY <2>1, <3>1, <4>1, <5>1, <5>2
      <4>4. QED
        BY <3>3, <4>2, <4>3 DEF R!SetSkillNames
    <3>4. CASE R!BuildSystemPrompt(r) \/ R!Complete(r)
      BY <2>1, <2>2, <3>1, <3>4 DEF R!BuildSystemPrompt, R!Complete, R!Goto
    <3>5. QED
      BY <1>3, <3>2, <3>3, <3>4
  <2>6. ASSUME NEW q \in Requests, requestAt'[q] = "done", q \notin overlapped
        PROVE  tools'[q] = IF toolsOn THEN R!ToolDefinitions(SkillsOf[persona'[q]]) ELSE {}
    <3>1. CASE q # r
      BY <2>1, <2>6, <3>1 DEF R!ToolsFitThePersona
    <3>2. CASE q = r
      <4>1. R!Complete(r)
        BY <1>3, <2>6, <3>2 DEF R!GetAgent, R!SetSkillNames, R!BuildSystemPrompt, R!Goto
      <4>2. requestAt[r] = "call" /\ Apart(r) /\ persona' = persona
        BY <2>6, <3>2, <4>1 DEF R!Complete, Apart
      <4>3. /\ agentName \in Speakers /\ persona[r] = agentName /\ skillNames.list = agentName
            /\ skillNames.len = R!Cardinality(SkillsOf[agentName])
        BY <4>2
      <4>4. R!Offered = {IF toolsOn THEN R!ToolDefinitions(SkillsOf[agentName]) ELSE {}}
        BY <4>3, WholeList DEF R!Offered
      <4>5. PICK names \in R!Offered : tools' = [tools EXCEPT ![r] = names]
        BY <4>1 DEF R!Complete
      <4>6. tools'[r] = names
        BY <4>5
      <4>7. QED
        BY <3>2, <4>2, <4>3, <4>4, <4>5, <4>6
    <3>3. QED
      BY <3>1, <3>2
  <2>7. \A q \in Requests : requestAt'[q] # "done" => tools'[q] = {}
    <3>1. requestAt'[r] # "done" => tools' = tools
      BY <1>3 DEF R!GetAgent, R!SetSkillNames, R!BuildSystemPrompt, R!Complete, R!Goto
    <3>2. QED
      BY <2>1, <2>2, <3>1
  <2>8. R!InFlight' \cap overlapped' # {} => R!InFlight' \subseteq overlapped'
    BY <2>1, <2>3
  <2>9. QED
    BY <2>1, <2>2, <2>5, <2>6, <2>7, <2>8 DEF R!ToolsFitThePersona
<1>4. CASE UNCHANGED R!vars
  BY <1>4 DEF R!vars, Apart, R!InFlight, R!ToolsFitThePersona
<1>5. QED
  BY <1>1, <1>2, <1>3, <1>4 DEF R!Next

LEMMA AnswersFitting == R!Spec => []R!TypeOK /\ []R!ToolsFitThePersona
<1>1. AnswerInv => R!TypeOK /\ R!ToolsFitThePersona
  BY DEF AnswerInv
<1>2. QED
  BY <1>1, AnswerInit, AnswerStep, PTL DEF R!Spec

-----------------------------------------------------------------------------
(* The MCP server.  The n-th answer is given to the n-th request among the   *)
(* lines read; only the last line may lack its end, and then it is the last. *)

Lines == 1..Len(input)
LinesRead == {n \in 1..read : M!Asked(n)}
Whats == {"hello", "tools", "invalid_params", "result", "marked", "unknown_method"}
Answers == [id : 0..MaxLines, what : Whats]

InTurns(of) ==
    /\ of \in [1..Len(output) -> LinesRead]
    /\ \A i, j \in 1..Len(output) : i < j => of[i] < of[j]
    /\ \A n \in LinesRead : n \in lost \/ \E i \in 1..Len(output) : of[i] = n
    /\ \A i \in 1..Len(output) : output[i].id = input[of[i]].req.id

ServerInv ==
    /\ M!TypeOK
    /\ output \in Seq(Answers)
    /\ \A n \in Lines : ~ input[n].whole => n = Len(input) /\ ~ writing
    /\ \E of : InTurns(of)
    /\ ~ serving /\ ~ broken => \A n \in Lines : input[n].whole => n <= read

LEMMA LineFacts ==
    ASSUME NEW l \in M!Line
    PROVE  l.whole \in BOOLEAN /\ l.json \in BOOLEAN /\ (l.json => l.req \in M!Request)
BY DEF M!Line

\* The state the server works on.
LEMMA ServerFacts ==
    ASSUME ServerInv
    PROVE  /\ input \in Seq(M!Line) /\ Len(input) \in Nat /\ read \in Nat /\ read <= Len(input)
           /\ output \in Seq(Answers) /\ Len(output) \in Nat
           /\ Lines = DOMAIN input /\ \A n \in Lines : n \in Nat /\ input[n] \in M!Line
           /\ M!Line' = M!Line /\ Answers' = Answers
<1>1. M!Line' = M!Line /\ Answers' = Answers
  BY DEF M!Line, M!Request, M!Methods, Answers, Whats
<1>2. input \in Seq(M!Line) /\ read \in 0..Len(input) /\ output \in Seq(Answers)
  BY DEF ServerInv, M!TypeOK
<1>3. QED
  BY <1>1, <1>2 DEF Lines

LEMMA ServerInit == M!Init => ServerInv
<1> SUFFICES ASSUME M!Init PROVE ServerInv
  OBVIOUS
<1>1. /\ input = << >> /\ read = 0 /\ output = << >> /\ writing = TRUE /\ serving = TRUE
        /\ lost = {} /\ broken = FALSE
  BY DEF M!Init
<1>2. M!TypeOK
  <2>1. << >> \in Seq(M!Line) /\ Len(input) = 0 /\ 0 \in 0..0 /\ lost \subseteq 1..read
    BY <1>1
  <2>2. input \in Seq(M!Line) /\ read \in 0..Len(input)
    BY <1>1, <2>1
  <2>3. QED
    BY <1>1, <2>1, <2>2 DEF M!TypeOK
<1>3. InTurns([i \in 1..0 |-> 0])
  BY <1>1 DEF InTurns, LinesRead
<1>4. output \in Seq(Answers) /\ Lines = {} /\ serving
  BY <1>1 DEF Lines
<1>5. QED
  BY <1>2, <1>3, <1>4 DEF ServerInv

LEMMA WriteLine == ASSUME ServerInv, NEW l \in M!Line, M!Write(l) PROVE ServerInv'
<1>1. /\ writing /\ serving /\ input' = Append(input, l) /\ writing' = l.whole /\ l.whole \in BOOLEAN
      /\ UNCHANGED <<read, output, serving, lost, broken>>
  BY LineFacts DEF M!Write
<1>2. /\ input' \in Seq(M!Line) /\ Len(input') = Len(input) + 1
      /\ \A n \in Lines : input'[n] = input[n]
      /\ input'[Len(input) + 1] = l
  BY <1>1, ServerFacts
<1>3. Lines = 1..Len(input) /\ Lines' = 1..(Len(input) + 1)
  BY <1>2 DEF Lines
<1>4. serving'
  BY <1>1
<1>5. M!TypeOK' /\ output' \in Seq(Answers')
  <2>1. serving' \in BOOLEAN /\ read' \in 0..Len(input')
    BY <1>1, <1>2, ServerFacts DEF ServerInv, M!TypeOK
  <2>2. lost' \subseteq 1..read' /\ broken' \in BOOLEAN
    BY <1>1 DEF ServerInv, M!TypeOK
  <2>3. QED
    BY <1>1, <1>2, <2>1, <2>2, ServerFacts DEF M!TypeOK
<1>6. \A n \in Lines' : ~ input'[n].whole => n = Len(input') /\ ~ writing'
  <2>1. \A n \in Lines : input[n].whole
    BY <1>1 DEF ServerInv
  <2>2. QED
    BY <1>1, <1>2, <1>3, <2>1, ServerFacts
<1>7. PICK of : InTurns(of)
  BY DEF ServerInv
<1>8. InTurns(of)'
  <2>1. LinesRead \subseteq Lines
    BY ServerFacts DEF LinesRead, Lines
  <2>2. \A n \in 1..read : M!Asked(n)' <=> M!Asked(n)
    BY <1>2, <1>3, ServerFacts DEF M!Asked
  <2>3. LinesRead' = LinesRead
    BY <1>1, <2>2 DEF LinesRead
  <2>4. \A i \in 1..Len(output) : of[i] \in Lines
    BY <1>7, <2>1 DEF InTurns
  <2>5. QED
    BY <1>1, <1>2, <1>7, <2>3, <2>4 DEF InTurns
<1>9. QED
  BY <1>4, <1>5, <1>6, <1>8 DEF ServerInv

\* What one request is answered: nothing to the one notification that is known,
\* one answer with its number to everything else.
LEMMA OneAnswer ==
    ASSUME NEW req \in M!Request, NEW a \in M!handleRequest(req)
    PROVE  IF req.method = "notifications/initialized" THEN a = << >>
           ELSE \E w \in Whats : a = <<[id |-> req.id, what |-> w]>>
BY DEF M!handleRequest, M!callTool, M!listTools, M!Answer, Whats

LEMMA Unread ==
    ASSUME ServerInv, ~ input[read + 1].whole, read + 1 \in Lines,
           serving' = FALSE, UNCHANGED <<input, writing, read, output, lost, broken>>
    PROVE  ServerInv'
<1>1. read + 1 = Len(input) /\ ~ writing
  BY DEF ServerInv
<1>2. \A k \in Lines : input[k].whole => k <= read
  <2>1. SUFFICES ASSUME NEW k \in Lines, input[k].whole PROVE k <= read
    OBVIOUS
  <2>2. k # read + 1 /\ k \in Nat /\ k <= Len(input)
    BY <2>1, ServerFacts DEF Lines
  <2>3. QED
    BY <1>1, <2>2, ServerFacts
<1>3. PICK of : InTurns(of)
  BY DEF ServerInv
<1>4. InTurns(of)'
  BY <1>3 DEF InTurns, LinesRead, M!Asked
<1>5. M!TypeOK' /\ Lines' = Lines
  BY ServerFacts DEF ServerInv, M!TypeOK, Lines
<1>6. QED
  BY <1>1, <1>2, <1>4, <1>5, ServerFacts DEF ServerInv

LEMMA ServeLine == ASSUME ServerInv, M!Serve PROVE ServerInv'
<1> DEFINE n == read + 1
           l == input[n]
           m == Len(output)
<1>1. /\ serving /\ n \in Lines /\ n \in Nat /\ l \in M!Line
      /\ UNCHANGED <<input, writing, broken>> /\ 1..n = (1..read) \cup {n}
  BY ServerFacts DEF M!Serve, Lines
<1>2. CASE ~ l.whole
  BY <1>1, <1>2, Unread DEF M!Serve
<1>3. CASE l.whole
  <2> DEFINE Told == lost' = lost /\ (IF ~ l.json THEN UNCHANGED output
                                     ELSE \E a \in M!handleRequest(l.req) : output' = output \o a)
  <2>1. /\ read' = n /\ serving' = serving
        /\ (lost' = lost \cup {n} /\ output' = output) \/ Told
    BY <1>3 DEF M!Serve
  <2>2. PICK of : InTurns(of)
    BY DEF ServerInv
  <2> HIDE DEF n, l, m
  <2>3. LinesRead' = IF M!Asked(n) THEN LinesRead \cup {n} ELSE LinesRead
    <3>1. \A k : M!Asked(k)' <=> M!Asked(k)
      BY <1>1 DEF M!Asked
    <3>2. QED
      BY <1>1, <2>1, <3>1 DEF LinesRead
  <2>4. \A k \in LinesRead : k \in Nat /\ k < n
    BY ServerFacts DEF LinesRead, n
  <2>5. M!TypeOK' /\ Lines' = Lines
    <3>1. lost' \subseteq 1..n
      BY <1>1, <2>1 DEF ServerInv, M!TypeOK
    <3>2. QED
      BY <1>1, <2>1, <3>1, ServerFacts DEF ServerInv, M!TypeOK, Lines
  <2>6. M!Asked(n) <=> l.json /\ l.req.method # "notifications/initialized"
    BY DEF M!Asked, l
  <2>7. ASSUME output' \in Seq(Answers), \E f : InTurns(f)' PROVE ServerInv'
    BY <1>1, <2>1, <2>5, <2>7, ServerFacts DEF ServerInv
  <2>8. CASE lost' = lost \cup {n} /\ output' = output
    <3>1. InTurns(of)'
      BY <1>1, <2>2, <2>3, <2>8 DEF InTurns
    <3>2. QED
      BY <2>7, <2>8, <3>1, ServerFacts
  <2>9. CASE Told /\ ~ M!Asked(n)
    <3>1. output' = output
      <4>1. CASE l.json
        <5>1. l.req \in M!Request /\ l.req.method = "notifications/initialized"
          BY <1>1, <2>6, <2>9, <4>1, LineFacts
        <5>2. PICK a \in M!handleRequest(l.req) : output' = output \o a
          BY <2>9, <4>1
        <5>3. a = << >>
          BY <5>1, <5>2, OneAnswer
        <5>4. QED
          BY <5>2, <5>3, ServerFacts
      <4>2. QED
        BY <2>9, <4>1
    <3>2. InTurns(of)'
      BY <1>1, <2>2, <2>3, <2>9, <3>1 DEF InTurns
    <3>3. QED
      BY <2>7, <3>1, <3>2, ServerFacts
  <2>10. CASE Told /\ M!Asked(n)
    <3>1. l.json /\ l.req \in M!Request /\ l.req.method # "notifications/initialized"
      BY <1>1, <2>6, <2>10, LineFacts
    <3>2. PICK a \in M!handleRequest(l.req) : output' = output \o a
      BY <2>10, <3>1
    <3>3. PICK w \in Whats : a = <<[id |-> l.req.id, what |-> w]>>
      BY <3>1, <3>2, OneAnswer
    <3> DEFINE given == [id |-> l.req.id, what |-> w]
    <3>4. given \in Answers /\ given.id = l.req.id
      BY <3>1 DEF M!Request, Answers
    <3> HIDE DEF given
    <3>5. a = <<given>>
      BY <3>3 DEF given
    <3>6. /\ output' \in Seq(Answers) /\ Len(output') = m + 1 /\ output'[m + 1] = given /\ m \in Nat
          /\ \A i \in 1..m : output'[i] = output[i]
      BY <3>2, <3>4, <3>5, ServerFacts DEF m
    <3> DEFINE next == [i \in 1..(m + 1) |-> IF i = m + 1 THEN n ELSE of[i]]
    <3>7. /\ next[m + 1] = n /\ \A i \in 1..m : next[i] = of[i]
          /\ 1..(m + 1) = (1..m) \cup {m + 1}
      BY <3>6
    <3>8. \A i \in 1..m : of[i] \in LinesRead /\ of[i] \in Nat /\ of[i] < n
      BY <2>2, <2>4 DEF InTurns, m
    <3>9. next \in [1..(m + 1) -> LinesRead']
      BY <2>3, <2>10, <3>7, <3>8
    <3> HIDE DEF next
    <3>10. \A i, j \in 1..(m + 1) : i < j => next[i] < next[j]
      <4>1. SUFFICES ASSUME NEW i \in 1..(m + 1), NEW j \in 1..(m + 1), i < j PROVE next[i] < next[j]
        OBVIOUS
      <4>2. i \in 1..m
        BY <3>6, <4>1
      <4>3. CASE j = m + 1
        BY <3>7, <3>8, <4>2, <4>3
      <4>4. CASE j \in 1..m
        BY <2>2, <3>7, <4>1, <4>2, <4>4 DEF InTurns, m
      <4>5. QED
        BY <3>7, <4>3, <4>4
    <3>11. \A k \in LinesRead' : k \in lost' \/ \E i \in 1..(m + 1) : next[i] = k
      <4>1. SUFFICES ASSUME NEW k \in LinesRead' PROVE k \in lost' \/ \E i \in 1..(m + 1) : next[i] = k
        OBVIOUS
      <4>2. CASE k = n
        BY <3>7, <4>2
      <4>3. CASE k \in LinesRead
        BY <2>2, <2>10, <3>7, <4>3 DEF InTurns, m
      <4>4. QED
        BY <2>3, <2>10, <4>2, <4>3
    <3>12. \A i \in 1..(m + 1) : output'[i].id = input[next[i]].req.id
      <4>1. output'[m + 1].id = input[next[m + 1]].req.id
        BY <3>4, <3>6, <3>7 DEF l
      <4>2. \A i \in 1..m : output'[i].id = input[next[i]].req.id
        BY <2>2, <3>6, <3>7 DEF InTurns, m
      <4>3. QED
        BY <3>7, <4>1, <4>2
    <3>13. PICK f : f = next
      OBVIOUS
    <3>14. InTurns(f)'
      BY <1>1, <3>6, <3>9, <3>10, <3>11, <3>12, <3>13 DEF InTurns
    <3>15. QED
      BY <2>7, <3>6, <3>14
  <2>11. QED
    BY <2>1, <2>8, <2>9, <2>10
<1>4. QED
  BY <1>2, <1>3

LEMMA ServerStep == ASSUME ServerInv, [M!Next]_M!vars PROVE ServerInv'
<1>1. ASSUME NEW l \in M!Line, M!Write(l) PROVE ServerInv'
  BY <1>1, WriteLine
<1>2. CASE M!Serve
  BY <1>2, ServeLine
<1>3. ASSUME input' = input, read' = read, output' = output,
             writing' = writing \/ writing' = FALSE, serving' \in BOOLEAN, broken' \in BOOLEAN,
             lost' = lost, broken => broken', serving' = serving \/ broken' \/ read = Len(input)
      PROVE  ServerInv'
  <2>1. PICK of : InTurns(of)
    BY DEF ServerInv
  <2>2. InTurns(of)'
    BY <1>3, <2>1 DEF InTurns, LinesRead, M!Asked
  <2>3. M!TypeOK' /\ Lines' = Lines
    BY <1>3, ServerFacts DEF ServerInv, M!TypeOK, Lines
  <2>4. \A n \in Lines : n <= Len(input)
    BY ServerFacts DEF Lines
  <2>5. QED
    BY <1>3, <2>2, <2>3, <2>4, ServerFacts DEF ServerInv
<1>4. CASE M!Close \/ M!EndOfInput \/ M!ReadError \/ UNCHANGED M!vars
  <2>1. serving \in BOOLEAN /\ broken \in BOOLEAN
    BY DEF ServerInv, M!TypeOK
  <2>2. QED
    BY <1>3, <1>4, <2>1 DEF M!Close, M!EndOfInput, M!ReadError, M!vars
<1>5. QED
  BY <1>1, <1>2, <1>4 DEF M!Next

LEMMA ServerAnswers == M!Spec => []M!TypeOK /\ []M!AnswersInOrder
<1>1. ServerInv => M!TypeOK
  BY DEF ServerInv
<1>2. ASSUME ServerInv PROVE M!AnswersInOrder
  <2>1. DOMAIN output = 1..Len(output) /\ DOMAIN input = Lines
    BY <1>2, ServerFacts
  <2>2. PICK of : InTurns(of)
    BY <1>2 DEF ServerInv
  <2>3. \A n \in 1..read : M!Asked(n) => n \in LinesRead
    BY DEF LinesRead
  <2>4. ~ serving /\ ~ broken => \A n \in DOMAIN input : input[n].whole => n <= read
    BY <1>2, <2>1 DEF ServerInv
  <2>5. QED
    BY <2>1, <2>2, <2>3, <2>4 DEF M!AnswersInOrder, InTurns, LinesRead
<1>3. QED
  BY <1>1, <1>2, ServerInit, ServerStep, PTL DEF M!Spec

-----------------------------------------------------------------------------
(* Guard.  The rules of the two files come first in the list of rules, which *)
(* only grows at its end until the files are loaded again; those of a file   *)
(* are its denials first.                                                    *)

Sources == {"user", "project", "code"}
Decisions == {"deny", "ask", "allow"}
Rule == [pattern : Patterns, decision : Decisions, source : Sources]

Begins(all) == Len(all) <= Len(rules) /\ \A i \in 1..Len(all) : rules[i] = all[i]

GuardInv ==
    /\ rules \in Seq(Rule)
    /\ loaded.user \in UserFiles /\ loaded.project \in ProjectFiles
    /\ Begins(G!loadFile(loaded.user, "user") \o G!loadFile(loaded.project, "project"))

\* What two lists are when they are joined.
Joins(a, b, c) ==
    /\ Len(a) \in Nat /\ Len(b) \in Nat /\ Len(c) = Len(a) + Len(b)
    /\ \A i \in 1..Len(a) : i \in 1..Len(c) /\ c[i] = a[i]
    /\ \A i \in 1..Len(b) : Len(a) + i \in 1..Len(c) /\ c[Len(a) + i] = b[i]
    /\ \A i \in 1..Len(c) : i > Len(a) => i - Len(a) \in 1..Len(b) /\ c[i] = b[i - Len(a)]

LEMMA Joined ==
    ASSUME NEW S, NEW a \in Seq(S), NEW b \in Seq(S)
    PROVE  \E c \in Seq(S) : c = a \o b /\ Joins(a, b, c)
<1> DEFINE c == a \o b
<1>1. c \in Seq(S) /\ Len(a) \in Nat /\ Len(b) \in Nat /\ Len(c) = Len(a) + Len(b)
  OBVIOUS
<1>2. \A i \in 1..Len(a) : c[i] = a[i]
  OBVIOUS
<1>3. \A i \in 1..Len(b) : c[Len(a) + i] = b[i]
  OBVIOUS
<1>4. \A i \in 1..(Len(a) + Len(b)) : i > Len(a) => c[i] = b[i - Len(a)]
  OBVIOUS
<1>5. c = a \o b
  OBVIOUS
<1> HIDE DEF c
<1>6. Joins(a, b, c)
  BY <1>1, <1>2, <1>3, <1>4 DEF Joins
<1>7. QED
  BY <1>1, <1>5, <1>6

LEMMA RuledFacts ==
    ASSUME NEW ps \in Seq(Patterns), NEW d \in Decisions, NEW source \in Sources
    PROVE  /\ G!Ruled(ps, d, source) \in Seq(Rule) /\ Len(G!Ruled(ps, d, source)) = Len(ps)
           /\ \A i \in 1..Len(ps) : /\ G!Ruled(ps, d, source)[i].pattern = ps[i]
                                    /\ G!Ruled(ps, d, source)[i].decision = d
<1>1. Len(ps) \in Nat /\ DOMAIN ps = 1..Len(ps) /\ \A i \in 1..Len(ps) : ps[i] \in Patterns
  OBVIOUS
<1>2. G!Ruled(ps, d, source) = [i \in 1..Len(ps) |-> [pattern |-> ps[i], decision |-> d, source |-> source]]
  BY <1>1 DEF G!Ruled
<1>3. \A i \in 1..Len(ps) : [pattern |-> ps[i], decision |-> d, source |-> source] \in Rule
  BY <1>1 DEF Rule
<1>4. QED
  BY <1>1, <1>2, <1>3

\* The rules of a file: its denials, and after them what contradicts others'.
Denials(f, rs) ==
    /\ f.deny \in Seq(Patterns) /\ Len(f.deny) \in Nat /\ Len(f.deny) <= Len(rs)
    /\ \A i \in 1..Len(f.deny) : rs[i].pattern = f.deny[i] /\ rs[i].decision = "deny"
    /\ \A i \in 1..Len(rs) : i > Len(f.deny) =>
          \E ps \in {f.ask, f.allow} : \E k \in DOMAIN ps : rs[i].pattern = ps[k]

LEMMA FileRules ==
    ASSUME NEW f \in UserFiles \cup ProjectFiles, NEW source \in Sources
    PROVE  /\ G!loadFile(f, source) \in Seq(Rule) /\ Len(G!loadFile(f, source)) \in Nat
           /\ f = NoFile => Len(G!loadFile(f, source)) = 0
           /\ f # NoFile => Denials(f, G!loadFile(f, source))
<1>1. CASE f = NoFile
  BY <1>1 DEF G!loadFile
<1>2. CASE f # NoFile
  <2>1. f \in G!Settings
    BY <1>2, GuardAssumption DEF G!GuardAssumption
  <2>2. f.deny \in Seq(Patterns) /\ f.ask \in Seq(Patterns) /\ f.allow \in Seq(Patterns)
    BY <2>1 DEF G!Settings
  <2>3. "deny" \in Decisions /\ "ask" \in Decisions /\ "allow" \in Decisions
    BY DEF Decisions
  <2>4. PICK denials \in Seq(Rule) :
          /\ denials = G!Ruled(f.deny, "deny", source) /\ Len(denials) = Len(f.deny)
          /\ \A i \in 1..Len(f.deny) : denials[i].pattern = f.deny[i] /\ denials[i].decision = "deny"
    BY <2>2, <2>3, RuledFacts
  <2>5. PICK questions \in Seq(Rule) :
          /\ questions = G!Ruled(f.ask, "ask", source) /\ Len(questions) = Len(f.ask)
          /\ \A i \in 1..Len(f.ask) : questions[i].pattern = f.ask[i]
    BY <2>2, <2>3, RuledFacts
  <2>6. PICK leaves \in Seq(Rule) :
          /\ leaves = G!Ruled(f.allow, "allow", source) /\ Len(leaves) = Len(f.allow)
          /\ \A i \in 1..Len(f.allow) : leaves[i].pattern = f.allow[i]
    BY <2>2, <2>3, RuledFacts
  <2>7. PICK first \in Seq(Rule) : first = denials \o questions /\ Joins(denials, questions, first)
    BY Joined, Zenon
  <2>8. PICK rs \in Seq(Rule) : rs = first \o leaves /\ Joins(first, leaves, rs)
    BY Joined, Zenon
  <2>9. G!loadFile(f, source) = rs
    BY <1>2, <2>4, <2>5, <2>6, <2>7, <2>8 DEF G!loadFile
  <2>10. /\ DOMAIN f.ask = 1..Len(f.ask) /\ DOMAIN f.allow = 1..Len(f.allow)
         /\ Len(f.deny) \in Nat /\ Len(f.ask) \in Nat /\ Len(f.allow) \in Nat
    BY <2>2
  <2>11. /\ Len(f.deny) <= Len(rs)
         /\ \A i \in 1..Len(f.deny) : rs[i] = denials[i]
    BY <2>4, <2>5, <2>6, <2>7, <2>8, <2>10 DEF Joins
  <2>12. ASSUME NEW i \in 1..Len(rs), i > Len(f.deny)
         PROVE  \E ps \in {f.ask, f.allow} : \E k \in DOMAIN ps : rs[i].pattern = ps[k]
    <3>1. CASE i <= Len(first)
      <4>1. i \in 1..Len(first) /\ rs[i] = first[i] /\ i > Len(denials)
        BY <2>4, <2>7, <2>8, <2>12, <3>1 DEF Joins
      <4>2. i - Len(denials) \in 1..Len(f.ask) /\ rs[i] = questions[i - Len(denials)]
        BY <2>5, <2>7, <4>1 DEF Joins
      <4>3. QED
        BY <2>5, <2>10, <4>2
    <3>2. CASE i > Len(first)
      <4>1. i - Len(first) \in 1..Len(f.allow) /\ rs[i] = leaves[i - Len(first)]
        BY <2>6, <2>8, <3>2 DEF Joins
      <4>2. QED
        BY <2>6, <2>10, <4>1
    <3>3. Len(first) \in Nat /\ i \in Nat
      BY <2>7, <2>8, <2>12
    <3>4. QED
      BY <3>1, <3>2, <3>3
  <2>13. Denials(f, rs)
    BY <2>2, <2>4, <2>10, <2>11, <2>12 DEF Denials
  <2>14. rs \in Seq(Rule) /\ Len(rs) \in Nat
    OBVIOUS
  <2>15. QED
    BY <1>2, <2>9, <2>13, <2>14
<1>3. QED
  BY <1>1, <1>2

\* What the list is when the files have been loaded.
LEMMA LoadedRules ==
    ASSUME NEW user \in UserFiles, NEW project \in ProjectFiles
    PROVE  LET all == G!loadFile(user, "user") \o G!loadFile(project, "project")
           IN all \in Seq(Rule) /\ Len(all) \in Nat /\ Len(all) <= Len(all)
<1>1. G!loadFile(user, "user") \in Seq(Rule) /\ G!loadFile(project, "project") \in Seq(Rule)
  BY FileRules DEF Sources
<1>2. PICK mine \in Seq(Rule), theirs \in Seq(Rule) :
         mine = G!loadFile(user, "user") /\ theirs = G!loadFile(project, "project")
  BY <1>1
<1>3. mine \o theirs \in Seq(Rule) /\ Len(mine \o theirs) \in Nat /\ Len(mine \o theirs) <= Len(mine \o theirs)
  OBVIOUS
<1>4. QED
  BY <1>2, <1>3

LEMMA GuardInit == G!Init => GuardInv
<1> SUFFICES ASSUME G!Init PROVE GuardInv
  OBVIOUS
<1>1. PICK user \in UserFiles, project \in ProjectFiles :
        /\ rules = G!loadFile(user, "user") \o G!loadFile(project, "project")
        /\ loaded = [user |-> user, project |-> project]
  BY DEF G!Init
<1>2. loaded.user = user /\ loaded.project = project
  BY <1>1
<1>3. rules \in Seq(Rule) /\ Len(rules) <= Len(rules)
  BY <1>1, LoadedRules
<1>4. QED
  BY <1>1, <1>2, <1>3 DEF GuardInv, Begins

LEMMA GuardStep == ASSUME GuardInv, [G!Next]_G!vars PROVE GuardInv'
<1>0. Rule' = Rule
  BY DEF Rule, Decisions, Sources
<1>1. ASSUME NEW user \in UserFiles, NEW project \in ProjectFiles, G!LoadFromFiles(user, project)
      PROVE  GuardInv'
  <2>1. PICK all : all = G!loadFile(user, "user") \o G!loadFile(project, "project")
    OBVIOUS
  <2>2. rules' = all /\ loaded'.user = user /\ loaded'.project = project
    BY <1>1, <2>1 DEF G!LoadFromFiles
  <2>3. all \in Seq(Rule) /\ Len(all) <= Len(all)
    BY <2>1, LoadedRules
  <2>4. G!loadFile(loaded'.user, "user") \o G!loadFile(loaded'.project, "project") = all
    BY <2>1, <2>2
  <2>5. Begins(G!loadFile(loaded.user, "user") \o G!loadFile(loaded.project, "project"))'
    BY <2>2, <2>3, <2>4 DEF Begins, G!loadFile, G!Ruled
  <2>6. QED
    BY <1>0, <2>2, <2>3, <2>5 DEF GuardInv
<1>2. ASSUME NEW p \in Patterns, NEW d \in {"deny", "allow"},
             G!AddRule([pattern |-> p, decision |-> d, source |-> "code"])
      PROVE  GuardInv'
  <2> DEFINE rule == [pattern |-> p, decision |-> d, source |-> "code"]
  <2>1. rule \in Rule
    BY DEF Rule, Decisions, Sources
  <2>2. rules' = Append(rules, rule) /\ loaded' = loaded
    BY <1>2 DEF G!AddRule
  <2> HIDE DEF rule
  <2>3. /\ rules' \in Seq(Rule) /\ Len(rules') = Len(rules) + 1 /\ Len(rules) \in Nat
        /\ \A i \in 1..Len(rules) : rules'[i] = rules[i]
    BY <2>1, <2>2 DEF GuardInv
  <2>4. PICK all : all = G!loadFile(loaded.user, "user") \o G!loadFile(loaded.project, "project")
    OBVIOUS
  <2>5. Len(all) \in Nat /\ Begins(all)
    BY <2>4, LoadedRules DEF GuardInv
  <2>6. Len(all) <= Len(rules') /\ \A i \in 1..Len(all) : rules'[i] = all[i]
    BY <2>3, <2>5 DEF Begins
  <2>7. (G!loadFile(loaded.user, "user") \o G!loadFile(loaded.project, "project"))' = all
    BY <2>2, <2>4, Zenon DEF G!loadFile, G!Ruled
  <2>8. Begins(G!loadFile(loaded.user, "user") \o G!loadFile(loaded.project, "project"))'
    BY <2>6, <2>7 DEF Begins
  <2>9. QED
    BY <1>0, <2>2, <2>3, <2>8 DEF GuardInv
<1>3. ASSUME UNCHANGED <<rules, loaded>> PROVE GuardInv'
  BY <1>0, <1>3, Zenon DEF GuardInv, Begins, G!loadFile, G!Ruled
<1>4. CASE UNCHANGED G!vars
  BY <1>3, <1>4 DEF G!vars, G!permissions
<1>5. CASE G!Next
  BY <1>1, <1>2, <1>3, <1>5
     DEF G!Next, G!SetMode, G!SetModeBlocked, G!SetPermissionMode, G!Register, G!RemoveHook, G!SetEnabled,
         G!Fire, G!FireWithProgress, G!NextHook, G!NoObjection, G!CheckToolPermission, G!permissions
<1>6. QED
  BY <1>4, <1>5

\* A set of numbers has a least one.
LEMMA LeastNumber == ASSUME NEW T \in SUBSET Nat, T # {} PROVE \E x \in T : \A y \in T : x <= y
<1> DEFINE Below == {ss \in Nat \X Nat : ss[1] < ss[2]}
<1>1. Below = OpToRel(<, Nat)
  BY DEF OpToRel
<1>2. IsWellFoundedOn(Below, Nat)
  BY <1>1, NatLessThanWellFounded
<1>3. \A x, y \in Nat : <<y, x>> \in Below <=> y < x
  OBVIOUS
<1> HIDE DEF Below
<1>4. PICK x \in T : \A y \in T : ~ (<<y, x>> \in Below)
  BY <1>2, WFMin
<1>5. ASSUME NEW y \in T PROVE x <= y
  <2>1. x \in Nat /\ y \in Nat
    OBVIOUS
  <2>2. ~ (y < x)
    BY <1>3, <1>4, <2>1, Zenon
  <2>3. QED
    BY <2>1, <2>2
<1>6. QED
  BY <1>5

\* The rule that decides is the first that matches.
LEMMA FirstDecides ==
    ASSUME GuardInv, NEW t \in Tools, NEW i \in 1..Len(rules), G!matchGlob(rules[i].pattern, t)
    PROVE  /\ G!FirstMatch(t) \in 1..i /\ G!FirstMatch(t) \in 1..Len(rules)
           /\ G!matchGlob(rules[G!FirstMatch(t)].pattern, t)
<1> DEFINE I == {k \in 1..Len(rules) : G!matchGlob(rules[k].pattern, t)}
<1>1. i \in I /\ I \subseteq Nat /\ Len(rules) \in Nat
  BY DEF GuardInv
<1>2. PICK x \in I : \A y \in I : x <= y
  BY <1>1, LeastNumber
<1>3. G!FirstMatch(t) = G!Min(I)
  BY <1>1 DEF G!FirstMatch, G!SelectInSeq
<1>4. G!Min(I) \in I /\ \A y \in I : G!Min(I) <= y
  BY <1>2 DEF G!Min
<1>5. QED
  BY <1>1, <1>3, <1>4

\* A rule of a file that matches a tool the file does not contradict denies it.
LEMMA NoContradiction ==
    ASSUME NEW f, f # NoFile, NEW rs, Denials(f, rs), NEW t, ~ G!Contradicts(f, t),
           NEW i \in 1..Len(rs), G!matchGlob(rs[i].pattern, t)
    PROVE  rs[i].decision = "deny"
<1>1. ~ (i > Len(f.deny))
  BY DEF Denials, G!Contradicts
<1>2. i \in 1..Len(f.deny)
  BY <1>1 DEF Denials
<1>3. QED
  BY <1>2 DEF Denials

\* A tool that one of the files denies, and the other does not contradict, finds
\* a denial first.
LEMMA FileDenies ==
    ASSUME GuardInv, NEW f \in {"user", "project"}, NEW g \in {"user", "project"}, f # g,
           loaded[f] # NoFile, NEW t \in Tools, NEW i \in DOMAIN loaded[f].deny,
           G!matchGlob(loaded[f].deny[i], t), ~ G!Contradicts(loaded[g], t)
    PROVE  G!FirstMatch(t) # 0 /\ rules[G!FirstMatch(t)].decision = "deny"
<1> DEFINE user == loaded.user
           project == loaded.project
           k == G!FirstMatch(t)
<1>1. PICK mine, theirs : mine = G!loadFile(user, "user") /\ theirs = G!loadFile(project, "project")
  OBVIOUS
<1>2. /\ mine \in Seq(Rule) /\ theirs \in Seq(Rule) /\ Len(mine) \in Nat /\ Len(theirs) \in Nat
      /\ user = NoFile => Len(mine) = 0
      /\ user # NoFile => Denials(user, mine)
      /\ project # NoFile => Denials(project, theirs)
  BY <1>1, FileRules DEF GuardInv, Sources
<1>3. Begins(mine \o theirs)
  BY <1>1 DEF GuardInv
<1>4. /\ Len(mine) + Len(theirs) <= Len(rules)
      /\ \A n \in 1..Len(mine) : rules[n] = mine[n]
      /\ \A n \in 1..Len(theirs) : rules[Len(mine) + n] = theirs[n]
      /\ \A n \in 1..(Len(mine) + Len(theirs)) : n > Len(mine) =>
            n - Len(mine) \in 1..Len(theirs) /\ rules[n] = theirs[n - Len(mine)]
  <2>1. PICK all \in Seq(Rule) : all = mine \o theirs /\ Joins(mine, theirs, all)
    BY <1>2, Joined, Zenon
  <2>2. Len(all) <= Len(rules) /\ \A n \in 1..Len(all) : rules[n] = all[n]
    BY <1>3, <2>1 DEF Begins
  <2>3. QED
    BY <2>1, <2>2 DEF Joins
<1>5. rules \in Seq(Rule) /\ Len(rules) \in Nat
  BY DEF GuardInv
<1> HIDE DEF k
<1>6. CASE f = "user"
  <2>1. i \in 1..Len(user.deny) /\ Len(user.deny) \in Nat /\ Len(user.deny) <= Len(mine)
        /\ \A n \in 1..Len(user.deny) : mine[n].pattern = user.deny[n] /\ mine[n].decision = "deny"
    BY <1>2, <1>6 DEF Denials
  <2>2. \A n \in 1..Len(user.deny) : n \in 1..Len(mine) /\ n \in 1..Len(rules) /\ rules[n] = mine[n]
    BY <1>2, <1>4, <1>5, <2>1
  <2>3. G!matchGlob(rules[i].pattern, t)
    BY <1>6, <2>1, <2>2
  <2>4. k \in 1..i
    BY <2>1, <2>2, <2>3, FirstDecides DEF k
  <2>5. k \in 1..Len(user.deny)
    BY <2>1, <2>4
  <2>6. QED
    BY <2>1, <2>2, <2>5 DEF k
<1>7. CASE f = "project"
  <2>1. i \in 1..Len(project.deny) /\ Len(project.deny) \in Nat /\ Len(project.deny) <= Len(theirs)
        /\ \A n \in 1..Len(project.deny) : theirs[n].pattern = project.deny[n] /\ theirs[n].decision = "deny"
    BY <1>2, <1>7 DEF Denials
  <2> DEFINE place == Len(mine) + i
  <2>2. place \in 1..Len(rules) /\ rules[place] = theirs[i]
    BY <1>2, <1>4, <1>5, <2>1
  <2>3. G!matchGlob(rules[place].pattern, t)
    BY <1>7, <2>1, <2>2
  <2>4. k \in 1..place /\ G!matchGlob(rules[k].pattern, t)
    BY <2>2, <2>3, FirstDecides DEF k
  <2>5. CASE k <= Len(mine)
    <3>1. k \in 1..Len(mine) /\ rules[k] = mine[k]
      BY <1>2, <1>4, <2>1, <2>4, <2>5
    <3>2. user # NoFile /\ Denials(user, mine)
      BY <1>2, <3>1
    <3>3. ~ G!Contradicts(user, t)
      BY <1>7
    <3>4. mine[k].decision = "deny"
      BY <2>4, <3>1, <3>2, <3>3, NoContradiction
    <3>5. QED
      BY <2>4, <3>1, <3>4 DEF k
  <2>6. CASE k > Len(mine)
    <3>1. k \in 1..(Len(mine) + Len(theirs)) /\ k - Len(mine) \in 1..Len(project.deny)
      BY <1>2, <2>1, <2>4, <2>6
    <3>2. rules[k] = theirs[k - Len(mine)]
      BY <1>4, <2>6, <3>1
    <3>3. QED
      BY <2>1, <2>4, <3>1, <3>2 DEF k
  <2>7. QED
    BY <1>2, <2>1, <2>4, <2>5, <2>6
<1>8. QED
  BY <1>6, <1>7

LEMMA DenialsStanding == G!Spec => []G!DenialsHold
<1>1. ASSUME GuardInv PROVE G!DenialsHold
  <2>1. \A t \in Tools : /\ G!checkLocked(t) = G!CheckWithReason(t)[1]
                         /\ G!checkLocked(t) = G!checkDetailedLocked(t).behavior
    BY DEF G!checkLocked, G!CheckWithReason, G!checkDetailedLocked
  <2>2. ASSUME mode # "bypassPermissions", NEW f \in {"user", "project"}, NEW g \in {"user", "project"}, f # g,
               loaded[f] # NoFile, NEW i \in DOMAIN loaded[f].deny, NEW t \in Tools,
               G!matchGlob(loaded[f].deny[i], t), ~ G!Contradicts(loaded[g], t)
        PROVE  G!checkLocked(t) = "deny"
    <3>1. G!FirstMatch(t) # 0 /\ rules[G!FirstMatch(t)].decision = "deny"
      BY <1>1, <2>2, FileDenies
    <3>2. QED
      BY <2>2, <3>1 DEF G!checkLocked
  <2>3. QED
    BY <2>1, <2>2 DEF G!DenialsHold
<1>2. QED
  BY <1>1, GuardInit, GuardStep, PTL DEF G!Spec

-----------------------------------------------------------------------------
(* Startup.  Up to the check of the database the key in use is worked out    *)
(* from the file and the environment; after it nothing changes either.  The  *)
(* session's hooks, the channels and what is open follow the phases.         *)

FirstKey == P!loadFile(P!loadFile(outer, dotenv), local)
Preparing == {"wizard", "env", "load", "validate", "key", "ask", "db", "boot"}
Running == {"headless", "serving", "waiting"}
Ending == {"closing", "ending"}

KeyInv ==
    /\ phase \in Preparing \cup Running \cup Ending \cup {"off"}
    /\ saved # NoKey => config \in P!Config /\ ~ config.ref /\ config.key = saved
    /\ phase \in {"wizard", "env"} => env = outer
    /\ phase \notin {"wizard", "env", "off"} => env = FirstKey
    /\ phase \in {"validate", "key", "ask", "db", "boot"} \cup Running /\ ~ asked =>
         config \in P!Config /\ cfg.key = P!Expand(config)
    /\ phase \in {"key", "ask", "db", "boot"} \cup Running /\ ~ asked => cfg.key # NoKey

Started == <<"SessionStart">>
Over == <<"SessionStart", "SessionEnd">>

SessionInv ==
    /\ heard \in {<< >>, Started, Over}
    /\ phase \in Preparing => heard = << >>
    /\ phase \in Preparing \cup {"off", "headless"} => \A c \in Channels : channel[c] = "off"
    /\ phase \in Running => heard = Started /\ (headless <=> phase = "headless")
    /\ phase \in {"boot"} \cup Running /\ cfg.db # "off" => "db" \in holds
    /\ phase \in {"serving", "waiting"} => \A c \in Channels \ cfg.channels : channel[c] = "off"
    /\ phase = "waiting" => P!Group = {}
    /\ phase = "serving" => P!Group # {}
    /\ phase \in Ending =>
         /\ \A c \in Channels \ {"web"} : channel[c] # "serving"
         /\ ~ headless /\ P!Group # {} => heard = Over

StartInv == P!TypeOK /\ KeyInv /\ SessionInv

\* A sequence of one, and one appended.
LEMMA Paired == ASSUME NEW x, NEW y PROVE Append(<<x>>, y) = <<x, y>>
<1> DEFINE more == Append(<<x>>, y)
           both == <<x, y>>
<1>1. /\ more \in Seq({x, y}) /\ Len(more) = 2 /\ more[1] = x /\ more[2] = y
      /\ both \in Seq({x, y}) /\ Len(both) = 2 /\ both[1] = x /\ both[2] = y
  OBVIOUS
<1> HIDE DEF more, both
<1>2. more = [i \in 1..2 |-> more[i]] /\ both = [i \in 1..2 |-> both[i]]
  BY <1>1
<1>3. \A i \in 1..2 : more[i] = both[i]
  BY <1>1
<1>4. more = both
  BY <1>2, <1>3
<1>5. QED
  BY <1>4 DEF more, both

\* What the configurations are that the program makes of others.
LEMMA ConfigFacts ==
    ASSUME NEW c \in P!Config
    PROVE  /\ c.ref \in BOOLEAN /\ c.key \in P!Key /\ c.channels \subseteq Channels /\ c.db \in P!Drivers
           /\ \A r \in BOOLEAN, k \in P!Key, s \in BOOLEAN :
                /\ [c EXCEPT !.ref = r, !.key = k, !.sound = s] \in P!Config
                /\ [c EXCEPT !.ref = r, !.key = k, !.sound = s].ref = r
                /\ [c EXCEPT !.ref = r, !.key = k, !.sound = s].key = k
                /\ [c EXCEPT !.ref = r, !.key = k, !.sound = s].channels = c.channels
                /\ [c EXCEPT !.ref = r, !.key = k, !.sound = s].db = c.db
           /\ \A r \in BOOLEAN : /\ [c EXCEPT !.ref = r] \in P!Config
                                 /\ [c EXCEPT !.ref = r].key = c.key /\ [c EXCEPT !.ref = r].db = c.db
BY DEF P!Config, P!Drivers

LEMMA BlankFacts == P!Blank \in P!Config
BY DEF P!Blank, P!Config, P!Key, P!Drivers

LEMMA AnswersMade == ASSUME NEW c \in P!Answers PROVE c \in P!Config /\ ~ c.ref
<1>1. P!DefaultConfig.channels = {"cli"} /\ {"cli"} \subseteq Channels
  BY StartupAssumption DEF P!DefaultConfig, P!StartupAssumption, P!Blank
<1>2. QED
  BY <1>1 DEF P!Answers, P!Config, P!Drivers

LEMMA StartInit == P!Init => StartInv
<1> SUFFICES ASSUME P!Init PROVE StartInv
  OBVIOUS
<1>1. config \in P!Config \cup {Missing, Torn}
  BY DEF P!Init, P!Blank, P!Config, P!Key, P!Drivers
<1>2. P!TypeOK
  BY <1>1, BlankFacts DEF P!Init, P!TypeOK, P!Key, P!Off
<1>3. QED
  BY <1>2 DEF P!Init, P!Off, StartInv, KeyInv, SessionInv, Preparing, Running, Ending

\* A step that is none of Startup's own three kinds of writing keeps the files;
\* what a crash leaves is what was there.
LEMMA Unfiled ==
    ASSUME StartInv, UNCHANGED <<P!files, saved>>,
           P!TypeOK', phase' \in Preparing \cup Running \cup Ending \cup {"off"},
           phase' \in {"wizard", "env"} => env' = outer,
           phase' \notin {"wizard", "env", "off"} => env' = FirstKey,
           phase' \in {"validate", "key", "ask", "db", "boot"} \cup Running /\ ~ asked' =>
             config \in P!Config /\ cfg'.key = IF config.ref /\ env' # NoKey THEN env' ELSE config.key,
           phase' \in {"key", "ask", "db", "boot"} \cup Running /\ ~ asked' => cfg'.key # NoKey,
           SessionInv'
    PROVE  StartInv'
<1>1. P!Config' = P!Config /\ FirstKey' = FirstKey /\ (Preparing \cup Running \cup Ending)' = Preparing \cup Running \cup Ending
  BY DEF P!Config, P!Key, P!Drivers, FirstKey, P!files, P!loadFile, Preparing, Running, Ending
<1>2. KeyInv'
  BY <1>1 DEF StartInv, KeyInv, P!files, P!Expand, Preparing, Running, Ending
<1>3. QED
  BY <1>2 DEF StartInv

LEMMA StartStep == ASSUME StartInv, [P!Next]_P!vars PROVE StartInv'
<1> USE DEF P!files, P!process
<1>0. /\ P!TypeOK /\ KeyInv /\ SessionInv
      /\ P!Config' = P!Config /\ P!Key' = P!Key
  BY DEF StartInv, P!Config, P!Key, P!Drivers
<1>1. CASE P!Edit
  <2>1. /\ phase = "off" /\ phase' = "off"
        /\ UNCHANGED <<env, cfg, headless, holds, channel, stop, failed, heard, asked>>
    BY <1>1 DEF P!Edit
  <2>2. CASE UNCHANGED <<config, saved>>
    <3>1. outer' \in P!Key /\ dotenv' \in P!Key /\ local' \in P!Key
      BY <1>0, <1>1, <2>2 DEF P!Edit, P!TypeOK
    <3>2. QED
      BY <1>0, <2>1, <2>2, <3>1 DEF StartInv, P!TypeOK, KeyInv, SessionInv, Preparing, Running, Ending
  <2>3. CASE /\ config \notin {Missing, Torn} /\ saved' = NoKey /\ UNCHANGED <<outer, dotenv, local>>
             /\ \E c \in {TRUE, FALSE} \X P!Key \X BOOLEAN :
                  config' = [config EXCEPT !.ref = c[1], !.key = c[2], !.sound = c[3]]
    <3>1. PICK r \in BOOLEAN, k \in P!Key, sound \in BOOLEAN :
            config' = [config EXCEPT !.ref = r, !.key = k, !.sound = sound]
      <4>1. \A c \in {TRUE, FALSE} \X P!Key \X BOOLEAN : c[1] \in BOOLEAN /\ c[2] \in P!Key /\ c[3] \in BOOLEAN
        OBVIOUS
      <4>2. QED
        BY <2>3, <4>1
    <3>2. config \in P!Config
      BY <1>0, <2>3 DEF P!TypeOK
    <3>3. config' \in P!Config
      BY <3>1, <3>2, ConfigFacts
    <3>4. saved' \in P!Key
      BY <2>3 DEF P!Key
    <3>5. QED
      BY <1>0, <2>1, <2>3, <3>3, <3>4 DEF StartInv, P!TypeOK, KeyInv, SessionInv, Preparing, Running, Ending
  <2>4. QED
    BY <1>1, <2>2, <2>3 DEF P!Edit
<1>2. ASSUME NEW prompt \in BOOLEAN, NEW setup \in BOOLEAN, P!Launch(prompt, setup) PROVE StartInv'
  <2>1. /\ phase' \in {"wizard", "env"} /\ env' = outer /\ cfg' = P!Blank /\ headless' = prompt
        /\ holds' = {} /\ channel' = P!Off /\ stop' = FALSE /\ failed' = FALSE /\ heard' = << >>
        /\ asked' = FALSE /\ UNCHANGED <<P!files, saved>>
    BY <1>2 DEF P!Launch
  <2>2. P!TypeOK'
    BY <1>0, <2>1, BlankFacts DEF P!TypeOK, P!Off
  <2>3. SessionInv'
    BY <2>1 DEF SessionInv, Preparing, Running, Ending, P!Off
  <2>4. QED
    BY <2>1, <2>2, <2>3, Unfiled DEF Preparing, Running
<1>3. ASSUME UNCHANGED <<outer, dotenv, local, env, headless, stop, failed, heard>>,
             cfg' \in P!Config, holds' \subseteq {"db", "mcp"}, asked' \in BOOLEAN,
             saved' \in P!Key, config' \in P!Config \cup {Missing, Torn},
             saved' # NoKey => config' \in P!Config /\ ~ config'.ref /\ config'.key = saved',
             \E why : P!Ends(why)
      PROVE  StartInv'
  <2>1. phase' = "off" /\ channel' = P!Off
    BY <1>3 DEF P!Ends
  <2>2. P!TypeOK'
    BY <1>0, <1>3, <2>1 DEF P!TypeOK, P!Off
  <2>3. KeyInv'
    BY <1>0, <1>3, <2>1 DEF KeyInv, Preparing, Running, Ending
  <2>4. SessionInv'
    BY <1>0, <1>3, <2>1 DEF SessionInv, Preparing, Running, Ending, P!Off
  <2>5. QED
    BY <2>2, <2>3, <2>4 DEF StartInv
\* A process that ends and has written nothing.
<1>4. ASSUME UNCHANGED <<P!files, env, cfg, headless, stop, failed, heard, saved>>,
             asked' \in BOOLEAN, holds' \subseteq {"db", "mcp"}, \E why : P!Ends(why)
      PROVE  StartInv'
  BY <1>0, <1>3, <1>4 DEF P!TypeOK, KeyInv
<1>5. CASE P!Crash
  BY <1>0, <1>4, <1>5 DEF P!Crash, P!TypeOK
\* What becomes of a configuration that is written.
<1>6. ASSUME NEW c \in P!Config, ~ c.ref, NEW next \in {"env", "db"}, P!WriteConfig(c, next),
             UNCHANGED <<outer, dotenv, local, env, headless, holds, stop, failed, heard>>,
             cfg' \in P!Config, asked' \in BOOLEAN, ~ (phase' = "db" /\ ~ asked'),
             next = "env" => env = outer /\ phase = "wizard",
             next = "db" => phase = "ask"
      PROVE  StartInv'
  <2>1. CASE config' = c /\ saved' = c.key /\ phase' = next /\ channel' = channel
    <3>1. c.key \in P!Key
      BY <1>6, ConfigFacts
    <3>2. P!TypeOK'
      BY <1>0, <1>6, <2>1, <3>1 DEF P!TypeOK
    <3>3. KeyInv'
      BY <1>0, <1>6, <2>1 DEF KeyInv, Preparing, Running, Ending, FirstKey, P!loadFile
    <3>4. SessionInv'
      BY <1>0, <1>6, <2>1 DEF SessionInv, Preparing, Running, Ending
    <3>5. QED
      BY <3>2, <3>3, <3>4 DEF StartInv
  <2>2. CASE UNCHANGED <<config, saved>> /\ P!Ends("setup")
    BY <1>0, <1>3, <1>6, <2>2 DEF P!TypeOK, KeyInv
  <2>3. CASE config' \in {Torn, P!Blank} /\ saved' = NoKey /\ P!Ends("killed")
    <3>1. config' \in P!Config \cup {Missing, Torn} /\ saved' \in P!Key
      BY <2>3, BlankFacts DEF P!Key
    <3>2. QED
      BY <1>0, <1>3, <1>6, <2>3, <3>1 DEF P!TypeOK
  <2>4. QED
    BY <1>6, <2>1, <2>2, <2>3 DEF P!WriteConfig
<1>7. CASE P!Run
  <2>1. /\ phase = "wizard" /\ env = outer /\ cfg \in P!Config /\ holds \subseteq {"db", "mcp"} /\ asked \in BOOLEAN
        /\ UNCHANGED <<outer, dotenv, local, env, cfg, headless, holds, stop, failed, heard, asked>>
    BY <1>0, <1>7 DEF P!Run, KeyInv, P!TypeOK
  <2>2. ASSUME NEW c \in P!Answers, P!WriteConfig(c, "env") PROVE StartInv'
    <3>1. ~ (phase' = "db")
      BY <2>2 DEF P!WriteConfig, P!Ends
    <3>2. QED
      BY <1>6, <2>1, <2>2, <3>1, AnswersMade
  <2>3. ASSUME NEW c \in P!Answers, config' = c, saved' = c.key, P!Ends("setup") PROVE StartInv'
    BY <1>3, <2>1, <2>3, AnswersMade, ConfigFacts
  <2>4. CASE UNCHANGED <<config, saved>> /\ P!Ends("setup")
    BY <1>4, <2>1, <2>4
  <2>5. QED
    BY <1>7, <2>2, <2>3, <2>4 DEF P!Run
<1>8. CASE P!LoadEnv
  <2>1. /\ phase = "env" /\ phase' = "load" /\ env = outer /\ env' = FirstKey /\ env' \in P!Key
        /\ UNCHANGED <<P!files, cfg, headless, holds, channel, stop, failed, heard, asked, saved>>
    BY <1>0, <1>8 DEF P!LoadEnv, P!Step, KeyInv, FirstKey, P!loadFile, P!TypeOK
  <2>2. P!TypeOK'
    BY <1>0, <2>1 DEF P!TypeOK
  <2>3. SessionInv'
    BY <1>0, <2>1 DEF SessionInv, Preparing, Running, Ending
  <2>4. QED
    BY <2>1, <2>2, <2>3, Unfiled DEF Preparing, Running
<1>9. CASE P!Load
  <2>1. CASE config \in {Missing, Torn}
    BY <1>0, <1>4, <1>9, <2>1 DEF P!Load, P!TypeOK
  <2>2. CASE config \notin {Missing, Torn}
    <3>1. config \in P!Config /\ P!Expand(config) \in P!Key
      BY <1>0, <2>2, ConfigFacts DEF P!TypeOK, P!Expand
    <3>2. cfg' \in P!Config /\ cfg'.key = P!Expand(config)
      <4>1. cfg' = P!setDefaults([config EXCEPT !.key = P!Expand(config)])
        BY <1>9, <2>2 DEF P!Load
      <4> DEFINE k == P!Expand(config)
      <4>2. k \in P!Key
        BY <3>1
      <4> HIDE DEF k
      <4>3. P!setDefaults([config EXCEPT !.key = k]) \in P!Config /\ P!setDefaults([config EXCEPT !.key = k]).key = k
        BY <3>1, <4>2 DEF P!Config, P!setDefaults, P!Drivers
      <4>4. QED
        BY <4>1, <4>3 DEF k
    <3>3. /\ phase = "load" /\ phase' = "validate" /\ env' = FirstKey
          /\ UNCHANGED <<P!files, env, headless, holds, channel, stop, failed, heard, asked, saved>>
      BY <1>0, <1>9, <2>2 DEF P!Load, KeyInv
    <3>4. P!TypeOK'
      BY <1>0, <3>2, <3>3 DEF P!TypeOK
    <3>5. SessionInv'
      BY <1>0, <3>3 DEF SessionInv, Preparing, Running, Ending
    <3>6. QED
      BY <3>1, <3>2, <3>3, <3>4, <3>5, Unfiled DEF Preparing, Running, P!Expand
  <2>3. QED
    BY <2>1, <2>2
\* A step of the process that goes on with the configuration it has.
<1>10. ASSUME UNCHANGED <<P!files, env, cfg, asked, saved>>, P!TypeOK', SessionInv',
              \/ phase \in {"validate", "key", "ask", "db", "boot"} \cup Running /\ cfg.key # NoKey
              \/ phase \in {"key", "ask", "db", "boot"} \cup Running
              \/ phase \in Ending /\ phase' \in Ending,
              phase' \in {"validate", "key", "ask", "db", "boot"} \cup Running \cup Ending
       PROVE  StartInv'
  BY <1>0, <1>10, Unfiled DEF KeyInv, Preparing, Running, Ending, P!Expand
<1>11. CASE P!Validate
  <2>1. CASE P!HasErrors(cfg)
    BY <1>0, <1>4, <1>11, <2>1 DEF P!Validate, P!TypeOK
  <2>2. CASE ~ P!HasErrors(cfg)
    <3>1. /\ phase = "validate" /\ phase' \in {"db", "key"} /\ cfg.key # NoKey
          /\ UNCHANGED <<P!files, env, cfg, headless, holds, channel, stop, failed, heard, asked, saved>>
      BY <1>11, <2>2 DEF P!Validate, P!HasErrors
    <3>2. P!TypeOK' /\ SessionInv'
      BY <1>0, <3>1 DEF P!TypeOK, SessionInv, Preparing, Running, Ending
    <3>3. QED
      BY <1>10, <3>1, <3>2 DEF Running
  <2>3. QED
    BY <2>1, <2>2
<1>12. CASE P!needsAPIKey
  <2>1. /\ phase = "key" /\ phase' \in {"db", "ask"}
        /\ UNCHANGED <<P!files, env, cfg, headless, holds, channel, stop, failed, heard, asked, saved>>
    BY <1>12 DEF P!needsAPIKey
  <2>2. P!TypeOK' /\ SessionInv'
    BY <1>0, <2>1 DEF P!TypeOK, SessionInv, Preparing, Running, Ending
  <2>3. QED
    BY <1>10, <2>1, <2>2
<1>13. CASE P!CheckAPIKey
  <2>1. /\ phase = "ask" /\ asked' = TRUE /\ cfg \in P!Config /\ holds \subseteq {"db", "mcp"}
        /\ UNCHANGED <<outer, dotenv, local, env, headless, holds, stop, failed, heard>>
    BY <1>0, <1>13 DEF P!CheckAPIKey, P!TypeOK
  <2>2. CASE P!Ends("key") /\ UNCHANGED <<cfg, config, saved>>
    BY <1>4, <2>1, <2>2
  <2>3. ASSUME NEW k \in ProviderKeys, NEW c \in P!Chosen(k), cfg' = [c EXCEPT !.ref = cfg.ref],
               \/ P!WriteConfig(c, "db")
               \/ phase' = "db" /\ UNCHANGED <<config, saved, exit, channel>>
        PROVE  StartInv'
    <3>1. k \in P!Key
      BY DEF P!Key
    <3>2. c \in P!Config /\ ~ c.ref
      <4>1. PICK s \in BOOLEAN : c = [cfg EXCEPT !.ref = FALSE, !.key = k, !.sound = s]
        BY DEF P!Chosen
      <4>2. QED
        BY <2>1, <3>1, <4>1, ConfigFacts
    <3>3. cfg' \in P!Config
      BY <2>1, <2>3, <3>2, ConfigFacts
    <3>4. CASE P!WriteConfig(c, "db")
      BY <1>6, <2>1, <3>2, <3>3, <3>4
    <3>5. CASE phase' = "db" /\ UNCHANGED <<config, saved, channel>>
      <4>1. P!TypeOK' /\ SessionInv'
        BY <1>0, <2>1, <3>3, <3>5 DEF P!TypeOK, SessionInv, Preparing, Running, Ending
      <4>2. env' = FirstKey
        BY <1>0, <2>1 DEF KeyInv
      <4>3. QED
        BY <2>1, <3>5, <4>1, <4>2, Unfiled DEF Preparing
    <3>6. QED
      BY <2>3, <3>4, <3>5
  <2>4. QED
    BY <1>13, <2>2, <2>3 DEF P!CheckAPIKey
<1>14. CASE P!OpenDatabase
  <2>1. CASE P!Ends("database")
    BY <1>0, <1>4, <1>14, <2>1 DEF P!OpenDatabase, P!TypeOK
  <2>2. CASE ~ P!Ends("database")
    <3>1. /\ phase = "db" /\ phase' = "boot" /\ holds' \in {holds, holds \cup {"db"}}
          /\ cfg.db # "off" => "db" \in holds'
          /\ UNCHANGED <<P!files, env, cfg, headless, channel, stop, failed, heard, asked, saved>>
      BY <1>14, <2>2 DEF P!OpenDatabase
    <3>2. P!TypeOK'
      BY <1>0, <3>1 DEF P!TypeOK
    <3>3. SessionInv'
      BY <1>0, <3>1 DEF SessionInv, Preparing, Running, Ending
    <3>4. QED
      BY <1>10, <3>1, <3>2, <3>3
  <2>3. QED
    BY <2>1, <2>2
<1>15. CASE P!Boot
  <2>1. /\ phase = "boot" /\ heard = << >> /\ heard' = Started
        /\ holds' \in {holds, holds \cup {"mcp"}}
        /\ UNCHANGED <<P!files, env, cfg, headless, stop, failed, asked, saved>>
    BY <1>0, <1>15 DEF P!Boot, SessionInv, Preparing, Started
  <2>2. CASE headless
    <3>1. phase' = "headless" /\ channel' = channel
      BY <1>15, <2>2 DEF P!Boot
    <3>2. P!TypeOK' /\ SessionInv'
      BY <1>0, <2>1, <2>2, <3>1 DEF P!TypeOK, SessionInv, Preparing, Running, Ending
    <3>3. QED
      BY <1>10, <2>1, <3>1, <3>2 DEF Running
  <2>3. CASE ~ headless
    <3>1. /\ phase' = (IF P!Group = {} THEN "waiting" ELSE "serving")
          /\ channel' = [c \in Channels |-> IF c \in cfg.channels THEN "serving" ELSE "off"]
      BY <1>15, <2>3 DEF P!Boot
    <3>2. P!TypeOK'
      BY <1>0, <2>1, <3>1 DEF P!TypeOK
    <3>3. P!Group' = P!Group
      BY <2>1 DEF P!Group
    <3>4. SessionInv'
      BY <1>0, <2>1, <2>3, <3>1, <3>3 DEF P!TypeOK, SessionInv, Preparing, Running, Ending
    <3>5. QED
      BY <1>10, <2>1, <3>1, <3>2, <3>4 DEF Running
  <2>4. QED
    BY <2>2, <2>3
<1>16. CASE P!Headless
  <2>1. /\ phase = "headless" /\ phase' = "closing" /\ failed' \in BOOLEAN
        /\ UNCHANGED <<P!files, env, cfg, headless, holds, channel, stop, heard, asked, saved>>
    BY <1>16 DEF P!Headless, P!Step
  <2>2. P!TypeOK' /\ SessionInv'
    BY <1>0, <2>1 DEF P!TypeOK, SessionInv, Preparing, Running, Ending
  <2>3. QED
    BY <1>10, <2>1, <2>2 DEF Running, Ending
<1>17. CASE P!Signal
  <2>1. /\ phase \in {"db", "boot", "headless", "serving", "waiting"} /\ phase' = phase /\ stop' = TRUE
        /\ UNCHANGED <<P!files, env, cfg, headless, holds, channel, failed, heard, asked, saved>>
    BY <1>17 DEF P!Signal
  <2>2. P!TypeOK' /\ SessionInv'
    BY <1>0, <2>1 DEF P!TypeOK, SessionInv, Preparing, Running, Ending, P!Group
  <2>3. QED
    BY <1>10, <2>1, <2>2 DEF Running
<1>18. ASSUME NEW c \in Channels, P!ChannelEnds(c) PROVE StartInv'
  <2>1. /\ phase \in {"serving", "waiting", "closing", "ending"} /\ phase' = phase
        /\ channel[c] = "serving" /\ channel' = [channel EXCEPT ![c] = "ended"]
        /\ failed' \in BOOLEAN
        /\ UNCHANGED <<P!files, env, cfg, headless, holds, stop, heard, asked, saved>>
    BY <1>0, <1>18 DEF P!ChannelEnds, P!TypeOK
  <2>2. P!TypeOK'
    BY <1>0, <2>1 DEF P!TypeOK
  <2>3. P!Group' = P!Group
    BY <2>1 DEF P!Group
  <2>4. SessionInv'
    BY <1>0, <2>1, <2>3 DEF P!TypeOK, SessionInv, Preparing, Running, Ending
  <2>5. QED
    BY <1>10, <2>1, <2>2, <2>4 DEF Running, Ending
<1>19. CASE P!Shutdown
  <2>0. Append(Started, "SessionEnd") = Over
    BY Paired DEF Started, Over
  <2>1. /\ phase = "serving" /\ phase' = "closing" /\ P!Wait /\ heard' = Over
        /\ UNCHANGED <<P!files, env, cfg, headless, holds, channel, stop, failed, asked, saved>>
    BY <1>0, <1>19, <2>0 DEF P!Shutdown, P!Step, SessionInv, Running
  <2>2. P!TypeOK'
    BY <1>0, <2>1 DEF P!TypeOK
  <2>3. \A c \in Channels \ {"web"} : channel[c] # "serving"
    BY <1>0, <2>1 DEF SessionInv, P!Wait, P!Group
  <2>4. SessionInv'
    BY <1>0, <2>1, <2>3 DEF SessionInv, Preparing, Running, Ending
  <2>5. QED
    BY <1>10, <2>1, <2>2, <2>4 DEF Running, Ending
<1>20. CASE P!StopWaiting
  <2>1. /\ phase = "waiting" /\ phase' = "closing"
        /\ UNCHANGED <<P!files, env, cfg, headless, holds, channel, stop, failed, heard, asked, saved>>
    BY <1>20 DEF P!StopWaiting, P!Step
  <2>2. P!TypeOK'
    BY <1>0, <2>1 DEF P!TypeOK
  <2>3. P!Group = {} /\ P!Group' = {} /\ \A c \in Channels \ {"web"} : channel[c] # "serving"
    BY <1>0, <2>1 DEF SessionInv, P!Group
  <2>4. SessionInv'
    BY <1>0, <2>1, <2>3 DEF SessionInv, Preparing, Running, Ending
  <2>5. QED
    BY <1>10, <2>1, <2>2, <2>4 DEF Running, Ending
<1>21. CASE P!CloseServers
  <2>1. /\ phase = "closing" /\ phase' = "ending" /\ holds' = holds \ {"mcp"}
        /\ UNCHANGED <<P!files, env, cfg, headless, channel, stop, failed, heard, asked, saved>>
    BY <1>21 DEF P!CloseServers, P!Step
  <2>2. P!Group' = P!Group
    BY <2>1 DEF P!Group
  <2>3. P!TypeOK' /\ SessionInv'
    BY <1>0, <2>1, <2>2 DEF P!TypeOK, SessionInv, Preparing, Running, Ending
  <2>4. QED
    BY <1>10, <2>1, <2>3 DEF Ending
<1>22. CASE P!Exit
  BY <1>0, <1>4, <1>22 DEF P!Exit, P!TypeOK
<1>23. CASE UNCHANGED P!vars
  <2>1. UNCHANGED <<P!files, P!process, asked, saved, phase>>
    BY <1>23 DEF P!vars
  <2>2. P!TypeOK' /\ SessionInv'
    BY <1>0, <2>1 DEF P!TypeOK, SessionInv, Preparing, Running, Ending, P!Group
  <2>3. QED
    BY <1>0, <2>1, <2>2, Unfiled DEF KeyInv, P!Expand
<1>24. QED
  BY <1>1, <1>2, <1>5, <1>7, <1>8, <1>9, <1>11, <1>12, <1>13, <1>14, <1>15, <1>16, <1>17, <1>18, <1>19,
     <1>20, <1>21, <1>22, <1>23 DEF P!Next

LEMMA StartingAndEnding == P!Spec => []P!TypeOK /\ []P!KeyIsTheOneSet /\ []P!SessionIsFramed
<1>1. ASSUME StartInv PROVE P!KeyIsTheOneSet
  <2>1. SUFFICES ASSUME phase \in {"db", "boot", "headless", "serving", "waiting"}, ~ asked
                 PROVE  /\ cfg.key # NoKey
                        /\ saved # NoKey => cfg.key = saved
                        /\ config.ref =>
                             CASE outer # NoKey -> cfg.key = outer
                               [] outer = NoKey /\ {dotenv, local} # {NoKey} -> cfg.key \in {dotenv, local}
                               [] OTHER -> cfg.key = config.key
    BY DEF P!KeyIsTheOneSet
  <2>2. /\ cfg.key # NoKey /\ cfg.key = P!Expand(config) /\ env = FirstKey
        /\ saved # NoKey => ~ config.ref /\ config.key = saved
    BY <1>1, <2>1 DEF StartInv, KeyInv, Running
  <2>3. ASSUME config.ref
        PROVE  CASE outer # NoKey -> cfg.key = outer
                 [] outer = NoKey /\ {dotenv, local} # {NoKey} -> cfg.key \in {dotenv, local}
                 [] OTHER -> cfg.key = config.key
    <3>1. cfg.key = (IF outer # NoKey THEN outer ELSE IF dotenv # NoKey THEN dotenv
                     ELSE IF local # NoKey THEN local ELSE config.key)
      BY <2>2, <2>3 DEF P!Expand, FirstKey, P!loadFile
    <3>2. QED
      BY <3>1
  <2>4. QED
    BY <2>2, <2>3 DEF P!Expand
<1>2. ASSUME StartInv PROVE P!SessionIsFramed
  <2>1. Len(Over) = 2
    BY DEF Over
  <2>2. phase \in Preparing \cup Running \cup Ending \cup {"off"} /\ SessionInv
    BY <1>2 DEF StartInv, KeyInv
  <2>3. ASSUME NEW c \in Channels \ {"web"}, channel[c] = "serving"
        PROVE  heard = Started /\ (cfg.db # "off" => "db" \in holds)
    <3>1. phase \in {"serving", "waiting"}
      BY <2>2, <2>3 DEF SessionInv, Preparing, Running, Ending
    <3>2. QED
      BY <2>2, <3>1 DEF SessionInv, Running
  <2>4. QED
    BY <2>1, <2>2, <2>3 DEF P!SessionIsFramed, SessionInv, Ending, Started, Over
<1>3. StartInv => P!TypeOK
  BY DEF StartInv
<1>4. QED
  BY <1>1, <1>2, <1>3, StartInit, StartStep, PTL DEF P!Spec

-----------------------------------------------------------------------------
(* Agents.  An agent that nobody confused has at most one change under way,  *)
(* and what its file, its backup and the registry hold follows the place of  *)
(* that change.                                                              *)

On(c, a) == changeAt[c] # "idle" /\ change[c].of = a

\* A configuration that was not cut has the core skills.
Sound(f) == A!Whole(f) => Core \subseteq f.skills

StageOf(c, a) ==
    /\ A!Whole(ag[c])
    /\ changeAt[c] \in {"backup", "copy", "save"} => A!Whole(agentFile[a])
    /\ changeAt[c] = "copy" => copy[c] = agentFile[a]
    /\ changeAt[c] \in {"save", "write"} => A!Whole(bak[a])
    /\ changeAt[c] = "write" => agentFile[a] = A!Blank
    /\ changeAt[c] = "register" => agentFile[a] = ag[c]

Unconfused(a) ==
    /\ \A c, d \in Callers : On(c, a) /\ On(d, a) => c = d
    /\ \A c \in Callers : On(c, a) => StageOf(c, a)
    /\ A!Whole(agentFile[a]) \/ A!Whole(bak[a])
    /\ A!Whole(agentFile[a]) /\ agents[a] # Missing /\ (\A c \in Callers : On(c, a) => changeAt[c] # "register") =>
         agents[a] = agentFile[a]

AgentInv ==
    /\ A!TypeOK
    /\ change \in [Callers -> A!Jobs \cup {A!Idle}]
    /\ \A c \in Callers : changeAt[c] # "idle" => ag[c] \in A!Config
    /\ \A a \in A!Agents \ confused : Unconfused(a)

CoreInv ==
    /\ \A a \in A!Agents : Sound(agentFile[a]) /\ Sound(agents[a])
    /\ \A c \in Callers : Sound(ag[c])

AgentConstants == <<A!Agents, A!Config, A!Jobs, A!Files, A!Entries, A!Blank, A!Idle>>

LEMMA AgentsFixed == UNCHANGED AgentConstants
BY DEF AgentConstants, A!Agents, A!Config, A!Jobs, A!Files, A!Entries, A!Blank, A!Idle

LEMMA AgentFacts ==
    /\ Core \subseteq AgentSkills /\ Missing \notin A!Config /\ Torn \notin A!Config
    /\ AgentFiles \in Seq(A!Agents) /\ Core # {}
    /\ A!Blank \in A!Config /\ ~ A!Whole(A!Blank) /\ ~ A!Whole(Torn) /\ ~ A!Whole(Missing)
    /\ A!Files = A!Config \cup {Missing, Torn} /\ A!Entries = A!Config \cup {Missing}
BY CatalogAssumption
   DEF A!AgentsAssumption, A!Config, A!Blank, A!Files, A!Entries, A!Whole

LEMMA JobFacts ==
    ASSUME NEW j \in A!Jobs
    PROVE  /\ j # A!Idle /\ j.of \in A!Agents /\ j.op \in {"persona", "add", "remove"}
           /\ j.op = "persona" => j.new \in Personas
           /\ j.op \in {"add", "remove"} => j.new \in AgentSkills
<1>1. A!Idle.op = "idle"
  BY DEF A!Idle
<1>2. /\ j.of \in A!Agents /\ j.op \in {"persona", "add", "remove"}
      /\ j.op = "persona" => j.new \in Personas
      /\ j.op \in {"add", "remove"} => j.new \in AgentSkills
  BY DEF A!Jobs
<1>3. QED
  BY <1>1, <1>2

\* What is left of a file that is cut is never whole.
LEMMA CutFacts ==
    ASSUME NEW f \in A!Config, NEW x \in A!Cut(f)
    PROVE  x \in A!Files /\ ~ A!Whole(x)
<1>1. CASE x \in {Torn, A!Blank}
  BY <1>1, AgentFacts
<1>2. CASE x = [A!Blank EXCEPT !.cut = "name"]
  <2>1. x = [persona |-> "", skills |-> {}, cut |-> "name"]
    BY <1>2 DEF A!Blank
  <2>2. x \in A!Config /\ x.cut = "name"
    BY <2>1 DEF A!Config
  <2>3. QED
    BY <2>2, AgentFacts DEF A!Whole
<1>3. ASSUME NEW t \in SUBSET f.skills, x = [f EXCEPT !.skills = t, !.cut = "fields"]
      PROVE  x \in A!Files /\ ~ A!Whole(x)
  <2>1. f \in [persona : Personas \cup {""}, skills : SUBSET AgentSkills, cut : {"no", "fields", "name"}]
    BY DEF A!Config
  <2>2. x = [persona |-> f.persona, skills |-> t, cut |-> "fields"]
    BY <1>3, <2>1
  <2>3. x \in A!Config /\ x.cut = "fields"
    BY <2>1, <2>2 DEF A!Config
  <2>4. QED
    BY <2>3, AgentFacts DEF A!Whole
<1>4. QED
  BY <1>1, <1>2, <1>3 DEF A!Cut

\* What a change makes of a configuration.
LEMMA ChangedFacts ==
    ASSUME NEW j \in A!Jobs, NEW f \in A!Config
    PROVE  /\ A!Changed(f, j) \in A!Config /\ A!Changed(f, j).cut = f.cut
           /\ Core \subseteq f.skills /\ ~ A!Protected(j) => Core \subseteq A!Changed(f, j).skills
<1>1. f \in [persona : Personas \cup {""}, skills : SUBSET AgentSkills, cut : {"no", "fields", "name"}]
  BY DEF A!Config
<1>2. ASSUME NEW q \in Personas \cup {""}, NEW t \in SUBSET AgentSkills
      PROVE  /\ [persona |-> q, skills |-> t, cut |-> f.cut] \in A!Config
             /\ [persona |-> q, skills |-> t, cut |-> f.cut].skills = t
             /\ [persona |-> q, skills |-> t, cut |-> f.cut].cut = f.cut
  BY <1>1 DEF A!Config
<1>3. CASE j.op = "persona"
  <2>1. j.new \in Personas
    BY <1>3, JobFacts
  <2>2. A!Changed(f, j) = [persona |-> j.new, skills |-> f.skills, cut |-> f.cut]
    BY <1>1, <1>3 DEF A!Changed
  <2>3. f.skills \in SUBSET AgentSkills /\ j.new \in Personas \cup {""}
    BY <1>1, <2>1
  <2>4. PICK g : g = [persona |-> j.new, skills |-> f.skills, cut |-> f.cut]
    OBVIOUS
  <2>5. g \in A!Config /\ g.skills = f.skills /\ g.cut = f.cut
    BY <1>2, <2>3, <2>4
  <2>6. QED
    BY <2>2, <2>4, <2>5
<1>4. CASE j.op = "add"
  <2>1. PICK more : more = f.skills \cup {j.new}
    OBVIOUS
  <2>2. more \in SUBSET AgentSkills /\ f.persona \in Personas \cup {""}
    BY <1>1, <1>4, <2>1, JobFacts
  <2>3. A!Changed(f, j) = [persona |-> f.persona, skills |-> more, cut |-> f.cut]
    BY <1>1, <1>4, <2>1 DEF A!Changed
  <2>4. Core \subseteq f.skills => Core \subseteq more
    BY <2>1
  <2>5. PICK g : g = [persona |-> f.persona, skills |-> more, cut |-> f.cut]
    OBVIOUS
  <2>6. g \in A!Config /\ g.skills = more /\ g.cut = f.cut
    BY <1>2, <2>2, <2>5
  <2>7. QED
    BY <2>3, <2>4, <2>5, <2>6
<1>5. CASE j.op = "remove"
  <2>1. PICK fewer : fewer = f.skills \ {j.new}
    OBVIOUS
  <2>2. fewer \in SUBSET AgentSkills /\ f.persona \in Personas \cup {""}
    BY <1>1, <2>1
  <2>3. A!Changed(f, j) = [persona |-> f.persona, skills |-> fewer, cut |-> f.cut]
    BY <1>1, <1>5, <2>1 DEF A!Changed
  <2>4. Core \subseteq f.skills /\ ~ A!Protected(j) => Core \subseteq fewer
    BY <1>5, <2>1 DEF A!Protected
  <2>5. QED
    BY <1>2, <2>2, <2>3, <2>4
<1>6. QED
  BY <1>3, <1>4, <1>5, JobFacts

LEMMA AgentsInit == A!Init => AgentInv /\ CoreInv
<1> SUFFICES ASSUME A!Init PROVE AgentInv /\ CoreInv
  OBVIOUS
<1>1. ASSUME NEW a \in A!Agents
      PROVE  /\ agentFile[a] \in A!Config /\ A!Whole(agentFile[a])
             /\ Core \subseteq agentFile[a].skills
  <2>1. agentFile[a] \in {[persona |-> p, skills |-> s, cut |-> "no"] : p \in Personas, s \in {Core, AgentSkills}}
    BY DEF A!Init
  <2>2. PICK p \in Personas, s \in {Core, AgentSkills} : agentFile[a] = [persona |-> p, skills |-> s, cut |-> "no"]
    BY <2>1
  <2>3. s \in SUBSET AgentSkills /\ Core \subseteq s
    BY AgentFacts
  <2> DEFINE g == [persona |-> p, skills |-> s, cut |-> "no"]
  <2>4. g \in A!Config /\ g.cut = "no" /\ g.skills = s
    BY <2>3 DEF A!Config
  <2> HIDE DEF g
  <2>5. agentFile[a] = g
    BY <2>2 DEF g
  <2>6. QED
    BY <2>3, <2>4, <2>5 DEF A!Whole
<1>2. \A a \in A!Agents : /\ agentFile[a] \in A!Config /\ A!Whole(agentFile[a])
                          /\ Core \subseteq agentFile[a].skills
  BY <1>1
<1>3. A!TypeOK
  <2>1. agentFile = [a \in A!Agents |-> agentFile[a]]
    BY DEF A!Init
  <2>2. agentFile \in [A!Agents -> A!Files]
    BY <1>2, <2>1, AgentFacts
  <2>3. QED
    BY <2>2, AgentFacts DEF A!Init, A!TypeOK
<1>4. \A a \in A!Agents : Unconfused(a)
  BY <1>2, AgentFacts DEF A!Init, Unconfused, On
<1>5. CoreInv
  BY <1>2, AgentFacts DEF A!Init, CoreInv, Sound
<1>6. QED
  BY <1>3, <1>4, <1>5 DEF A!Init, AgentInv

\* An agent that a step does not touch.
LEMMA Untouched ==
    ASSUME NEW a \in A!Agents, Unconfused(a),
           agentFile'[a] = agentFile[a], bak'[a] = bak[a], agents'[a] = agents[a],
           \A d \in Callers : /\ On(d, a)' <=> On(d, a)
                              /\ On(d, a) => changeAt'[d] = changeAt[d] /\ ag'[d] = ag[d] /\ copy'[d] = copy[d]
    PROVE  Unconfused(a)'
<1>1. \A f : A!Whole(f)' <=> A!Whole(f)
  BY AgentsFixed DEF AgentConstants, A!Whole
<1>2. ASSUME NEW d \in Callers, On(d, a)' PROVE StageOf(d, a)'
  <2>1. StageOf(d, a) /\ changeAt'[d] = changeAt[d] /\ ag'[d] = ag[d] /\ copy'[d] = copy[d]
    BY <1>2 DEF Unconfused
  <2>2. A!Blank' = A!Blank
    BY AgentsFixed DEF AgentConstants
  <2>3. QED
    BY <1>1, <2>1, <2>2 DEF StageOf
<1>3. QED
  BY <1>2, AgentsFixed DEF AgentConstants, Unconfused, A!Whole

\* A step of one request that changes nothing of other requests and touches the
\* one agent only.
LEMMA OneRequest ==
    ASSUME AgentInv, NEW c \in Callers, NEW o \in A!Agents, confused \subseteq confused', A!TypeOK',
           change' \in [Callers -> A!Jobs \cup {A!Idle}],
           changeAt'[c] # "idle" => ag'[c] \in A!Config,
           \A d \in Callers \ {c} : /\ changeAt'[d] = changeAt[d] /\ change'[d] = change[d]
                                    /\ ag'[d] = ag[d] /\ copy'[d] = copy[d],
           \A a \in A!Agents \ {o} : /\ agentFile'[a] = agentFile[a] /\ bak'[a] = bak[a] /\ agents'[a] = agents[a]
                                     /\ ~ On(c, a) /\ ~ On(c, a)',
           o \notin confused' => Unconfused(o)'
    PROVE  AgentInv'
<1>1. A!Agents' = A!Agents /\ A!Jobs' = A!Jobs /\ A!Idle' = A!Idle
  BY AgentsFixed DEF AgentConstants
<1>2. ASSUME NEW a \in A!Agents \ confused', a # o PROVE Unconfused(a)'
  <2>1. Unconfused(a)
    BY <1>2 DEF AgentInv
  <2>2. \A d \in Callers : /\ On(d, a)' <=> On(d, a)
                           /\ On(d, a) => changeAt'[d] = changeAt[d] /\ ag'[d] = ag[d] /\ copy'[d] = copy[d]
    <3>1. ASSUME NEW d \in Callers, d # c
          PROVE  /\ On(d, a)' <=> On(d, a)
                 /\ changeAt'[d] = changeAt[d] /\ ag'[d] = ag[d] /\ copy'[d] = copy[d]
      BY <3>1 DEF On
    <3>2. ~ On(c, a) /\ ~ On(c, a)'
      BY <1>2
    <3>3. QED
      BY <3>1, <3>2
  <2>3. QED
    BY <1>2, <2>1, <2>2, Untouched
<1>3. \A d \in Callers : changeAt'[d] # "idle" => ag'[d] \in A!Config
  BY DEF AgentInv
<1>4. A!Config' = A!Config
  BY AgentsFixed DEF AgentConstants
<1>5. QED
  BY <1>1, <1>2, <1>3, <1>4 DEF AgentInv

\* What is known of the agent a request changes.
LEMMA Sole ==
    ASSUME AgentInv, NEW c \in Callers, changeAt[c] # "idle"
    PROVE  /\ change[c] \in A!Jobs /\ change[c].of \in A!Agents
           /\ \A a \in A!Agents : On(c, a) => a = change[c].of
           /\ change[c].of \notin confused =>
                /\ Unconfused(change[c].of) /\ StageOf(c, change[c].of)
                /\ \A d \in Callers : On(d, change[c].of) => d = c
<1>1. change[c] \in A!Jobs /\ change[c].of \in A!Agents
  BY JobFacts DEF AgentInv, A!TypeOK
<1>2. change[c].of \notin confused => Unconfused(change[c].of)
  BY <1>1 DEF AgentInv
<1>3. QED
  BY <1>1, <1>2 DEF Unconfused, On

\* What a request writes was read and changed by it.
LEMMA Written ==
    ASSUME AgentInv, NEW c \in Callers, changeAt[c] # "idle"
    PROVE  ag[c] \in A!Config
BY DEF AgentInv

LEMMA LoadStep == ASSUME AgentInv, NEW c \in Callers, NEW j \in A!Jobs, A!Load(c, j) PROVE AgentInv'
<1> DEFINE o == j.of
           new == A!Changed(agentFile[o], j)
<1>1. /\ changeAt[c] = "idle" /\ agentFile[o] \in A!Config /\ ~ A!Protected(j)
      /\ changeAt' = [changeAt EXCEPT ![c] = "backup"] /\ change' = [change EXCEPT ![c] = j]
      /\ ag' = [ag EXCEPT ![c] = new]
      /\ confused' = IF agentFile[o].cut # "no" \/ \E d \in Callers : change[d].of = o
                     THEN confused \cup {o} ELSE confused
      /\ UNCHANGED <<running, agentFile, bak, agents, copy, crashes>>
  BY DEF A!Load, A!Goto
<1>2. new \in A!Config /\ o \in A!Agents /\ j # A!Idle /\ (\A a \in A!Agents : ~ On(c, a))
  BY <1>1, ChangedFacts, JobFacts DEF On
<1> HIDE DEF new
<1>3. A!TypeOK /\ change \in [Callers -> A!Jobs \cup {A!Idle}]
  BY DEF AgentInv
<1>4. A!TypeOK'
  BY <1>1, <1>2, <1>3, AgentsFixed, AgentFacts DEF A!TypeOK, AgentConstants
<1>5. /\ changeAt'[c] = "backup" /\ change'[c] = j /\ ag'[c] = new
      /\ \A d \in Callers \ {c} : changeAt'[d] = changeAt[d] /\ change'[d] = change[d] /\ ag'[d] = ag[d]
  BY <1>1, <1>3 DEF A!TypeOK, AgentInv
<1>6. ASSUME o \notin confused' PROVE Unconfused(o)'
  <2>1. /\ Unconfused(o) /\ agentFile[o].cut = "no" /\ o \notin confused
        /\ \A d \in Callers : ~ On(d, o)
    BY <1>1, <1>2, <1>6 DEF AgentInv, On
  <2>2. new.cut = "no"
    BY <1>1, <2>1, ChangedFacts DEF new
  <2>4. \A d \in Callers : On(d, o)' => d = c
    BY <1>5, <2>1 DEF On
  <2>5. StageOf(c, o)'
    BY <1>1, <1>2, <1>5, <2>1, <2>2, AgentsFixed DEF StageOf, A!Whole, AgentConstants
  <2>6. QED
    BY <1>1, <1>5, <2>1, <2>4, <2>5, AgentsFixed DEF Unconfused, A!Whole, AgentConstants, On
<1>7. \A a \in A!Agents \ {o} : ~ On(c, a)'
  BY <1>5 DEF On
<1>8. confused \subseteq confused'
  BY <1>1
<1>9. QED
  BY <1>1, <1>2, <1>3, <1>4, <1>5, <1>6, <1>7, <1>8, OneRequest

\* A request goes on to its next place, or its change ends.
LEMMA Going ==
    ASSUME AgentInv, NEW c \in Callers, changeAt[c] # "idle",
           NEW next \in {"copy", "save", "write", "register"},
           \/ A!Goto(c, next) /\ UNCHANGED <<change, ag>> /\ copy' \in {copy, [copy EXCEPT ![c] = agentFile[change[c].of]]}
           \/ A!Return(c)
    PROVE  /\ changeAt' \in [Callers -> {"idle", "backup", "copy", "save", "write", "register"}]
           /\ ag' \in [Callers -> A!Entries] /\ copy' \in [Callers -> A!Files]
           /\ change' \in [Callers -> A!Jobs \cup {A!Idle}]
           /\ changeAt'[c] # "idle" => ag'[c] \in A!Config
           /\ \A d \in Callers : changeAt'[d] = "idle" <=> change'[d] = A!Idle
           /\ \A d \in Callers \ {c} : /\ changeAt'[d] = changeAt[d] /\ change'[d] = change[d]
                                       /\ ag'[d] = ag[d] /\ copy'[d] = copy[d]
           /\ \A a \in A!Agents \ {change[c].of} : ~ On(c, a) /\ ~ On(c, a)'
           /\ A!Return(c) => changeAt'[c] = "idle" /\ \A a \in A!Agents : ~ On(c, a)'
           /\ A!Goto(c, next) => changeAt'[c] = next
<1>1. /\ A!TypeOK /\ change \in [Callers -> A!Jobs \cup {A!Idle}] /\ ag[c] \in A!Config
      /\ change[c].of \in A!Agents /\ change[c] # A!Idle
  BY Sole, JobFacts DEF AgentInv
<1>2. CASE A!Goto(c, next) /\ UNCHANGED <<change, ag>>
           /\ copy' \in {copy, [copy EXCEPT ![c] = agentFile[change[c].of]]}
  <2>1. /\ changeAt' = [changeAt EXCEPT ![c] = next] /\ UNCHANGED <<change, ag>>
        /\ copy' \in [Callers -> A!Files]
        /\ \A d \in Callers \ {c} : copy'[d] = copy[d]
    BY <1>1, <1>2 DEF A!Goto, A!TypeOK
  <2>2. changeAt'[c] = next /\ \A d \in Callers \ {c} : changeAt'[d] = changeAt[d]
    BY <1>1, <2>1 DEF A!TypeOK
  <2>3. \A a \in A!Agents \ {change[c].of} : ~ On(c, a) /\ ~ On(c, a)'
    BY <2>1 DEF On
  <2>4. ~ A!Return(c)
    BY <1>1, <2>2 DEF A!Return, A!Goto, A!TypeOK
  <2>5. QED
    BY <1>1, <2>1, <2>2, <2>3, <2>4 DEF A!TypeOK
<1>3. CASE A!Return(c)
  <2>1. /\ changeAt' = [changeAt EXCEPT ![c] = "idle"] /\ change' = [change EXCEPT ![c] = A!Idle]
        /\ ag' = [ag EXCEPT ![c] = Missing] /\ copy' = [copy EXCEPT ![c] = Missing]
    BY <1>3 DEF A!Return, A!Goto
  <2>2. changeAt'[c] = "idle" /\ \A d \in Callers \ {c} : changeAt'[d] = changeAt[d]
    BY <1>1, <2>1 DEF A!TypeOK
  <2>3. \A a \in A!Agents : ~ On(c, a)'
    BY <2>2 DEF On
  <2>4. \A a \in A!Agents \ {change[c].of} : ~ On(c, a)
    BY DEF On
  <2>5. ~ A!Goto(c, next)
    BY <1>1, <2>2 DEF A!Goto, A!TypeOK
  <2>6. Missing \in A!Entries /\ Missing \in A!Files
    BY AgentFacts
  <2>7. change' \in [Callers -> A!Jobs \cup {A!Idle}] /\ change'[c] = A!Idle
        /\ \A d \in Callers \ {c} : change'[d] = change[d]
    BY <1>1, <2>1
  <2>8. ag' \in [Callers -> A!Entries] /\ copy' \in [Callers -> A!Files]
        /\ \A d \in Callers \ {c} : ag'[d] = ag[d] /\ copy'[d] = copy[d]
    BY <1>1, <2>1, <2>6 DEF A!TypeOK
  <2>9. QED
    BY <1>1, <2>1, <2>2, <2>3, <2>4, <2>5, <2>7, <2>8 DEF A!TypeOK
<1>4. QED
  BY <1>2, <1>3

LEMMA BackupStep == ASSUME AgentInv, NEW c \in Callers, A!Backup(c) PROVE AgentInv'
<1>1. PICK o \in A!Agents : o = change[c].of
  BY Sole DEF A!Backup, A!At
<1>2. /\ changeAt[c] = "backup"
      /\ \/ /\ A!Goto(c, "copy") /\ copy' = [copy EXCEPT ![c] = agentFile[o]]
            /\ bak' = [bak EXCEPT ![o] = Torn] /\ UNCHANGED <<change, ag>>
         \/ A!Return(c) /\ bak' = bak
      /\ UNCHANGED <<running, agentFile, agents, confused>>
  BY <1>1 DEF A!Backup, A!At
<1>3. A!TypeOK
  BY DEF AgentInv
<1>4. /\ change' \in [Callers -> A!Jobs \cup {A!Idle}]
      /\ changeAt'[c] # "idle" => ag'[c] \in A!Config
      /\ \A d \in Callers \ {c} : /\ changeAt'[d] = changeAt[d] /\ change'[d] = change[d]
                                  /\ ag'[d] = ag[d] /\ copy'[d] = copy[d]
      /\ \A a \in A!Agents \ {o} : ~ On(c, a) /\ ~ On(c, a)'
  BY <1>1, <1>2, Going
<1>5. A!TypeOK'
  BY <1>1, <1>2, <1>3, Going, AgentsFixed, AgentFacts DEF A!TypeOK, AgentConstants
<1>6. ASSUME o \notin confused PROVE Unconfused(o)'
  <2>1. /\ Unconfused(o) /\ StageOf(c, o) /\ \A d \in Callers : On(d, o) => d = c
    BY <1>1, <1>2, <1>6, Sole
  <2>2. \A d \in Callers : On(d, o)' => d = c
    BY <1>4, <2>1 DEF On
  <2>3. On(c, o)
    BY <1>1, <1>2 DEF On
  <2>4. CASE /\ A!Goto(c, "copy") /\ copy' = [copy EXCEPT ![c] = agentFile[o]]
             /\ bak' = [bak EXCEPT ![o] = Torn] /\ UNCHANGED <<change, ag>>
    <3>1. changeAt'[c] = "copy" /\ copy'[c] = agentFile[o]
      BY <1>3, <2>4 DEF A!Goto, A!TypeOK
    <3>2. On(c, o)'
      BY <1>1, <2>4, <3>1 DEF On
    <3>3. StageOf(c, o)'
      BY <1>2, <2>1, <2>4, <3>1, AgentsFixed DEF StageOf, A!Whole, AgentConstants
    <3>4. A!Whole(agentFile[o])
      BY <1>2, <2>1 DEF StageOf
    <3>5. QED
      BY <1>2, <2>1, <2>2, <2>3, <3>1, <3>2, <3>3, <3>4, AgentsFixed DEF Unconfused, A!Whole, AgentConstants
  <2>5. CASE A!Return(c) /\ bak' = bak
    <3>1. \A d \in Callers : ~ On(d, o)'
      BY <1>1, <1>2, <2>2, <2>5, Going
    <3>2. QED
      BY <1>2, <2>1, <2>3, <2>5, <3>1, AgentsFixed DEF Unconfused, A!Whole, AgentConstants
  <2>6. QED
    BY <1>2, <2>4, <2>5
<1>7. \A a \in A!Agents \ {o} : bak'[a] = bak[a]
  BY <1>2, <1>3 DEF A!TypeOK
<1>8. QED
  BY <1>1, <1>2, <1>4, <1>5, <1>6, <1>7, OneRequest

LEMMA CopyFileStep == ASSUME AgentInv, NEW c \in Callers, A!CopyFile(c) PROVE AgentInv'
<1>1. PICK o \in A!Agents : o = change[c].of
  BY Sole DEF A!CopyFile, A!At
<1>2. /\ changeAt[c] = "copy"
      /\ \/ /\ A!Goto(c, "save") /\ bak' = [bak EXCEPT ![o] = copy[c]] /\ UNCHANGED <<change, ag, copy>>
         \/ A!Return(c) /\ bak' = bak
      /\ UNCHANGED <<running, agentFile, agents, confused>>
  BY <1>1 DEF A!CopyFile, A!At
<1>3. A!TypeOK /\ copy[c] \in A!Files
  BY DEF AgentInv, A!TypeOK
<1>4. /\ change' \in [Callers -> A!Jobs \cup {A!Idle}]
      /\ changeAt'[c] # "idle" => ag'[c] \in A!Config
      /\ \A d \in Callers \ {c} : /\ changeAt'[d] = changeAt[d] /\ change'[d] = change[d]
                                  /\ ag'[d] = ag[d] /\ copy'[d] = copy[d]
      /\ \A a \in A!Agents \ {o} : ~ On(c, a) /\ ~ On(c, a)'
  BY <1>1, <1>2, Going
<1>5. A!TypeOK'
  BY <1>1, <1>2, <1>3, Going, AgentsFixed, AgentFacts DEF A!TypeOK, AgentConstants
<1>6. ASSUME o \notin confused PROVE Unconfused(o)'
  <2>1. /\ Unconfused(o) /\ StageOf(c, o) /\ \A d \in Callers : On(d, o) => d = c
    BY <1>1, <1>2, <1>6, Sole
  <2>2. \A d \in Callers : On(d, o)' => d = c
    BY <1>4, <2>1 DEF On
  <2>3. On(c, o)
    BY <1>1, <1>2 DEF On
  <2>4. CASE A!Goto(c, "save") /\ bak' = [bak EXCEPT ![o] = copy[c]] /\ UNCHANGED <<change, ag, copy>>
    <3>1. changeAt'[c] = "save" /\ bak'[o] = copy[c]
      BY <1>2, <1>3, <2>4 DEF A!Goto, A!TypeOK
    <3>2. On(c, o)'
      BY <1>1, <2>4, <3>1 DEF On
    <3>3. QED
      BY <1>2, <2>1, <2>2, <2>3, <2>4, <3>1, <3>2, AgentsFixed DEF Unconfused, StageOf, A!Whole, AgentConstants
  <2>5. CASE A!Return(c) /\ bak' = bak
    <3>1. \A d \in Callers : ~ On(d, o)'
      BY <1>1, <1>2, <2>2, <2>5, Going
    <3>2. QED
      BY <1>2, <2>1, <2>3, <2>5, <3>1, AgentsFixed DEF Unconfused, StageOf, A!Whole, AgentConstants
  <2>6. QED
    BY <1>2, <2>4, <2>5
<1>7. \A a \in A!Agents \ {o} : bak'[a] = bak[a]
  BY <1>2, <1>3 DEF A!TypeOK
<1>8. QED
  BY <1>1, <1>2, <1>4, <1>5, <1>6, <1>7, OneRequest

LEMMA SaveStep == ASSUME AgentInv, NEW c \in Callers, A!Save(c) PROVE AgentInv'
<1>1. PICK o \in A!Agents : o = change[c].of
  BY Sole DEF A!Save, A!At
<1>2. /\ changeAt[c] = "save"
      /\ \/ /\ A!Goto(c, "write") /\ agentFile' = [agentFile EXCEPT ![o] = A!Blank]
            /\ UNCHANGED <<change, ag, copy>>
         \/ A!Return(c) /\ agentFile' = agentFile
      /\ UNCHANGED <<running, bak, agents, confused>>
  BY <1>1 DEF A!Save, A!At
<1>3. A!TypeOK
  BY DEF AgentInv
<1>4. /\ change' \in [Callers -> A!Jobs \cup {A!Idle}]
      /\ changeAt'[c] # "idle" => ag'[c] \in A!Config
      /\ \A d \in Callers \ {c} : /\ changeAt'[d] = changeAt[d] /\ change'[d] = change[d]
                                  /\ ag'[d] = ag[d] /\ copy'[d] = copy[d]
      /\ \A a \in A!Agents \ {o} : ~ On(c, a) /\ ~ On(c, a)'
  BY <1>1, <1>2, Going
<1>5. A!TypeOK'
  BY <1>1, <1>2, <1>3, Going, AgentsFixed, AgentFacts DEF A!TypeOK, AgentConstants
<1>6. ASSUME o \notin confused PROVE Unconfused(o)'
  <2>1. /\ Unconfused(o) /\ StageOf(c, o) /\ \A d \in Callers : On(d, o) => d = c
    BY <1>1, <1>2, <1>6, Sole
  <2>2. \A d \in Callers : On(d, o)' => d = c
    BY <1>4, <2>1 DEF On
  <2>3. On(c, o)
    BY <1>1, <1>2 DEF On
  <2>4. CASE /\ A!Goto(c, "write") /\ agentFile' = [agentFile EXCEPT ![o] = A!Blank]
             /\ UNCHANGED <<change, ag, copy>>
    <3>1. changeAt'[c] = "write" /\ agentFile'[o] = A!Blank
      BY <1>3, <2>4 DEF A!Goto, A!TypeOK
    <3>2. QED
      BY <1>2, <2>1, <2>2, <2>3, <2>4, <3>1, AgentFacts, AgentsFixed
         DEF Unconfused, StageOf, A!Whole, AgentConstants
  <2>5. CASE A!Return(c) /\ agentFile' = agentFile
    <3>1. \A d \in Callers : ~ On(d, o)'
      BY <1>1, <1>2, <2>2, <2>5, Going
    <3>2. QED
      BY <1>2, <2>1, <2>3, <2>5, <3>1, AgentsFixed DEF Unconfused, A!Whole, AgentConstants
  <2>6. QED
    BY <1>2, <2>4, <2>5
<1>7. \A a \in A!Agents \ {o} : agentFile'[a] = agentFile[a]
  BY <1>2, <1>3 DEF A!TypeOK
<1>8. QED
  BY <1>1, <1>2, <1>4, <1>5, <1>6, <1>7, OneRequest

\* What is left of the file a request writes.
LEMMA Remains ==
    ASSUME AgentInv, NEW c \in Callers, changeAt[c] \in {"write", "register"}, NEW f \in A!Cut(ag[c])
    PROVE  f \in A!Files /\ ~ A!Whole(f)
BY Written, CutFacts

LEMMA WriteFileStep == ASSUME AgentInv, NEW c \in Callers, A!WriteFile(c) PROVE AgentInv'
<1>1. PICK o \in A!Agents : o = change[c].of
  BY Sole DEF A!WriteFile, A!At
<1>2. /\ changeAt[c] = "write"
      /\ \/ /\ A!Goto(c, "register") /\ agentFile' = [agentFile EXCEPT ![o] = ag[c]]
            /\ UNCHANGED <<change, ag, copy>>
         \/ A!Return(c) /\ \E f \in A!Cut(ag[c]) : agentFile' = [agentFile EXCEPT ![o] = f]
      /\ UNCHANGED <<running, bak, agents, confused>>
  BY <1>1 DEF A!WriteFile, A!At
<1>3. A!TypeOK /\ ag[c] \in A!Files
  BY AgentFacts DEF AgentInv, A!TypeOK
<1>4. /\ change' \in [Callers -> A!Jobs \cup {A!Idle}]
      /\ changeAt'[c] # "idle" => ag'[c] \in A!Config
      /\ \A d \in Callers \ {c} : /\ changeAt'[d] = changeAt[d] /\ change'[d] = change[d]
                                  /\ ag'[d] = ag[d] /\ copy'[d] = copy[d]
      /\ \A a \in A!Agents \ {o} : ~ On(c, a) /\ ~ On(c, a)'
  BY <1>1, <1>2, Going
<1>5. A!TypeOK'
  <2>1. agentFile' \in [A!Agents -> A!Files]
    BY <1>2, <1>3, Remains DEF A!TypeOK
  <2>2. QED
    BY <1>1, <1>2, <1>3, <2>1, Going, AgentsFixed, AgentFacts DEF A!TypeOK, AgentConstants
<1>6. ASSUME o \notin confused PROVE Unconfused(o)'
  <2>1. /\ Unconfused(o) /\ StageOf(c, o) /\ \A d \in Callers : On(d, o) => d = c
    BY <1>1, <1>2, <1>6, Sole
  <2>2. \A d \in Callers : On(d, o)' => d = c
    BY <1>4, <2>1 DEF On
  <2>3. CASE A!Goto(c, "register") /\ agentFile' = [agentFile EXCEPT ![o] = ag[c]] /\ UNCHANGED <<change, ag, copy>>
    <3>1. changeAt'[c] = "register" /\ agentFile'[o] = ag[c]
      BY <1>1, <1>2, <1>3, <2>3 DEF A!Goto, A!TypeOK
    <3>2. On(c, o)'
      BY <1>1, <2>3, <3>1 DEF On
    <3>3. QED
      BY <1>2, <2>1, <2>2, <2>3, <3>1, <3>2, AgentsFixed DEF Unconfused, StageOf, A!Whole, AgentConstants
  <2>4. ASSUME A!Return(c), NEW f \in A!Cut(ag[c]), agentFile' = [agentFile EXCEPT ![o] = f]
        PROVE  Unconfused(o)'
    <3>1. \A d \in Callers : ~ On(d, o)'
      BY <1>1, <1>2, <2>2, <2>4, Going
    <3>2. A!Whole(bak[o])
      BY <1>2, <2>1 DEF StageOf
    <3>3. agentFile'[o] = f /\ ~ A!Whole(f)
      BY <1>2, <1>3, <2>4, Remains DEF A!TypeOK
    <3>4. QED
      BY <1>2, <3>1, <3>2, <3>3, AgentsFixed DEF Unconfused, A!Whole, AgentConstants
  <2>5. QED
    BY <1>2, <2>3, <2>4
<1>7. \A a \in A!Agents \ {o} : agentFile'[a] = agentFile[a]
  BY <1>2, <1>3 DEF A!TypeOK
<1>8. QED
  BY <1>1, <1>2, <1>4, <1>5, <1>6, <1>7, OneRequest

LEMMA RegisterStep == ASSUME AgentInv, NEW c \in Callers, A!Register(c) PROVE AgentInv'
<1>1. PICK o \in A!Agents : o = change[c].of
  BY Sole DEF A!Register, A!At
<1>2. /\ changeAt[c] = "register" /\ A!Return(c)
      /\ agents' = IF A!Named(ag[c]) THEN [agents EXCEPT ![o] = ag[c]] ELSE agents
      /\ UNCHANGED <<running, agentFile, bak, confused>>
  BY <1>1 DEF A!Register, A!At
<1>3. A!TypeOK /\ (A!Named(ag[c]) => agents'[o] = ag[c])
  BY <1>1, <1>2 DEF AgentInv, A!TypeOK
<1>4. /\ change' \in [Callers -> A!Jobs \cup {A!Idle}]
      /\ changeAt'[c] # "idle" => ag'[c] \in A!Config
      /\ \A d \in Callers \ {c} : /\ changeAt'[d] = changeAt[d] /\ change'[d] = change[d]
                                  /\ ag'[d] = ag[d] /\ copy'[d] = copy[d]
      /\ \A a \in A!Agents \ {o} : ~ On(c, a) /\ ~ On(c, a)'
  BY <1>1, <1>2, Going
<1>5. A!TypeOK'
  BY <1>1, <1>2, <1>3, Going, AgentsFixed, AgentFacts DEF A!TypeOK, AgentConstants
<1>6. ASSUME o \notin confused PROVE Unconfused(o)'
  <2>1. /\ Unconfused(o) /\ StageOf(c, o) /\ \A d \in Callers : On(d, o) => d = c
    BY <1>1, <1>2, <1>6, Sole
  <2>2. \A d \in Callers : ~ On(d, o)'
    BY <1>1, <1>2, <1>4, <2>1, Going DEF On
  <2>3. agentFile[o] = ag[c] /\ agents'[o] = ag[c]
    BY <1>2, <1>3, <2>1 DEF StageOf, A!Whole, A!Named
  <2>4. QED
    BY <1>2, <2>1, <2>2, <2>3, AgentsFixed DEF Unconfused, A!Whole, AgentConstants
<1>7. \A a \in A!Agents \ {o} : agents'[a] = agents[a]
  BY <1>2, <1>3 DEF A!TypeOK
<1>8. QED
  BY <1>1, <1>2, <1>4, <1>5, <1>6, <1>7, OneRequest

\* What is registered at the start is what a file holds that can be read.
LEMMA StartUpStep == ASSUME AgentInv, A!Start PROVE AgentInv'
<1>1. A!TypeOK /\ agents' = A!Loaded /\ running' = TRUE
      /\ UNCHANGED <<agentFile, bak, changeAt, change, ag, copy, confused>>
  BY DEF A!Start, AgentInv
<1>2. ASSUME NEW a \in A!Agents
      PROVE  agents'[a] = Missing \/ (agents'[a] = agentFile[a] /\ agentFile[a] \in A!Config)
  BY <1>1 DEF A!Loaded, A!Named
<1>3. agents' \in [A!Agents -> A!Entries]
  <2>1. agents' = [a \in A!Agents |-> agents'[a]]
    BY <1>1 DEF A!Loaded
  <2>2. \A a \in A!Agents : agents'[a] \in A!Entries
    BY <1>1, <1>2, AgentFacts DEF A!TypeOK
  <2>3. QED
    BY <2>1, <2>2
<1>4. A!TypeOK'
  BY <1>1, <1>3, AgentsFixed DEF A!TypeOK, AgentConstants
<1>5. ASSUME NEW a \in A!Agents \ confused PROVE Unconfused(a)'
  <2>1. Unconfused(a)
    BY DEF AgentInv
  <2>2. \A c \in Callers : On(c, a)' <=> On(c, a)
    BY <1>1 DEF On
  <2>3. \A c \in Callers : On(c, a) => StageOf(c, a)'
    BY <1>1, <2>1, AgentsFixed DEF Unconfused, StageOf, A!Whole, AgentConstants
  <2>4. QED
    BY <1>1, <1>2, <2>1, <2>2, <2>3, AgentsFixed DEF Unconfused, A!Whole, AgentConstants
<1>6. QED
  BY <1>1, <1>4, <1>5, AgentsFixed DEF AgentInv, AgentConstants

LEMMA CrashStep == ASSUME AgentInv, A!Crash PROVE AgentInv'
<1>1. /\ A!TypeOK /\ running' = FALSE /\ agents' = [a \in A!Agents |-> Missing]
      /\ changeAt' = [c \in Callers |-> "idle"] /\ change' = [c \in Callers |-> A!Idle]
      /\ ag' = [c \in Callers |-> Missing] /\ copy' = [c \in Callers |-> Missing]
      /\ UNCHANGED <<bak, confused>>
      /\ \/ agentFile' = agentFile
         \/ \E c \in Callers : changeAt[c] = "write" /\ \E f \in A!Cut(ag[c]) : agentFile' = [agentFile EXCEPT ![change[c].of] = f]
  BY DEF A!Crash, AgentInv
<1>2. agentFile' \in [A!Agents -> A!Files]
  BY <1>1, Remains DEF A!TypeOK
<1>3. A!TypeOK'
  BY <1>1, <1>2, AgentFacts, AgentsFixed DEF A!TypeOK, AgentConstants
<1>4. change' \in [Callers -> A!Jobs \cup {A!Idle}]
  BY <1>1
<1>5. ASSUME NEW a \in A!Agents \ confused PROVE Unconfused(a)'
  <2>1. Unconfused(a)
    BY DEF AgentInv
  <2>2. \A c \in Callers : ~ On(c, a)'
    BY <1>1 DEF On
  <2>3. agentFile'[a] = agentFile[a] \/ (~ A!Whole(agentFile'[a]) /\ A!Whole(bak[a]))
    <3>1. CASE agentFile' = agentFile
      BY <3>1
    <3>2. ASSUME NEW c \in Callers, changeAt[c] = "write", NEW f \in A!Cut(ag[c]),
                 agentFile' = [agentFile EXCEPT ![change[c].of] = f]
          PROVE  agentFile'[a] = agentFile[a] \/ (~ A!Whole(agentFile'[a]) /\ A!Whole(bak[a]))
      <4>1. change[c].of \in A!Agents
        BY <3>2, Sole
      <4>2. CASE change[c].of = a
        <5>1. A!Whole(bak[a])
          BY <2>1, <3>2, <4>2 DEF Unconfused, On, StageOf
        <5>2. ~ A!Whole(f)
          BY <3>2, Remains
        <5>3. QED
          BY <1>1, <3>2, <4>2, <5>1, <5>2 DEF A!TypeOK
      <4>3. CASE change[c].of # a
        BY <1>1, <3>2, <4>1, <4>3 DEF A!TypeOK
      <4>4. QED
        BY <4>2, <4>3
    <3>3. QED
      BY <1>1, <3>1, <3>2
  <2>4. agents'[a] = Missing
    BY <1>1
  <2>5. QED
    BY <1>1, <2>1, <2>2, <2>3, <2>4, AgentFacts, AgentsFixed DEF Unconfused, A!Whole, AgentConstants
<1>6. QED
  BY <1>1, <1>3, <1>4, <1>5, AgentsFixed DEF AgentInv, AgentConstants

LEMMA AgentsStep == ASSUME AgentInv, [A!Next]_A!vars PROVE AgentInv'
<1>1. CASE UNCHANGED A!vars
  <2>1. UNCHANGED <<running, agentFile, bak, agents, changeAt, change, ag, copy, confused>>
    BY <1>1 DEF A!vars
  <2>2. A!TypeOK' /\ change' \in [Callers -> A!Jobs \cup {A!Idle}]
    BY <2>1, AgentsFixed DEF AgentInv, A!TypeOK, AgentConstants
  <2>3. \A a \in A!Agents \ confused : Unconfused(a)'
    BY <2>1, Untouched DEF AgentInv, On
  <2>4. QED
    BY <2>1, <2>2, <2>3, AgentsFixed DEF AgentInv, AgentConstants
<1>2. QED
  BY <1>1, StartUpStep, CrashStep, LoadStep, BackupStep, CopyFileStep, SaveStep, WriteFileStep, RegisterStep
     DEF A!Next

\* Whatever is confused or cut, what is not cut has the core skills.
LEMMA CoreStep == ASSUME AgentInv, CoreInv, [A!Next]_A!vars PROVE CoreInv'
<1>0. /\ A!Agents' = A!Agents /\ (\A f : Sound(f)' <=> Sound(f)) /\ \A f : A!Whole(f)' <=> A!Whole(f)
  BY AgentsFixed DEF AgentConstants, Sound, A!Whole
<1>1. A!TypeOK /\ change \in [Callers -> A!Jobs \cup {A!Idle}]
  BY DEF AgentInv
<1>2. Sound(Missing) /\ Sound(A!Blank)
  BY AgentFacts DEF Sound
<1>3. ASSUME NEW c \in Callers, A!Return(c) PROVE \A d \in Callers : Sound(ag'[d])
  BY <1>1, <1>2, <1>3 DEF A!Return, CoreInv, A!TypeOK
<1>4. ASSUME NEW c \in Callers, NEW j \in A!Jobs, A!Load(c, j) PROVE CoreInv'
  <2>1. /\ agentFile[j.of] \in A!Config /\ ~ A!Protected(j) /\ j.of \in A!Agents
        /\ ag' = [ag EXCEPT ![c] = A!Changed(agentFile[j.of], j)] /\ UNCHANGED <<agentFile, agents>>
    BY <1>4, JobFacts DEF A!Load
  <2>2. Sound(A!Changed(agentFile[j.of], j))
    BY <2>1, ChangedFacts DEF CoreInv, Sound, A!Whole
  <2>3. QED
    BY <1>0, <1>1, <2>1, <2>2 DEF CoreInv, A!TypeOK
<1>5. ASSUME NEW c \in Callers, A!Backup(c) \/ A!CopyFile(c) PROVE CoreInv'
  BY <1>0, <1>3, <1>5 DEF A!Backup, A!CopyFile, CoreInv
<1>6. ASSUME NEW c \in Callers, A!Save(c) PROVE CoreInv'
  <2>1. change[c].of \in A!Agents
    BY <1>6, Sole DEF A!Save, A!At
  <2>2. /\ agents' = agents
        /\ \/ ag' = ag /\ agentFile' = [agentFile EXCEPT ![change[c].of] = A!Blank]
           \/ A!Return(c) /\ agentFile' = agentFile
    BY <1>6 DEF A!Save
  <2>3. QED
    BY <1>0, <1>1, <1>2, <1>3, <2>1, <2>2 DEF CoreInv, A!TypeOK
<1>7. ASSUME NEW c \in Callers, A!WriteFile(c) PROVE CoreInv'
  <2>1. change[c].of \in A!Agents /\ changeAt[c] = "write"
    BY <1>7, Sole DEF A!WriteFile, A!At
  <2>2. /\ agents' = agents
        /\ \/ ag' = ag /\ agentFile' = [agentFile EXCEPT ![change[c].of] = ag[c]]
           \/ A!Return(c) /\ \E f \in A!Cut(ag[c]) : agentFile' = [agentFile EXCEPT ![change[c].of] = f]
    BY <1>7 DEF A!WriteFile
  <2>3. \A f \in A!Cut(ag[c]) : Sound(f)
    BY <2>1, Remains DEF Sound
  <2>4. QED
    BY <1>0, <1>1, <1>3, <2>1, <2>2, <2>3 DEF CoreInv, A!TypeOK
<1>8. ASSUME NEW c \in Callers, A!Register(c) PROVE CoreInv'
  <2>1. change[c].of \in A!Agents
    BY <1>8, Sole DEF A!Register, A!At
  <2>2. /\ A!Return(c) /\ agentFile' = agentFile
        /\ agents' = agents \/ agents' = [agents EXCEPT ![change[c].of] = ag[c]]
    BY <1>8 DEF A!Register
  <2>3. QED
    BY <1>0, <1>1, <1>3, <2>1, <2>2 DEF CoreInv, A!TypeOK
<1>9. CASE A!Start
  <2>1. UNCHANGED <<agentFile, ag>> /\ \A a \in A!Agents : agents'[a] \in {Missing, agentFile[a]}
    BY <1>9 DEF A!Start, A!Loaded
  <2>2. QED
    BY <1>0, <1>2, <2>1 DEF CoreInv
<1>10. CASE A!Crash
  <2>1. /\ \A a \in A!Agents : agents'[a] = Missing
        /\ \A c \in Callers : ag'[c] = Missing
        /\ \/ agentFile' = agentFile
           \/ \E c \in Callers : changeAt[c] = "write" /\ \E f \in A!Cut(ag[c]) : agentFile' = [agentFile EXCEPT ![change[c].of] = f]
    BY <1>10 DEF A!Crash
  <2>2. ASSUME NEW c \in Callers, changeAt[c] = "write", NEW f \in A!Cut(ag[c]),
               agentFile' = [agentFile EXCEPT ![change[c].of] = f]
        PROVE  \A a \in A!Agents : Sound(agentFile'[a])
    <3>1. Sound(f)
      BY <2>2, Remains DEF Sound
    <3>2. QED
      BY <1>1, <2>2, <3>1 DEF CoreInv, A!TypeOK
  <2>3. \A a \in A!Agents : Sound(agentFile'[a])
    BY <2>1, <2>2 DEF CoreInv
  <2>4. QED
    BY <1>0, <1>2, <2>1, <2>3 DEF CoreInv
<1>11. CASE UNCHANGED A!vars
  BY <1>0, <1>11 DEF A!vars, CoreInv
<1>12. QED
  BY <1>4, <1>5, <1>6, <1>7, <1>8, <1>9, <1>10, <1>11 DEF A!Next

LEMMA AgentsSurviving == A!Spec => []A!TypeOK /\ []A!AgentSurvives
<1>1. ASSUME AgentInv, CoreInv PROVE A!AgentSurvives
  <2>2. ASSUME NEW a \in A!Agents, A!Get(a).cut = "no" PROVE Core \subseteq A!Offered(a)
    <3>1. Core \subseteq A!Get(a).skills
      <4>1. CASE agents[a] # Missing
        BY <1>1, <2>2, <4>1, AgentFacts DEF A!Get, Sound, AgentInv, A!TypeOK, CoreInv, A!Whole
      <4>2. CASE agents[a] = Missing /\ "default" \in A!Agents /\ agents["default"] # Missing
        BY <1>1, <2>2, <4>2, AgentFacts DEF A!Get, Sound, AgentInv, A!TypeOK, CoreInv, A!Whole
      <4>3. CASE agents[a] = Missing /\ ~ ("default" \in A!Agents /\ agents["default"] # Missing)
        BY <4>3 DEF A!Get, A!DefaultAgent
      <4>4. QED
        BY <4>1, <4>2, <4>3
    <3>2. QED
      BY <3>1, AgentFacts DEF A!Offered
  <2>3. ASSUME NEW a \in A!Agents \ confused
        PROVE  /\ A!Whole(agentFile[a]) \/ A!Whole(bak[a])
               /\ (\A c \in Callers : change[c].of # a) /\ A!Whole(agentFile[a]) /\ agents[a] # Missing =>
                    agents[a] = agentFile[a]
    BY <1>1 DEF AgentInv, Unconfused, On
  <2>4. QED
    BY <2>2, <2>3 DEF A!AgentSurvives
<1>2. AgentInv => A!TypeOK
  BY DEF AgentInv
<1>3. QED
  BY <1>1, <1>2, AgentsInit, AgentsStep, CoreStep, PTL DEF A!Spec

-----------------------------------------------------------------------------
(* Skills.  Who changes a custom skill or a plugin has left the disk and the  *)
(* registry as its place says; where nobody does, they agree.                *)

Places == {"idle", "write", "register", "unregister", "enlist", "remove", "delist", "list", "call"}
OpAt == [idle |-> "idle", write |-> "create", register |-> "create", unregister |-> "delete",
         enlist |-> "install", remove |-> "remove", delist |-> "remove", list |-> "connect", call |-> "call"]

Edits(c, n) == pc[c] \in {"write", "register", "unregister"} /\ job[c].on = n
Moves(c, p) == pc[c] \in {"enlist", "remove", "delist"} /\ job[c].on = p

\* The registry agrees with the file.
Agrees(n) ==
    \/ registry[n] = Custom(files[n])
    \/ registry[n].from # "custom" /\ (files[n] = None \/ n \in Later)

Catalogued(n) ==
    /\ \A c, d \in Callers : Edits(c, n) /\ Edits(d, n) => c = d
    /\ \A c \in Callers : Edits(c, n) =>
         /\ pc[c] = "write" => files[n] = Torn
         /\ pc[c] = "register" => files[n] = job[c].v
         /\ pc[c] = "unregister" => files[n] = None
    /\ up /\ (\A c \in Callers : ~ Edits(c, n)) /\ files[n] # Torn => Agrees(n)

\* Some skill in the registry is run in the plugin's directory.
PluginRegistered(p) == \E n \in Names : registry[n].from = "plugin" /\ registry[n].v = p

\* What is listed has a directory, and what has a whole one is listed; a directory
\* that lost part of its files is, if its skill was registered.
PluginListed(p) ==
    /\ plugins[p] # None => dirs[p] # None
    /\ dirs[p] \in Versions \/ (PluginRegistered(p) /\ dirs[p] # None) => plugins[p] # None

Installed(p) ==
    /\ \A c, d \in Callers : Moves(c, p) /\ Moves(d, p) => c = d
    /\ \A c \in Callers : Moves(c, p) =>
         /\ pc[c] = "enlist" => dirs[p] # None
         /\ pc[c] = "remove" => plugins[p] # None
         /\ pc[c] = "delist" => dirs[p] = None
    /\ up /\ (\A c \in Callers : Moves(c, p) => pc[c] = "remove") => PluginListed(p)

SkillsInv ==
    /\ TypeOK
    /\ pc \in [Callers -> Places]
    /\ \A c \in Callers : /\ job[c].op = OpAt[pc[c]]
                          /\ pc[c] \in {"write", "register", "enlist"} => job[c].v \in Versions
    /\ ~ up => mixed = {} /\ \A c \in Callers : pc[c] = "idle"
    /\ \A n \in CustomNames \ mixed : Catalogued(n)
    /\ \A p \in Plugins \ mixed : Installed(p)

SkillConstants == <<Jobs, Impl, Idle, Later, Places, OpAt, Nothing, Program, Outcomes>>

LEMMA SkillsFixed == UNCHANGED SkillConstants
BY DEF SkillConstants, Jobs, Impl, Idle, Later, Places, OpAt, Nothing, Program, Outcomes

LEMMA SkillFacts ==
    /\ CustomNames \subseteq Names /\ IsFiniteSet(Servers) /\ AutoStart \subseteq Servers
    /\ SkillOf \in [Plugins -> Names] /\ ToolOf \in [Servers -> Names]
    /\ None \notin Versions /\ Torn \notin Versions /\ None # Torn /\ MaxSessions \in Nat
BY CatalogAssumption DEF SkillsAssumption

LEMMA OpFacts ==
    /\ OpAt["idle"] = "idle" /\ OpAt["write"] = "create" /\ OpAt["register"] = "create"
    /\ OpAt["unregister"] = "delete" /\ OpAt["enlist"] = "install" /\ OpAt["delist"] = "remove"
    /\ OpAt["remove"] = "remove"
    /\ OpAt["list"] = "connect" /\ OpAt["call"] = "call"
BY DEF OpAt

\* What is at work.
LEMMA WorkFacts ==
    ASSUME NEW j \in Jobs
    PROVE  /\ j.op \in {"create", "delete"} => j.on \in CustomNames
           /\ j.op \in {"install", "remove"} => j.on \in Plugins
           /\ j.op \in {"connect", "call"} => j.on \in Servers /\ j.v \in 1..MaxSessions
           /\ j # Idle => j.op \in {"create", "delete", "install", "remove", "connect", "call"}
BY DEF Jobs, Idle

LEMMA NewWork ==
    /\ \A op \in {"create", "delete"}, n \in CustomNames, v \in Versions \cup {None} :
         LET j == [op |-> op, on |-> n, v |-> v] IN j \in Jobs /\ j # Idle /\ j.on = n /\ j.v = v /\ j.op = op
    /\ \A op \in {"install", "remove"}, p \in Plugins, v \in Versions \cup {None} :
         LET j == [op |-> op, on |-> p, v |-> v] IN j \in Jobs /\ j # Idle /\ j.on = p /\ j.v = v /\ j.op = op
    /\ \A op \in {"connect", "call"}, s \in Servers, v \in 1..MaxSessions :
         LET j == [op |-> op, on |-> s, v |-> v] IN j \in Jobs /\ j # Idle /\ j.on = s /\ j.v = v /\ j.op = op
    /\ Idle \in Jobs /\ Idle.op = "idle"
<1>1. \A op \in {"create", "delete", "install", "remove", "connect", "call"} : \A x, v :
        [op |-> op, on |-> x, v |-> v] # Idle
  <2>1. Idle.op = "idle"
    BY DEF Idle
  <2>2. SUFFICES ASSUME NEW op \in {"create", "delete", "install", "remove", "connect", "call"}, NEW x, NEW v
                 PROVE  [op |-> op, on |-> x, v |-> v] # Idle
    OBVIOUS
  <2>3. [op |-> op, on |-> x, v |-> v].op = op
    OBVIOUS
  <2>4. QED
    BY <2>1, <2>3
<1>2. QED
  BY <1>1 DEF Jobs, Idle

LEMMA SkillsInit == Init => SkillsInv
<1> SUFFICES ASSUME Init PROVE SkillsInv
  OBVIOUS
<1>1. TypeOK
  <2>1. Nothing \in Impl /\ [skill |-> "none", outcome |-> "none"] \in [skill : Names \cup {"none", "mcp_call"}, outcome : Outcomes]
    BY DEF Impl, Nothing, Outcomes
  <2>2. registry \in [Names -> Impl] /\ job \in [Callers -> Jobs]
    BY <2>1, NewWork DEF Init
  <2>3. /\ result \in [skill : Names \cup {"none", "mcp_call"}, outcome : Outcomes]
        /\ \A c \in Callers : pc[c] = "idle" <=> job[c] = Idle
    BY <2>1 DEF Init
  <2>4. /\ files \in [CustomNames -> Versions \cup {None, Torn}] /\ up \in BOOLEAN
        /\ dirs \in [Plugins -> Versions \cup {None, Torn}] /\ plugins \in [Plugins -> Versions \cup {None}]
        /\ sessions \in [Servers -> 1..MaxSessions \cup {None}]
    BY DEF Init
  <2>5. made \in 0..MaxSessions /\ open \subseteq 1..made
    BY SkillFacts DEF Init
  <2>6. QED
    BY <2>2, <2>3, <2>4, <2>5 DEF TypeOK
<1>2. pc \in [Callers -> Places] /\ \A c \in Callers : job[c].op = OpAt[pc[c]]
  BY NewWork, OpFacts DEF Init, Places
<1>3. QED
  BY <1>1, <1>2 DEF Init, SkillsInv, Catalogued, Installed, Edits, Moves

\* A step of one request: the skills and plugins it does not change stay as they are.
LEMMA ByOne ==
    ASSUME SkillsInv, NEW c \in Callers, TypeOK', pc' \in [Callers -> Places],
           job'[c].op = OpAt[pc'[c]], pc'[c] \in {"write", "register", "enlist"} => job'[c].v \in Versions,
           up, up' = up, mixed \subseteq mixed',
           registry' = registry \/ \A p \in Plugins : PluginRegistered(p)' => PluginRegistered(p),
           \A d \in Callers \ {c} : pc'[d] = pc[d] /\ job'[d] = job[d],
           \A n \in CustomNames \ mixed' :
              \/ Catalogued(n)'
              \/ files'[n] = files[n] /\ registry'[n] = registry[n] /\ ~ Edits(c, n) /\ ~ Edits(c, n)',
           \A p \in Plugins \ mixed' :
              \/ Installed(p)'
              \/ dirs'[p] = dirs[p] /\ plugins'[p] = plugins[p] /\ ~ Moves(c, p) /\ ~ Moves(c, p)'
    PROVE  SkillsInv'
<1>1. ASSUME NEW n \in CustomNames \ mixed', files'[n] = files[n], registry'[n] = registry[n],
             ~ Edits(c, n), ~ Edits(c, n)'
      PROVE  Catalogued(n)'
  <2>1. Catalogued(n)
    BY DEF SkillsInv
  <2>2. \A d \in Callers : /\ Edits(d, n)' <=> Edits(d, n)
                           /\ Edits(d, n) => pc'[d] = pc[d] /\ job'[d] = job[d]
    BY <1>1 DEF Edits
  <2>3. Agrees(n)' <=> Agrees(n)
    BY <1>1, SkillsFixed DEF Agrees, Custom, SkillConstants
  <2>4. QED
    BY <1>1, <2>1, <2>2, <2>3 DEF Catalogued
<1>2. ASSUME NEW p \in Plugins \ mixed', dirs'[p] = dirs[p], plugins'[p] = plugins[p],
             ~ Moves(c, p), ~ Moves(c, p)'
      PROVE  Installed(p)'
  <2>1. Installed(p)
    BY DEF SkillsInv
  <2>2. \A d \in Callers : /\ Moves(d, p)' <=> Moves(d, p)
                           /\ Moves(d, p) => pc'[d] = pc[d]
    BY <1>2 DEF Moves
  <2>3. PluginRegistered(p)' => PluginRegistered(p)
    BY DEF PluginRegistered
  <2>4. QED
    BY <1>2, <2>1, <2>2, <2>3 DEF Installed, PluginListed
<1>3. \A d \in Callers : /\ job'[d].op = OpAt[pc'[d]]
                         /\ pc'[d] \in {"write", "register", "enlist"} => job'[d].v \in Versions
  BY DEF SkillsInv
<1>4. QED
  BY <1>1, <1>2, <1>3, SkillsFixed DEF SkillsInv, SkillConstants

\* What is the same for whatever a request begins.
LEMMA BeginFacts ==
    ASSUME SkillsInv, NEW c \in Callers, NEW what \in Jobs, what # Idle, NEW l \in Places \ {"idle"},
           Begin(c, what), Goto(c, l)
    PROVE  /\ pc[c] = "idle" /\ pc'[c] = l /\ job'[c] = what
           /\ pc' \in [Callers -> Places] /\ job' \in [Callers -> Jobs]
           /\ \A d \in Callers : pc'[d] = "idle" <=> job'[d] = Idle
           /\ \A d \in Callers \ {c} : pc'[d] = pc[d] /\ job'[d] = job[d]
           /\ up' = up /\ up /\ result' = result /\ mixed \subseteq mixed'
           /\ \A x : ~ Edits(c, x) /\ ~ Moves(c, x)
           /\ what.on \notin mixed' => what.on \notin mixed /\ \A d \in Callers : job[d].on # what.on
<1>1. /\ pc \in [Callers -> Places] /\ job \in [Callers -> Jobs] /\ \A d \in Callers : pc[d] = "idle" <=> job[d] = Idle
  BY DEF SkillsInv, TypeOK
<1>2. /\ pc[c] = "idle" /\ pc' = [pc EXCEPT ![c] = l] /\ job' = [job EXCEPT ![c] = what]
      /\ up' = up /\ up /\ result' = result
      /\ mixed' = IF Busy(what.on) THEN mixed \cup {what.on} ELSE mixed
  BY DEF Begin, Goto
<1>3. \A x : ~ Edits(c, x) /\ ~ Moves(c, x)
  BY <1>2 DEF Edits, Moves
<1>4. what.on \notin mixed' => what.on \notin mixed /\ \A d \in Callers : job[d].on # what.on
  BY <1>2 DEF Busy
<1>5. QED
  BY <1>1, <1>2, <1>3, <1>4

\* What is the same for whatever a request ends.
LEMMA ReturnFacts ==
    ASSUME SkillsInv, NEW c \in Callers, Return(c)
    PROVE  /\ pc'[c] = "idle" /\ job'[c] = Idle
           /\ pc' \in [Callers -> Places] /\ job' \in [Callers -> Jobs]
           /\ \A d \in Callers : pc'[d] = "idle" <=> job'[d] = Idle
           /\ \A d \in Callers \ {c} : pc'[d] = pc[d] /\ job'[d] = job[d]
           /\ job'[c].op = OpAt[pc'[c]]
           /\ \A x : ~ Edits(c, x)' /\ ~ Moves(c, x)'
<1>1. /\ pc \in [Callers -> Places] /\ job \in [Callers -> Jobs] /\ \A d \in Callers : pc[d] = "idle" <=> job[d] = Idle
  BY DEF SkillsInv, TypeOK
<1>2. pc' = [pc EXCEPT ![c] = "idle"] /\ job' = [job EXCEPT ![c] = Idle]
  BY DEF Return, Goto
<1>3. pc'[c] = "idle" /\ job'[c] = Idle
  BY <1>1, <1>2
<1>4. \A x : ~ Edits(c, x)' /\ ~ Moves(c, x)'
  BY <1>3 DEF Edits, Moves
<1>5. "idle" \in Places /\ Idle \in Jobs
  BY NewWork DEF Places
<1>6. QED
  BY <1>1, <1>2, <1>3, <1>4, <1>5, NewWork, OpFacts

\* A caller at work is at work on something of its kind.
LEMMA AtWork ==
    ASSUME SkillsInv, NEW c \in Callers
    PROVE  /\ TypeOK /\ job[c] \in Jobs
           /\ pc[c] \in {"write", "register", "unregister"} => job[c].on \in CustomNames
           /\ pc[c] \in {"enlist", "remove", "delist"} => job[c].on \in Plugins
           /\ pc[c] \in {"list", "call"} => job[c].on \in Servers /\ job[c].v \in 1..MaxSessions
           /\ \A x : Edits(c, x) => x = job[c].on /\ pc[c] \in {"write", "register", "unregister"}
           /\ \A x : Moves(c, x) => x = job[c].on /\ pc[c] \in {"enlist", "remove", "delist"}
<1>1. TypeOK /\ job[c] \in Jobs /\ job[c].op = OpAt[pc[c]]
  BY DEF SkillsInv, TypeOK
<1>2. \A x : Edits(c, x) => x = job[c].on /\ pc[c] \in {"write", "register", "unregister"}
  BY DEF Edits
<1>3. \A x : Moves(c, x) => x = job[c].on /\ pc[c] \in {"enlist", "remove", "delist"}
  BY DEF Moves
<1>4. QED
  BY <1>1, <1>2, <1>3, WorkFacts, OpFacts

LEMMA CreateStep ==
    ASSUME SkillsInv, NEW c \in Callers, NEW n \in CustomNames, NEW v \in Versions, Create(c, n, v)
    PROVE  SkillsInv'
<1> DEFINE what == [op |-> "create", on |-> n, v |-> v]
<1>1. what \in Jobs /\ what # Idle /\ what.on = n /\ what.v = v /\ what.op = "create"
  BY NewWork
<1>2. /\ Begin(c, what) /\ Goto(c, "write") /\ files' = [files EXCEPT ![n] = Torn]
      /\ UNCHANGED <<registry, plugins, sessions, dirs, made, open>>
  BY DEF Create, memory
<1> HIDE DEF what
<1>3. "write" \in Places \ {"idle"}
  BY DEF Places
<1>4. /\ pc[c] = "idle" /\ pc'[c] = "write" /\ job'[c] = what
      /\ pc' \in [Callers -> Places] /\ job' \in [Callers -> Jobs]
      /\ \A d \in Callers : pc'[d] = "idle" <=> job'[d] = Idle
      /\ \A d \in Callers \ {c} : pc'[d] = pc[d] /\ job'[d] = job[d]
      /\ up' = up /\ up /\ result' = result /\ mixed \subseteq mixed'
      /\ \A x : ~ Edits(c, x) /\ ~ Moves(c, x)
      /\ n \notin mixed' => n \notin mixed /\ \A d \in Callers : job[d].on # n
  BY <1>1, <1>2, <1>3, BeginFacts
<1>5. TypeOK
  BY DEF SkillsInv
<1>6. TypeOK'
  BY <1>2, <1>4, <1>5, SkillsFixed DEF TypeOK, SkillConstants
<1>7. ASSUME n \notin mixed' PROVE Catalogued(n)'
  <2>1. \A d \in Callers : Edits(d, n)' => d = c
    BY <1>4, <1>7 DEF Edits
  <2>2. files'[n] = Torn /\ Edits(c, n)'
    BY <1>1, <1>2, <1>4, <1>5 DEF TypeOK, Edits
  <2>3. QED
    BY <1>4, <2>1, <2>2 DEF Catalogued
<1>8. \A m \in CustomNames \ {n} : files'[m] = files[m] /\ ~ Edits(c, m)'
  BY <1>1, <1>2, <1>4, <1>5 DEF TypeOK, Edits
<1>9. \A p : ~ Moves(c, p)'
  BY <1>4 DEF Moves
<1>10. QED
  BY <1>1, <1>2, <1>4, <1>6, <1>7, <1>8, <1>9, OpFacts, ByOne

LEMMA DeleteStep ==
    ASSUME SkillsInv, NEW c \in Callers, NEW n \in CustomNames, Delete(c, n)
    PROVE  SkillsInv'
<1> DEFINE what == [op |-> "delete", on |-> n, v |-> None]
<1>1. what \in Jobs /\ what # Idle /\ what.on = n /\ what.v = None /\ what.op = "delete"
  BY NewWork
<1>2. /\ Begin(c, what) /\ Goto(c, "unregister") /\ files' = [files EXCEPT ![n] = None]
      /\ UNCHANGED <<registry, plugins, sessions, dirs, made, open>>
  BY DEF Delete, memory
<1> HIDE DEF what
<1>3. "unregister" \in Places \ {"idle"}
  BY DEF Places
<1>4. /\ pc[c] = "idle" /\ pc'[c] = "unregister" /\ job'[c] = what
      /\ pc' \in [Callers -> Places] /\ job' \in [Callers -> Jobs]
      /\ \A d \in Callers : pc'[d] = "idle" <=> job'[d] = Idle
      /\ \A d \in Callers \ {c} : pc'[d] = pc[d] /\ job'[d] = job[d]
      /\ up' = up /\ up /\ result' = result /\ mixed \subseteq mixed'
      /\ \A x : ~ Edits(c, x) /\ ~ Moves(c, x)
      /\ n \notin mixed' => n \notin mixed /\ \A d \in Callers : job[d].on # n
  BY <1>1, <1>2, <1>3, BeginFacts
<1>5. TypeOK
  BY DEF SkillsInv
<1>6. TypeOK'
  BY <1>2, <1>4, <1>5, SkillsFixed, SkillFacts DEF TypeOK, SkillConstants
<1>7. ASSUME n \notin mixed' PROVE Catalogued(n)'
  <2>1. \A d \in Callers : Edits(d, n)' => d = c
    BY <1>4, <1>7 DEF Edits
  <2>2. files'[n] = None /\ Edits(c, n)'
    BY <1>1, <1>2, <1>4, <1>5 DEF TypeOK, Edits
  <2>3. QED
    BY <1>4, <2>1, <2>2 DEF Catalogued
<1>8. \A m \in CustomNames \ {n} : files'[m] = files[m] /\ ~ Edits(c, m)'
  BY <1>1, <1>2, <1>4, <1>5 DEF TypeOK, Edits
<1>9. \A p : ~ Moves(c, p)'
  BY <1>4 DEF Moves
<1>10. QED
  BY <1>1, <1>2, <1>4, <1>6, <1>7, <1>8, <1>9, OpFacts, ByOne

LEMMA InstallStep ==
    ASSUME SkillsInv, NEW c \in Callers, NEW p \in Plugins, NEW v \in Versions, Install(c, p, v)
    PROVE  SkillsInv'
<1> DEFINE what == [op |-> "install", on |-> p, v |-> v]
<1>1. what \in Jobs /\ what # Idle /\ what.on = p /\ what.v = v /\ what.op = "install"
  BY NewWork
<1>2. /\ Begin(c, what) /\ Goto(c, "enlist") /\ dirs' = [dirs EXCEPT ![p] = IF @ = None THEN v ELSE @]
      /\ UNCHANGED <<registry, plugins, sessions, files, made, open>>
  BY DEF Install, memory
<1> HIDE DEF what
<1>3. "enlist" \in Places \ {"idle"}
  BY DEF Places
<1>4. /\ pc[c] = "idle" /\ pc'[c] = "enlist" /\ job'[c] = what
      /\ pc' \in [Callers -> Places] /\ job' \in [Callers -> Jobs]
      /\ \A d \in Callers : pc'[d] = "idle" <=> job'[d] = Idle
      /\ \A d \in Callers \ {c} : pc'[d] = pc[d] /\ job'[d] = job[d]
      /\ up' = up /\ up /\ result' = result /\ mixed \subseteq mixed'
      /\ \A x : ~ Edits(c, x) /\ ~ Moves(c, x)
      /\ p \notin mixed' => p \notin mixed /\ \A d \in Callers : job[d].on # p
  BY <1>1, <1>2, <1>3, BeginFacts
<1>5. TypeOK
  BY DEF SkillsInv
<1>6. TypeOK'
  BY <1>2, <1>4, <1>5, SkillsFixed, SkillFacts DEF TypeOK, SkillConstants
<1>7. ASSUME p \notin mixed' PROVE Installed(p)'
  <2>1. \A d \in Callers : Moves(d, p)' => d = c
    BY <1>4, <1>7 DEF Moves
  <2>2. dirs'[p] # None /\ Moves(c, p)'
    BY <1>1, <1>2, <1>4, <1>5, SkillFacts DEF TypeOK, Moves
  <2>3. QED
    BY <1>4, <2>1, <2>2 DEF Installed
<1>8. \A q \in Plugins \ {p} : dirs'[q] = dirs[q] /\ ~ Moves(c, q)'
  BY <1>1, <1>2, <1>4, <1>5 DEF TypeOK, Moves
<1>9. \A n : ~ Edits(c, n)'
  BY <1>4 DEF Edits
<1>10. QED
  BY <1>1, <1>2, <1>4, <1>6, <1>7, <1>8, <1>9, OpFacts, ByOne

LEMMA RemoveStep ==
    ASSUME SkillsInv, NEW c \in Callers, NEW p \in Plugins, Remove(c, p)
    PROVE  SkillsInv'
<1> DEFINE what == [op |-> "remove", on |-> p, v |-> None]
<1>1. what \in Jobs /\ what # Idle /\ what.on = p /\ what.v = None /\ what.op = "remove"
  BY NewWork
<1>2. /\ plugins[p] # None /\ Begin(c, what) /\ Goto(c, "remove")
      /\ UNCHANGED <<registry, plugins, sessions, files, dirs, made, open>>
  BY DEF Remove, memory, disk
<1> HIDE DEF what
<1>3. "remove" \in Places \ {"idle"}
  BY DEF Places
<1>4. /\ pc[c] = "idle" /\ pc'[c] = "remove" /\ job'[c] = what
      /\ pc' \in [Callers -> Places] /\ job' \in [Callers -> Jobs]
      /\ \A d \in Callers : pc'[d] = "idle" <=> job'[d] = Idle
      /\ \A d \in Callers \ {c} : pc'[d] = pc[d] /\ job'[d] = job[d]
      /\ up' = up /\ up /\ result' = result /\ mixed \subseteq mixed'
      /\ \A x : ~ Edits(c, x) /\ ~ Moves(c, x)
      /\ p \notin mixed' => p \notin mixed /\ \A d \in Callers : job[d].on # p
  BY <1>1, <1>2, <1>3, BeginFacts
<1>5. TypeOK
  BY DEF SkillsInv
<1>6. TypeOK'
  BY <1>2, <1>4, <1>5, SkillsFixed, SkillFacts DEF TypeOK, SkillConstants
<1>7. ASSUME p \notin mixed' PROVE Installed(p)'
  <2>1. \A d \in Callers : Moves(d, p)' => d = c
    BY <1>4, <1>7 DEF Moves
  <2>2. Installed(p) /\ \A d \in Callers : ~ Moves(d, p)
    BY <1>4, <1>7 DEF SkillsInv, Moves
  <2>3. PluginListed(p)
    BY <1>4, <2>2 DEF Installed
  <2>4. PluginListed(p)'
    BY <1>2, <2>3 DEF PluginListed, PluginRegistered
  <2>5. QED
    BY <1>2, <1>4, <2>1, <2>4 DEF Installed
<1>8. \A q \in Plugins \ {p} : dirs'[q] = dirs[q] /\ ~ Moves(c, q)'
  BY <1>1, <1>2, <1>4 DEF Moves
<1>9. \A n : ~ Edits(c, n)'
  BY <1>4 DEF Edits
<1>10. QED
  BY <1>1, <1>2, <1>4, <1>6, <1>7, <1>8, <1>9, OpFacts, ByOne

LEMMA ConnectStep == ASSUME SkillsInv, NEW c \in Callers, NEW s \in Servers, Connect(c, s) PROVE SkillsInv'
<1> DEFINE what == [op |-> "connect", on |-> s, v |-> made']
<1>0. made' \in 1..MaxSessions /\ made' = made + 1 /\ open' = open \cup {made'} /\ made \in Nat
  BY SkillFacts DEF Connect, Opened, SkillsInv, TypeOK
<1>1. what \in Jobs /\ what # Idle /\ what.on = s /\ what.op = "connect"
  BY <1>0, NewWork
<1>2. Begin(c, what) /\ Goto(c, "list") /\ UNCHANGED <<registry, plugins, sessions, dirs, files>>
  BY DEF Connect, memory, disk
<1> HIDE DEF what
<1>3. "list" \in Places \ {"idle"}
  BY DEF Places
<1>4. /\ pc[c] = "idle" /\ pc'[c] = "list" /\ job'[c] = what
      /\ pc' \in [Callers -> Places] /\ job' \in [Callers -> Jobs]
      /\ \A d \in Callers : pc'[d] = "idle" <=> job'[d] = Idle
      /\ \A d \in Callers \ {c} : pc'[d] = pc[d] /\ job'[d] = job[d]
      /\ up' = up /\ up /\ result' = result /\ mixed \subseteq mixed'
      /\ \A x : ~ Edits(c, x) /\ ~ Moves(c, x)
      /\ s \notin mixed' => s \notin mixed /\ \A d \in Callers : job[d].on # s
  BY <1>1, <1>2, <1>3, BeginFacts
<1>5. TypeOK
  BY DEF SkillsInv
<1>6. TypeOK'
  BY <1>0, <1>2, <1>4, <1>5, SkillsFixed, SkillFacts DEF TypeOK, SkillConstants
<1>7. \A x : ~ Edits(c, x)' /\ ~ Moves(c, x)'
  BY <1>4 DEF Edits, Moves
<1>8. QED
  BY <1>1, <1>2, <1>4, <1>6, <1>7, OpFacts, ByOne

LEMMA CallStep == ASSUME SkillsInv, NEW c \in Callers, NEW s \in Servers, Call(c, s) PROVE SkillsInv'
<1> DEFINE what == [op |-> "call", on |-> s, v |-> sessions[s]]
<1>0. sessions[s] \in 1..MaxSessions
  BY DEF Call, SkillsInv, TypeOK
<1>1. what \in Jobs /\ what # Idle /\ what.on = s /\ what.op = "call"
  BY <1>0, NewWork
<1>2. Begin(c, what) /\ Goto(c, "call") /\ UNCHANGED <<registry, plugins, sessions, dirs, files, made, open>>
  BY DEF Call, memory, disk
<1> HIDE DEF what
<1>3. "call" \in Places \ {"idle"}
  BY DEF Places
<1>4. /\ pc[c] = "idle" /\ pc'[c] = "call" /\ job'[c] = what
      /\ pc' \in [Callers -> Places] /\ job' \in [Callers -> Jobs]
      /\ \A d \in Callers : pc'[d] = "idle" <=> job'[d] = Idle
      /\ \A d \in Callers \ {c} : pc'[d] = pc[d] /\ job'[d] = job[d]
      /\ up' = up /\ up /\ result' = result /\ mixed \subseteq mixed'
      /\ \A x : ~ Edits(c, x) /\ ~ Moves(c, x)
      /\ s \notin mixed' => s \notin mixed /\ \A d \in Callers : job[d].on # s
  BY <1>1, <1>2, <1>3, BeginFacts
<1>5. TypeOK
  BY DEF SkillsInv
<1>6. TypeOK'
  BY <1>2, <1>4, <1>5, SkillsFixed, SkillFacts DEF TypeOK, SkillConstants
<1>7. \A x : ~ Edits(c, x)' /\ ~ Moves(c, x)'
  BY <1>4 DEF Edits, Moves
<1>8. QED
  BY <1>1, <1>2, <1>4, <1>6, <1>7, OpFacts, ByOne

LEMMA WriteStep == ASSUME SkillsInv, NEW c \in Callers, WriteFile(c) PROVE SkillsInv'
<1>1. PICK n : n = job[c].on
  OBVIOUS
<1>2. /\ pc[c] = "write" /\ up /\ UNCHANGED <<up, registry, plugins, sessions, dirs, made, open, mixed, result>>
      /\ \/ Goto(c, "register") /\ files' = [files EXCEPT ![n] = job[c].v] /\ job' = job
         \/ Return(c) /\ files' = files
  BY <1>1 DEF WriteFile, At, memory
<1>3. /\ TypeOK /\ job[c] \in Jobs /\ n \in CustomNames /\ job[c].v \in Versions
      /\ job[c].op = "create" /\ pc \in [Callers -> Places]
  BY <1>1, <1>2, AtWork, OpFacts DEF SkillsInv
<1>4. CASE Goto(c, "register") /\ files' = [files EXCEPT ![n] = job[c].v] /\ job' = job
  <2>1. /\ pc' = [pc EXCEPT ![c] = "register"] /\ pc'[c] = "register" /\ pc' \in [Callers -> Places]
        /\ \A d \in Callers \ {c} : pc'[d] = pc[d]
    BY <1>3, <1>4 DEF Goto, Places
  <2>2. TypeOK'
    BY <1>2, <1>3, <1>4, <2>1, SkillsFixed DEF TypeOK, SkillConstants
  <2>3. ASSUME n \notin mixed PROVE Catalogued(n)'
    <3>1. Catalogued(n) /\ Edits(c, n) /\ Edits(c, n)'
      BY <1>1, <1>2, <1>3, <1>4, <2>1, <2>3 DEF SkillsInv, Edits
    <3>2. \A d \in Callers : Edits(d, n)' => d = c
      BY <1>4, <2>1, <3>1 DEF Catalogued, Edits
    <3>3. files'[n] = job'[c].v
      BY <1>3, <1>4 DEF TypeOK
    <3>4. QED
      BY <2>1, <3>1, <3>2, <3>3 DEF Catalogued
  <2>4. \A m \in CustomNames \ {n} : files'[m] = files[m] /\ ~ Edits(c, m) /\ ~ Edits(c, m)'
    BY <1>1, <1>3, <1>4 DEF TypeOK, Edits
  <2>5. \A p : ~ Moves(c, p) /\ ~ Moves(c, p)'
    BY <1>2, <2>1 DEF Moves
  <2>6. QED
    BY <1>2, <1>3, <1>4, <2>1, <2>2, <2>3, <2>4, <2>5, OpFacts, ByOne
<1>5. CASE Return(c) /\ files' = files
  <2>1. /\ pc'[c] = "idle" /\ job'[c] = Idle
        /\ pc' \in [Callers -> Places] /\ job' \in [Callers -> Jobs]
        /\ \A d \in Callers : pc'[d] = "idle" <=> job'[d] = Idle
        /\ \A d \in Callers \ {c} : pc'[d] = pc[d] /\ job'[d] = job[d]
        /\ job'[c].op = OpAt[pc'[c]]
        /\ \A x : ~ Edits(c, x)' /\ ~ Moves(c, x)'
    BY <1>5, ReturnFacts
  <2>2. TypeOK'
    BY <1>2, <1>3, <1>5, <2>1, SkillsFixed DEF TypeOK, SkillConstants
  <2>3. ASSUME n \notin mixed PROVE Catalogued(n)'
    <3>1. Catalogued(n) /\ Edits(c, n)
      BY <1>1, <1>2, <1>3, <2>3 DEF SkillsInv, Edits
    <3>2. \A d \in Callers : ~ Edits(d, n)'
      BY <2>1, <3>1 DEF Catalogued, Edits
    <3>3. files'[n] = Torn
      BY <1>2, <1>5, <3>1 DEF Catalogued
    <3>4. QED
      BY <3>2, <3>3 DEF Catalogued
  <2>4. \A m \in CustomNames \ {n} : files'[m] = files[m] /\ ~ Edits(c, m)
    BY <1>1, <1>5 DEF Edits
  <2>5. \A p : ~ Moves(c, p)
    BY <1>2 DEF Moves
  <2>6. QED
    BY <1>2, <1>3, <1>5, <2>1, <2>2, <2>3, <2>4, <2>5, ByOne
<1>6. QED
  BY <1>2, <1>4, <1>5

LEMMA RegisterCustomSkillStep == ASSUME SkillsInv, NEW c \in Callers, RegisterCustomSkill(c) PROVE SkillsInv'
<1>1. PICK x : x = job[c].on
  OBVIOUS
<1>2. /\ pc[c] = "register" /\ up /\ Return(c) /\ registry' = [registry EXCEPT ![x] = Custom(job[c].v)]
      /\ UNCHANGED <<up, plugins, sessions, files, dirs, made, open, mixed, result>>
  BY <1>1 DEF RegisterCustomSkill, At, disk
<1>3. TypeOK /\ job[c] \in Jobs /\ x \in CustomNames
  BY <1>1, <1>2, AtWork
<1>4. /\ pc'[c] = "idle" /\ job'[c] = Idle
      /\ pc' \in [Callers -> Places] /\ job' \in [Callers -> Jobs]
      /\ \A d \in Callers : pc'[d] = "idle" <=> job'[d] = Idle
      /\ \A d \in Callers \ {c} : pc'[d] = pc[d] /\ job'[d] = job[d]
      /\ job'[c].op = OpAt[pc'[c]]
      /\ \A y : ~ Edits(c, y)' /\ ~ Moves(c, y)'
  BY <1>2, ReturnFacts
<1>5. TypeOK'
  BY <1>2, <1>3, <1>4, SkillsFixed, SkillFacts DEF TypeOK, SkillConstants, Impl, Nothing, Custom, SkillsInv
<1>6. ASSUME x \notin mixed PROVE Catalogued(x)'
  <2>1. Catalogued(x) /\ Edits(c, x)
    BY <1>1, <1>2, <1>3, <1>6 DEF SkillsInv, Edits
  <2>2. \A d \in Callers : ~ Edits(d, x)'
    BY <1>4, <2>1 DEF Catalogued, Edits
  <2>3. files'[x] = job[c].v
    BY <1>1, <1>2, <2>1 DEF Catalogued
  <2>4. registry'[x] = Custom(files'[x])
    BY <1>2, <1>3, <2>3, SkillFacts DEF TypeOK
  <2>5. Agrees(x)'
    BY <2>4 DEF Agrees
  <2>6. QED
    BY <2>2, <2>5 DEF Catalogued
<1>7. \A y \in CustomNames \ {x} : registry'[y] = registry[y] /\ ~ Edits(c, y)
  BY <1>1, <1>2, <1>3 DEF TypeOK, Edits
<1>8. \A y : ~ Moves(c, y)
  BY <1>2 DEF Moves
<1>9. \A p \in Plugins : PluginRegistered(p)' => PluginRegistered(p)
  BY <1>2, <1>3 DEF TypeOK, PluginRegistered, Custom, Nothing
<1>10. QED
  BY <1>2, <1>4, <1>5, <1>6, <1>7, <1>8, <1>9, ByOne

LEMMA UnregisterStep == ASSUME SkillsInv, NEW c \in Callers, Unregister(c) PROVE SkillsInv'
<1>1. PICK x : x = job[c].on
  OBVIOUS
<1>2. /\ pc[c] = "unregister" /\ up /\ Return(c) /\ registry' = [registry EXCEPT ![x] = Nothing]
      /\ UNCHANGED <<up, plugins, sessions, files, dirs, made, open, mixed, result>>
  BY <1>1 DEF Unregister, At, disk
<1>3. TypeOK /\ job[c] \in Jobs /\ x \in CustomNames
  BY <1>1, <1>2, AtWork
<1>4. /\ pc'[c] = "idle" /\ job'[c] = Idle
      /\ pc' \in [Callers -> Places] /\ job' \in [Callers -> Jobs]
      /\ \A d \in Callers : pc'[d] = "idle" <=> job'[d] = Idle
      /\ \A d \in Callers \ {c} : pc'[d] = pc[d] /\ job'[d] = job[d]
      /\ job'[c].op = OpAt[pc'[c]]
      /\ \A y : ~ Edits(c, y)' /\ ~ Moves(c, y)'
  BY <1>2, ReturnFacts
<1>5. TypeOK'
  BY <1>2, <1>3, <1>4, SkillsFixed, SkillFacts DEF TypeOK, SkillConstants, Impl, Nothing, Custom, SkillsInv
<1>6. ASSUME x \notin mixed PROVE Catalogued(x)'
  <2>1. Catalogued(x) /\ Edits(c, x)
    BY <1>1, <1>2, <1>3, <1>6 DEF SkillsInv, Edits
  <2>2. \A d \in Callers : ~ Edits(d, x)'
    BY <1>4, <2>1 DEF Catalogued, Edits
  <2>3. files'[x] = None
    BY <1>1, <1>2, <2>1 DEF Catalogued
  <2>4. registry'[x] = Nothing /\ Nothing.from = "nothing"
    BY <1>2, <1>3, <2>3, SkillFacts DEF TypeOK, Nothing
  <2>5. Agrees(x)'
    BY <2>3, <2>4 DEF Agrees
  <2>6. QED
    BY <2>2, <2>5 DEF Catalogued
<1>7. \A y \in CustomNames \ {x} : registry'[y] = registry[y] /\ ~ Edits(c, y)
  BY <1>1, <1>2, <1>3 DEF TypeOK, Edits
<1>8. \A y : ~ Moves(c, y)
  BY <1>2 DEF Moves
<1>9. \A p \in Plugins : PluginRegistered(p)' => PluginRegistered(p)
  BY <1>2, <1>3 DEF TypeOK, PluginRegistered, Custom, Nothing
<1>10. QED
  BY <1>2, <1>4, <1>5, <1>6, <1>7, <1>8, <1>9, ByOne

LEMMA EnlistStep == ASSUME SkillsInv, NEW c \in Callers, Enlist(c) PROVE SkillsInv'
<1>1. PICK x : x = job[c].on
  OBVIOUS
<1>2. /\ pc[c] = "enlist" /\ up /\ Return(c)
      /\ \/ plugins' = [plugins EXCEPT ![x] = job[c].v] /\ mixed' = mixed
         \/ plugins' = plugins /\ mixed' = mixed \cup {x}
      /\ UNCHANGED <<up, registry, sessions, files, dirs, made, open, result>>
  BY <1>1 DEF Enlist, disk
<1>3. TypeOK /\ job[c] \in Jobs /\ x \in Plugins
  BY <1>1, <1>2, AtWork
<1>4. /\ pc'[c] = "idle" /\ job'[c] = Idle
      /\ pc' \in [Callers -> Places] /\ job' \in [Callers -> Jobs]
      /\ \A d \in Callers : pc'[d] = "idle" <=> job'[d] = Idle
      /\ \A d \in Callers \ {c} : pc'[d] = pc[d] /\ job'[d] = job[d]
      /\ job'[c].op = OpAt[pc'[c]]
      /\ \A y : ~ Edits(c, y)' /\ ~ Moves(c, y)'
  BY <1>2, ReturnFacts
<1>5. TypeOK'
  BY <1>2, <1>3, <1>4, SkillsFixed, SkillFacts DEF TypeOK, SkillConstants, Impl, Nothing, Custom, SkillsInv
<1>6. ASSUME x \notin mixed' PROVE Installed(x)'
  <2>1. Installed(x) /\ Moves(c, x)
    BY <1>1, <1>2, <1>3, <1>6 DEF SkillsInv, Moves
  <2>2. \A d \in Callers : ~ Moves(d, x)'
    BY <1>4, <2>1 DEF Installed, Moves
  <2>3. dirs'[x] # None
    BY <1>1, <1>2, <2>1 DEF Installed
  <2>4. plugins' = [plugins EXCEPT ![x] = job[c].v]
    BY <1>2, <1>6
  <2>5. plugins'[x] = job[c].v /\ job[c].v # None
    BY <1>2, <1>3, <2>4, SkillFacts DEF TypeOK, SkillsInv
  <2>6. QED
    BY <2>2, <2>3, <2>5 DEF Installed, PluginListed
<1>7. \A y \in Plugins \ {x} : plugins'[y] = plugins[y] /\ ~ Moves(c, y)
  BY <1>1, <1>2, <1>3 DEF TypeOK, Moves
<1>8. \A y : ~ Edits(c, y)
  BY <1>2 DEF Edits
<1>9. QED
  BY <1>2, <1>4, <1>5, <1>6, <1>7, <1>8, ByOne

LEMMA RemoveAllStep == ASSUME SkillsInv, NEW c \in Callers, RemoveAll(c) PROVE SkillsInv'
<1>1. PICK x : x = job[c].on
  OBVIOUS
<1>2. /\ pc[c] = "remove" /\ up /\ UNCHANGED <<up, registry, plugins, sessions, files, made, open, mixed, result>>
      /\ \/ Goto(c, "delist") /\ dirs' = [dirs EXCEPT ![x] = None] /\ job' = job
         \/ Return(c) /\ dirs[x] # None /\ dirs' \in {dirs, [dirs EXCEPT ![x] = Torn]}
  BY <1>1 DEF RemoveAll, At, memory
<1>3. /\ TypeOK /\ job[c] \in Jobs /\ x \in Plugins
      /\ job[c].op = "remove" /\ pc \in [Callers -> Places]
  BY <1>1, <1>2, AtWork, OpFacts DEF SkillsInv
<1>4. \A y : ~ Edits(c, y)
  BY <1>2 DEF Edits
<1>5. ASSUME x \notin mixed
      PROVE  /\ Installed(x) /\ Moves(c, x) /\ plugins[x] # None
             /\ \A d \in Callers \ {c} : ~ Moves(d, x)
  <2>1. Installed(x) /\ Moves(c, x)
    BY <1>1, <1>2, <1>3, <1>5 DEF SkillsInv, Moves
  <2>2. QED
    BY <1>2, <2>1 DEF Installed
<1>6. \A y \in Plugins \ {x} : dirs'[y] = dirs[y] /\ ~ Moves(c, y)
  BY <1>1, <1>2, <1>3 DEF TypeOK, Moves
<1>7. CASE Goto(c, "delist") /\ dirs' = [dirs EXCEPT ![x] = None] /\ job' = job
  <2>1. /\ pc' = [pc EXCEPT ![c] = "delist"] /\ pc'[c] = "delist" /\ pc' \in [Callers -> Places]
        /\ \A d \in Callers \ {c} : pc'[d] = pc[d]
    BY <1>3, <1>7 DEF Goto, Places
  <2>2. TypeOK'
    BY <1>2, <1>3, <1>7, <2>1, SkillsFixed DEF TypeOK, SkillConstants
  <2>3. dirs'[x] = None
    BY <1>3, <1>7 DEF TypeOK
  <2>4. ASSUME x \notin mixed PROVE Installed(x)'
    <3>1. \A d \in Callers : Moves(d, x)' => d = c
      BY <1>5, <1>7, <2>1, <2>4 DEF Moves
    <3>2. Moves(c, x)'
      BY <1>1, <1>7, <2>1 DEF Moves
    <3>3. QED
      BY <2>1, <2>3, <3>1, <3>2 DEF Installed
  <2>5. \A y \in Plugins \ {x} : ~ Moves(c, y)'
    BY <1>1, <1>7 DEF Moves
  <2>6. \A y : ~ Edits(c, y)'
    BY <2>1 DEF Edits
  <2>7. QED
    BY <1>2, <1>3, <1>4, <1>6, <1>7, <2>1, <2>2, <2>4, <2>5, <2>6, OpFacts, ByOne
<1>8. CASE Return(c) /\ dirs[x] # None /\ dirs' \in {dirs, [dirs EXCEPT ![x] = Torn]}
  <2>1. /\ pc'[c] = "idle" /\ job'[c] = Idle
        /\ pc' \in [Callers -> Places] /\ job' \in [Callers -> Jobs]
        /\ \A d \in Callers : pc'[d] = "idle" <=> job'[d] = Idle
        /\ \A d \in Callers \ {c} : pc'[d] = pc[d] /\ job'[d] = job[d]
        /\ job'[c].op = OpAt[pc'[c]]
        /\ \A y : ~ Edits(c, y)' /\ ~ Moves(c, y)'
    BY <1>8, ReturnFacts
  <2>2. TypeOK'
    BY <1>2, <1>3, <1>8, <2>1, SkillsFixed DEF TypeOK, SkillConstants
  <2>3. dirs'[x] # None
    BY <1>3, <1>8, SkillFacts DEF TypeOK
  <2>4. ASSUME x \notin mixed PROVE Installed(x)'
    <3>1. \A d \in Callers : ~ Moves(d, x)'
      BY <1>5, <2>1, <2>4 DEF Moves
    <3>2. plugins'[x] # None
      BY <1>2, <1>5, <2>4
    <3>3. QED
      BY <2>3, <3>1, <3>2 DEF Installed, PluginListed
  <2>5. QED
    BY <1>2, <1>3, <1>4, <1>6, <2>1, <2>2, <2>4, ByOne
<1>9. QED
  BY <1>2, <1>7, <1>8

LEMMA DelistStep == ASSUME SkillsInv, NEW c \in Callers, Delist(c) PROVE SkillsInv'
<1>1. PICK x : x = job[c].on
  OBVIOUS
<1>2. /\ pc[c] = "delist" /\ up /\ Return(c) /\ plugins' = [plugins EXCEPT ![x] = None]
      /\ UNCHANGED <<up, registry, sessions, files, dirs, made, open, mixed, result>>
  BY <1>1 DEF Delist, At, disk
<1>3. TypeOK /\ job[c] \in Jobs /\ x \in Plugins
  BY <1>1, <1>2, AtWork
<1>4. /\ pc'[c] = "idle" /\ job'[c] = Idle
      /\ pc' \in [Callers -> Places] /\ job' \in [Callers -> Jobs]
      /\ \A d \in Callers : pc'[d] = "idle" <=> job'[d] = Idle
      /\ \A d \in Callers \ {c} : pc'[d] = pc[d] /\ job'[d] = job[d]
      /\ job'[c].op = OpAt[pc'[c]]
      /\ \A y : ~ Edits(c, y)' /\ ~ Moves(c, y)'
  BY <1>2, ReturnFacts
<1>5. TypeOK'
  BY <1>2, <1>3, <1>4, SkillsFixed, SkillFacts DEF TypeOK, SkillConstants, Impl, Nothing, Custom, SkillsInv
<1>6. ASSUME x \notin mixed PROVE Installed(x)'
  <2>1. Installed(x) /\ Moves(c, x)
    BY <1>1, <1>2, <1>3, <1>6 DEF SkillsInv, Moves
  <2>2. \A d \in Callers : ~ Moves(d, x)'
    BY <1>4, <2>1 DEF Installed, Moves
  <2>3. dirs'[x] = None
    BY <1>1, <1>2, <2>1 DEF Installed
  <2>4. plugins'[x] = None
    BY <1>2, <1>3 DEF TypeOK
  <2>5. QED
    BY <2>2, <2>3, <2>4, SkillFacts DEF Installed, PluginListed
<1>7. \A y \in Plugins \ {x} : plugins'[y] = plugins[y] /\ ~ Moves(c, y)
  BY <1>1, <1>2, <1>3 DEF TypeOK, Moves
<1>8. \A y : ~ Edits(c, y)
  BY <1>2 DEF Edits
<1>9. QED
  BY <1>2, <1>4, <1>5, <1>6, <1>7, <1>8, ByOne

LEMMA ListToolsStep == ASSUME SkillsInv, NEW c \in Callers, ListTools(c) PROVE SkillsInv'
<1>1. /\ pc[c] = "list" /\ up /\ Return(c) /\ UNCHANGED <<up, registry, plugins, files, dirs, made, mixed, result>>
      /\ \/ sessions' = [sessions EXCEPT ![job[c].on] = job[c].v] /\ open' = open
         \/ open' = open \ {job[c].v} /\ sessions' = sessions
  BY DEF ListTools, At, disk
<1>2. TypeOK /\ job[c].on \in Servers /\ job[c].v \in 1..MaxSessions
  BY <1>1, AtWork
<1>3. /\ pc'[c] = "idle" /\ job'[c] = Idle
      /\ pc' \in [Callers -> Places] /\ job' \in [Callers -> Jobs]
      /\ \A d \in Callers : pc'[d] = "idle" <=> job'[d] = Idle
      /\ \A d \in Callers \ {c} : pc'[d] = pc[d] /\ job'[d] = job[d]
      /\ job'[c].op = OpAt[pc'[c]]
      /\ \A x : ~ Edits(c, x)' /\ ~ Moves(c, x)'
  BY <1>1, ReturnFacts
<1>4. TypeOK'
  BY <1>1, <1>2, <1>3, SkillsFixed DEF TypeOK, SkillConstants
<1>5. \A x : ~ Edits(c, x) /\ ~ Moves(c, x)
  BY <1>1 DEF Edits, Moves
<1>6. QED
  BY <1>1, <1>3, <1>4, <1>5, ByOne

LEMMA CallToolStep == ASSUME SkillsInv, NEW c \in Callers, CallTool(c) PROVE SkillsInv'
<1>1. /\ pc[c] = "call" /\ up /\ Return(c) /\ UNCHANGED <<up, registry, plugins, sessions, files, dirs, made, open, mixed>>
      /\ \E o \in ToolRun(job[c].v) : result' = [skill |-> "mcp_call", outcome |-> o]
  BY DEF CallTool, disk, memory, history
<1>2. TypeOK
  BY AtWork
<1>3. /\ pc'[c] = "idle" /\ job'[c] = Idle
      /\ pc' \in [Callers -> Places] /\ job' \in [Callers -> Jobs]
      /\ \A d \in Callers : pc'[d] = "idle" <=> job'[d] = Idle
      /\ \A d \in Callers \ {c} : pc'[d] = pc[d] /\ job'[d] = job[d]
      /\ job'[c].op = OpAt[pc'[c]]
      /\ \A x : ~ Edits(c, x)' /\ ~ Moves(c, x)'
  BY <1>1, ReturnFacts
<1>4. result' \in [skill : Names \cup {"none", "mcp_call"}, outcome : Outcomes]
  BY <1>1 DEF ToolRun, Outcomes
<1>5. TypeOK'
  BY <1>1, <1>2, <1>3, <1>4, SkillsFixed DEF TypeOK, SkillConstants
<1>6. \A x : ~ Edits(c, x) /\ ~ Moves(c, x)
  BY <1>1 DEF Edits, Moves
<1>7. QED
  BY <1>1, <1>3, <1>5, <1>6, ByOne

\* A step that leaves the requests, the files and what they are compared with.
LEMMA SkillsKept ==
    ASSUME SkillsInv, TypeOK', UNCHANGED <<up, registry, plugins, files, dirs, pc, job, mixed>>
    PROVE  SkillsInv'
<1>1. \A n \in CustomNames \ mixed : Catalogued(n)' <=> Catalogued(n)
  BY SkillsFixed DEF Catalogued, Edits, Agrees, Custom, SkillConstants
<1>2. \A p \in Plugins \ mixed : Installed(p)' <=> Installed(p)
  BY DEF Installed, PluginListed, PluginRegistered, Moves
<1>3. QED
  BY <1>1, <1>2, SkillsFixed DEF SkillsInv, SkillConstants

LEMMA DisconnectStep == ASSUME SkillsInv, NEW s \in Servers, Disconnect(s) PROVE SkillsInv'
<1>1. /\ UNCHANGED <<up, registry, plugins, files, dirs, made, pc, job, result, mixed>>
      /\ open' = open \ {sessions[s]} /\ sessions' = [sessions EXCEPT ![s] = None]
  BY DEF Disconnect, Closed, disk
<1>2. TypeOK
  BY DEF SkillsInv
<1>3. TypeOK'
  BY <1>1, <1>2, SkillsFixed DEF TypeOK, SkillConstants
<1>4. QED
  BY <1>1, <1>3, SkillsKept

LEMMA ExecuteStep == ASSUME SkillsInv, NEW n \in Names, Execute(n) PROVE SkillsInv'
<1>1. /\ UNCHANGED <<up, registry, plugins, sessions, files, dirs, made, open, pc, job, mixed>>
      /\ \E o \in Run(registry[n]) : result' = [skill |-> n, outcome |-> o]
  BY DEF Execute, memory, disk, history
<1>2. TypeOK
  BY DEF SkillsInv
<1>3. Run(registry[n]) \subseteq Outcomes
  <2>1. registry[n].from \in {"nothing", "program", "custom", "plugin", "mcp"}
    BY <1>2 DEF TypeOK, Impl
  <2>2. /\ CustomRun \subseteq Outcomes /\ ProgramRun \subseteq Outcomes
        /\ \A p : PluginRun(p) \subseteq Outcomes
        /\ \A v : ToolRun(v) \subseteq Outcomes
        /\ {"unknown"} \subseteq Outcomes
    BY DEF CustomRun, ProgramRun, PluginRun, ToolRun, Outcomes
  <2>3. /\ registry[n].from = "nothing" => Run(registry[n]) = {"unknown"}
        /\ registry[n].from = "program" => Run(registry[n]) = ProgramRun
        /\ registry[n].from = "custom" => Run(registry[n]) = CustomRun
        /\ registry[n].from = "plugin" =>
             Run(registry[n]) = PluginRun(registry[n].v)
        /\ registry[n].from = "mcp" => Run(registry[n]) = ToolRun(registry[n].v)
    BY DEF Run
  <2>4. QED
    BY <2>1, <2>2, <2>3
<1>4. TypeOK'
  BY <1>1, <1>2, <1>3, SkillsFixed DEF TypeOK, SkillConstants
<1>5. QED
  BY <1>1, <1>4, SkillsKept

LEMMA EndedStep ==
    ASSUME SkillsInv, Ended, open' \subseteq open
    PROVE  SkillsInv'
<1>1. TypeOK
  BY DEF SkillsInv
<1>2. /\ up' = FALSE /\ UNCHANGED <<files, dirs, made>>
      /\ registry' = [n \in Names |-> Nothing]
      /\ plugins' = [p \in Plugins |-> None]
      /\ sessions' = [s \in Servers |-> None]
      /\ pc' = [c \in Callers |-> "idle"]
      /\ job' = [c \in Callers |-> Idle]
      /\ result' = [skill |-> "none", outcome |-> "none"] /\ mixed' = {}
  BY DEF Ended, disk
<1>3. Nothing \in Impl /\ "none" \in Outcomes /\ "idle" \in Places
  BY DEF Nothing, Impl, Outcomes, Places
<1>4. /\ registry' \in [Names -> Impl] /\ job' \in [Callers -> Jobs]
      /\ pc' \in [Callers -> Places] /\ \A c \in Callers : pc'[c] = "idle" /\ job'[c] = Idle
  BY <1>2, <1>3, NewWork
<1>5. TypeOK'
  BY <1>1, <1>2, <1>3, <1>4, SkillsFixed DEF TypeOK, SkillConstants
<1>6. \A c \in Callers : \A x : ~ Edits(c, x)' /\ ~ Moves(c, x)'
  BY <1>4 DEF Edits, Moves
<1>7. \A n : Catalogued(n)'
  BY <1>2, <1>6 DEF Catalogued
<1>8. \A p : Installed(p)'
  BY <1>2, <1>6 DEF Installed
<1>9. QED
  BY <1>2, <1>4, <1>5, <1>7, <1>8, NewWork, OpFacts, SkillsFixed DEF SkillsInv, SkillConstants

\* What the start-up registers under a name.
LEMMA Booted ==
    ASSUME TypeOK, NEW reached \in SUBSET Servers, NEW opened \in [reached -> 1..MaxSessions],
           NEW unread, NEW found, NEW plugin \in LastPlugin(found)
    PROVE  /\ Boot(unread, opened, found, plugin) \in [Names -> Impl]
           /\ \A n \in CustomNames \ (Later \cup unread) :
                Boot(unread, opened, found, plugin)[n] = IF files[n] \in Versions THEN Custom(files[n])
                                                         ELSE IF n \in Early THEN Program ELSE Nothing
           /\ \A n \in CustomNames : Boot(unread, opened, found, plugin)[n].from = "custom" =>
                Boot(unread, opened, found, plugin)[n] = Custom(files[n])
           /\ \A n \in Names, p \in Plugins :
                /\ Boot(unread, opened, found, plugin)[n].from = "plugin"
                /\ Boot(unread, opened, found, plugin)[n].v = p
                => found[p] # None
<1> DEFINE Loaded(n) == IF n \in CustomNames \ unread /\ files[n] \in Versions THEN Custom(files[n])
                        ELSE IF n \in Early THEN Program ELSE Nothing
           FromServers(n) == {s \in DOMAIN opened : ToolOf[s] = n}
           Server(n) == CHOOSE s \in FromServers(n) : TRUE
           Found(n) == FromPlugins(found, n)
           Entry(n) == IF FromServers(n) # {} THEN [from |-> "mcp", v |-> opened[Server(n)]]
                       ELSE IF Found(n) # {} THEN [from |-> "plugin", v |-> plugin[n]]
                       ELSE IF n \in Late THEN Program ELSE Loaded(n)
<1>1. Boot(unread, opened, found, plugin) = [n \in Names |-> Entry(n)]
  BY DEF Boot
<1>2. \A n : FromServers(n) # {} => Server(n) \in reached
  OBVIOUS
<1>3. \A n \in Names : Found(n) # {} => plugin[n] \in Plugins /\ found[plugin[n]] # None
  BY DEF LastPlugin, FromPlugins
<1>4. \A n \in CustomNames \ Later : FromServers(n) = {} /\ Found(n) = {} /\ n \notin Late
  BY DEF Later, FromPlugins
<1>5. \A n \in Names : Loaded(n) \in Impl /\ Loaded(n).from # "plugin"
  BY DEF TypeOK, Impl, Custom, Program, Nothing
<1> HIDE DEF Loaded, FromServers, Server, Found
<1>6. \A n \in Names : Entry(n) \in Impl
  <2> SUFFICES ASSUME NEW n \in Names PROVE Entry(n) \in Impl
    OBVIOUS
  <2>1. CASE FromServers(n) # {}
    BY <1>2, <2>1 DEF Impl
  <2>2. CASE FromServers(n) = {} /\ Found(n) # {}
    BY <1>3, <2>2 DEF Impl
  <2>3. CASE FromServers(n) = {} /\ Found(n) = {}
    BY <1>5, <2>3 DEF Impl, Program
  <2>4. QED
    BY <2>1, <2>2, <2>3
<1>7. \A n \in CustomNames \ Later : Entry(n) = Loaded(n)
  BY <1>4
<1>8. \A n \in CustomNames : Entry(n).from = "custom" => Entry(n) = Custom(files[n])
  <2> SUFFICES ASSUME NEW n \in CustomNames, Entry(n).from = "custom" PROVE Entry(n) = Custom(files[n])
    OBVIOUS
  <2>1. FromServers(n) = {} /\ Found(n) = {} /\ Entry(n) = IF n \in Late THEN Program ELSE Loaded(n)
    OBVIOUS
  <2>2. Entry(n) = Loaded(n) /\ Loaded(n).from = "custom"
    BY <2>1 DEF Program
  <2>3. QED
    BY <2>2 DEF Loaded, Program, Nothing
<1>9. \A n \in CustomNames \ (Later \cup unread) :
        Loaded(n) = IF files[n] \in Versions THEN Custom(files[n])
                    ELSE IF n \in Early THEN Program ELSE Nothing
  BY DEF Loaded
<1>10. \A n \in Names, p \in Plugins : Entry(n).from = "plugin" /\ Entry(n).v = p => found[p] # None
  <2> SUFFICES ASSUME NEW n \in Names, Entry(n).from = "plugin" PROVE found[Entry(n).v] # None
    OBVIOUS
  <2>1. FromServers(n) = {} /\ Found(n) # {}
    BY <1>5 DEF Program
  <2>2. Entry(n).v = plugin[n]
    BY <2>1
  <2>3. QED
    BY <1>3, <2>1, <2>2
<1> HIDE DEF Entry
<1>11. \A n \in CustomNames : n \in Names
  BY SkillFacts
<1>12. QED
  BY <1>1, <1>6, <1>7, <1>8, <1>9, <1>10, <1>11

LEMMA BootStep == ASSUME SkillsInv, Start PROVE SkillsInv'
<1>1. TypeOK /\ ~ up /\ \A c \in Callers : pc[c] = "idle"
  BY DEF Start, SkillsInv
<1>2. PICK found : found = plugins'
  OBVIOUS
<1>3. PICK unread : unread = mixed'
  OBVIOUS
<1>4. PICK reached \in SUBSET AutoStart :
        /\ made + Cardinality(reached) <= MaxSessions
        /\ \E opened \in [reached -> (made + 1)..(made + Cardinality(reached))] :
             /\ sessions' = [s \in Servers |-> IF s \in reached THEN opened[s] ELSE None]
             /\ \E plugin \in LastPlugin(found) : registry' = Boot(unread, opened, found, plugin)
             /\ open' = {opened[s] : s \in reached}
             /\ made' = made + Cardinality(reached)
  BY <1>2, <1>3 DEF Start
<1>5. PICK opened \in [reached -> (made + 1)..(made + Cardinality(reached))] :
        /\ sessions' = [s \in Servers |-> IF s \in reached THEN opened[s] ELSE None]
        /\ \E plugin \in LastPlugin(found) : registry' = Boot(unread, opened, found, plugin)
        /\ open' = {opened[s] : s \in reached}
        /\ made' = made + Cardinality(reached)
  BY <1>4
<1>6. /\ up' = TRUE /\ UNCHANGED <<files, dirs, pc, job, result>>
      /\ plugins' = [p \in Plugins |-> IF p \in mixed' \/ dirs[p] = Torn THEN None ELSE dirs[p]]
  BY DEF Start, disk
<1>7. IsFiniteSet(reached)
  BY SkillFacts, FS_Subset
<1>8. Cardinality(reached) \in Nat
  BY <1>7, FS_CardinalityType
<1>9. made \in 0..MaxSessions /\ MaxSessions \in Nat /\ reached \subseteq Servers
  BY <1>1, SkillFacts DEF TypeOK
<1>10. /\ \A s \in reached : opened[s] \in 1..made' /\ opened[s] \in 1..MaxSessions
       /\ made' \in 0..MaxSessions /\ DOMAIN opened = reached
  BY <1>4, <1>5, <1>8, <1>9
<1>11. opened \in [reached -> 1..MaxSessions]
  BY <1>5, <1>10
<1>12. /\ registry' \in [Names -> Impl]
       /\ \A n \in CustomNames \ (Later \cup unread) :
            registry'[n] = IF files[n] \in Versions THEN Custom(files[n])
                           ELSE IF n \in Early THEN Program ELSE Nothing
       /\ \A n \in CustomNames : registry'[n].from = "custom" => registry'[n] = Custom(files[n])
       /\ \A n \in Names, p \in Plugins :
            registry'[n].from = "plugin" /\ registry'[n].v = p => found[p] # None
  BY <1>1, <1>5, <1>9, <1>11, Booted
<1>13. TypeOK'
  <2>1. sessions' \in [Servers -> 1..MaxSessions \cup {None}] /\ open' \subseteq 1..made'
    BY <1>5, <1>10
  <2>2. plugins' \in [Plugins -> Versions \cup {None}]
    BY <1>1, <1>6 DEF TypeOK
  <2>3. QED
    BY <1>1, <1>6, <1>10, <1>12, <2>1, <2>2, SkillsFixed DEF TypeOK, SkillConstants
<1>14. \A n \in CustomNames \ mixed' : files[n] # Torn => Agrees(n)'
  <2> SUFFICES ASSUME NEW n \in CustomNames \ mixed', files[n] # Torn PROVE Agrees(n)'
    OBVIOUS
  <2>1. files[n] \in Versions \/ files[n] = None
    BY <1>1 DEF TypeOK
  <2>2. CASE n \in Later
    BY <1>6, <1>12, <2>2, SkillsFixed DEF Agrees, Custom, SkillConstants
  <2>3. CASE n \notin Later
    BY <1>3, <1>6, <1>12, <2>1, <2>3, SkillFacts DEF Agrees, Custom, Program, Nothing
  <2>4. QED
    BY <2>2, <2>3
<1>15. \A c \in Callers : \A x : ~ Edits(c, x)' /\ ~ Moves(c, x)'
  BY <1>1, <1>6 DEF Edits, Moves
<1>16. \A n \in CustomNames \ mixed' : Catalogued(n)'
  BY <1>6, <1>14, <1>15 DEF Catalogued
<1>17. \A p \in Plugins \ mixed' : Installed(p)'
  <2> SUFFICES ASSUME NEW p \in Plugins \ mixed' PROVE Installed(p)'
    OBVIOUS
  <2>1. plugins'[p] = IF dirs'[p] = Torn THEN None ELSE dirs'[p]
    BY <1>6
  <2>2. PluginRegistered(p)' => plugins'[p] # None
    BY <1>2, <1>12 DEF PluginRegistered
  <2>3. PluginListed(p)'
    BY <2>1, <2>2, SkillFacts DEF PluginListed
  <2>4. QED
    BY <1>15, <2>3 DEF Installed
<1>18. QED
  BY <1>6, <1>13, <1>16, <1>17, SkillsFixed DEF SkillsInv, SkillConstants

LEMMA SkillsStep == ASSUME SkillsInv, [Next]_vars PROVE SkillsInv'
<1>1. CASE Start
  BY <1>1, BootStep
<1>2. CASE Stop \/ Crash
  BY <1>2, EndedStep DEF Stop, Crash
<1>3. CASE \E c \in Callers :
             \/ \E n \in CustomNames, v \in Versions : Create(c, n, v)
             \/ \E n \in CustomNames : Delete(c, n)
             \/ \E p \in Plugins, v \in Versions : Install(c, p, v)
             \/ \E p \in Plugins : Remove(c, p)
             \/ \E s \in Servers : Connect(c, s) \/ Call(c, s)
  BY <1>3, CreateStep, DeleteStep, InstallStep, RemoveStep, ConnectStep, CallStep
<1>4. CASE \E c \in Callers :
             \/ WriteFile(c) \/ RegisterCustomSkill(c) \/ Unregister(c)
             \/ Enlist(c) \/ RemoveAll(c) \/ Delist(c) \/ ListTools(c) \/ CallTool(c)
  BY <1>4, WriteStep, RegisterCustomSkillStep, UnregisterStep, EnlistStep, RemoveAllStep, DelistStep, ListToolsStep, CallToolStep
<1>5. CASE \E s \in Servers : Disconnect(s)
  BY <1>5, DisconnectStep
<1>6. CASE \E n \in Names : Execute(n)
  BY <1>6, ExecuteStep
<1>7. CASE UNCHANGED vars
  <2>1. UNCHANGED <<up, registry, plugins, sessions, files, dirs, made, open, pc, job, result, mixed>>
    BY <1>7 DEF vars, memory, disk, history
  <2>2. TypeOK'
    BY <2>1, SkillsFixed DEF TypeOK, SkillConstants, SkillsInv
  <2>3. QED
    BY <2>1, <2>2, SkillsKept
<1>8. QED
  BY <1>1, <1>2, <1>3, <1>4, <1>5, <1>6, <1>7 DEF Next

LEMMA SkillsHold == SkillsInv => TypeOK /\ CatalogMatchesDisk
<1> SUFFICES ASSUME SkillsInv PROVE TypeOK /\ CatalogMatchesDisk
  OBVIOUS
<1>1. \A c \in Callers : \A x : Edits(c, x) \/ Moves(c, x) => Busy(x)
  BY DEF Edits, Moves, Busy
<1>2. \A n \in CustomNames : Settled(n) /\ files[n] # Torn => Agrees(n)
  BY <1>1 DEF Settled, SkillsInv, Catalogued
<1>3. \A p \in Plugins : Settled(p) => PluginListed(p)
  BY <1>1 DEF Settled, SkillsInv, Installed
<1>4. QED
  BY <1>2, <1>3 DEF CatalogMatchesDisk, Agrees, PluginListed, SkillsInv

LEMMA Cataloguing == Spec => []TypeOK /\ []CatalogMatchesDisk
BY SkillsInit, SkillsStep, SkillsHold, PTL DEF Spec

-----------------------------------------------------------------------------
(* Skills that are gone.  Sessions are numbered as they are opened, so one   *)
(* that was disconnected is not opened again.                                *)

GoneInv ==
    /\ gone \subseteq 1..made /\ gone \cap open = {}
    /\ \A s \in Servers : sessions[s] # None => sessions[s] \in 1..made
    /\ \A c \in Callers : pc[c] = "list" => job[c].v \in 1..made
    /\ \A n \in Names : registry[n].from = "custom" => n \in CustomNames

LEMMA GoneInit == Init => GoneInv
BY SkillFacts DEF Init, GoneInv, Nothing

\* A step that neither opens nor closes a session.
LEMMA GoneKept ==
    ASSUME GoneInv, UNCHANGED <<gone, open, made, sessions>>,
           \A n \in Names : registry'[n] = registry[n] \/ registry'[n].from # "custom" \/ n \in CustomNames,
           \A c \in Callers : pc'[c] = "list" => pc[c] = "list" /\ job'[c] = job[c]
    PROVE  GoneInv'
BY DEF GoneInv

LEMMA BeginKeepsGone ==
    ASSUME SkillsInv, GoneInv, NEW c \in Callers, NEW what \in Jobs, what # Idle,
           NEW l \in Places \ {"idle", "list"}, Begin(c, what), Goto(c, l),
           UNCHANGED <<registry, sessions, made, open>>
    PROVE  GoneInv'
<1>1. pc'[c] = l /\ \A d \in Callers \ {c} : pc'[d] = pc[d] /\ job'[d] = job[d]
  BY BeginFacts
<1>2. gone' = gone
  BY DEF Begin
<1>3. QED
  BY <1>1, <1>2, GoneKept

LEMMA ReturnKeepsGone ==
    ASSUME SkillsInv, GoneInv, NEW c \in Callers, Return(c), UNCHANGED <<gone, sessions, made, open>>,
           \A n \in Names : registry'[n] = registry[n] \/ registry'[n].from # "custom" \/ n \in CustomNames
    PROVE  GoneInv'
<1>1. pc'[c] = "idle" /\ \A d \in Callers \ {c} : pc'[d] = pc[d] /\ job'[d] = job[d]
  BY ReturnFacts
<1>2. QED
  BY <1>1, GoneKept

LEMMA ChangesKeepGone ==
    ASSUME SkillsInv, GoneInv, NEW c \in Callers,
           \/ \E n \in CustomNames, v \in Versions : Create(c, n, v)
           \/ \E n \in CustomNames : Delete(c, n)
           \/ \E p \in Plugins, v \in Versions : Install(c, p, v)
           \/ \E p \in Plugins : Remove(c, p)
           \/ \E s \in Servers : Call(c, s)
    PROVE  GoneInv'
<1>1. {"write", "unregister", "enlist", "remove", "call"} \subseteq Places \ {"idle", "list"}
  BY DEF Places
<1>2. ASSUME NEW n \in CustomNames, NEW v \in Versions, Create(c, n, v) PROVE GoneInv'
  <2>1. PICK what : what = [op |-> "create", on |-> n, v |-> v]
    OBVIOUS
  <2>2. what \in Jobs /\ what # Idle
    BY <2>1, NewWork
  <2>3. Begin(c, what) /\ Goto(c, "write") /\ UNCHANGED <<registry, sessions, made, open>>
    BY <1>2, <2>1 DEF Create, memory
  <2>4. QED
    BY <1>1, <2>2, <2>3, BeginKeepsGone
<1>3. ASSUME NEW n \in CustomNames, Delete(c, n) PROVE GoneInv'
  <2>1. PICK what : what = [op |-> "delete", on |-> n, v |-> None]
    OBVIOUS
  <2>2. what \in Jobs /\ what # Idle
    BY <2>1, NewWork
  <2>3. Begin(c, what) /\ Goto(c, "unregister") /\ UNCHANGED <<registry, sessions, made, open>>
    BY <1>3, <2>1 DEF Delete, memory
  <2>4. QED
    BY <1>1, <2>2, <2>3, BeginKeepsGone
<1>4. ASSUME NEW p \in Plugins, NEW v \in Versions, Install(c, p, v) PROVE GoneInv'
  <2>1. PICK what : what = [op |-> "install", on |-> p, v |-> v]
    OBVIOUS
  <2>2. what \in Jobs /\ what # Idle
    BY <2>1, NewWork
  <2>3. Begin(c, what) /\ Goto(c, "enlist") /\ UNCHANGED <<registry, sessions, made, open>>
    BY <1>4, <2>1 DEF Install, memory
  <2>4. QED
    BY <1>1, <2>2, <2>3, BeginKeepsGone
<1>5. ASSUME NEW p \in Plugins, Remove(c, p) PROVE GoneInv'
  <2>1. PICK what : what = [op |-> "remove", on |-> p, v |-> None]
    OBVIOUS
  <2>2. what \in Jobs /\ what # Idle
    BY <2>1, NewWork
  <2>3. Begin(c, what) /\ Goto(c, "remove") /\ UNCHANGED <<registry, sessions, made, open>>
    BY <1>5, <2>1 DEF Remove, memory
  <2>4. QED
    BY <1>1, <2>2, <2>3, BeginKeepsGone
<1>6. ASSUME NEW s \in Servers, Call(c, s) PROVE GoneInv'
  <2>1. PICK what : what = [op |-> "call", on |-> s, v |-> sessions[s]]
    OBVIOUS
  <2>2. sessions[s] \in 1..MaxSessions
    BY <1>6 DEF Call, SkillsInv, TypeOK
  <2>3. what \in Jobs /\ what # Idle
    BY <2>1, <2>2, NewWork
  <2>4. Begin(c, what) /\ Goto(c, "call") /\ UNCHANGED <<registry, sessions, made, open>>
    BY <1>6, <2>1 DEF Call, memory
  <2>5. QED
    BY <1>1, <2>3, <2>4, BeginKeepsGone
<1>7. QED
  BY <1>2, <1>3, <1>4, <1>5, <1>6

LEMMA ReturnsKeepGone ==
    ASSUME SkillsInv, GoneInv, NEW c \in Callers,
           \/ WriteFile(c) \/ RegisterCustomSkill(c) \/ Unregister(c)
           \/ Enlist(c) \/ RemoveAll(c) \/ Delist(c) \/ CallTool(c)
    PROVE  GoneInv'
<1>0. registry \in [Names -> Impl] /\ pc \in [Callers -> Places]
  BY DEF SkillsInv, TypeOK
<1>1. CASE WriteFile(c)
  <2>1. /\ UNCHANGED <<registry, gone, sessions, made, open>>
        /\ \/ Goto(c, "register") /\ job' = job
           \/ Return(c)
    BY <1>1 DEF WriteFile, memory
  <2>2. CASE Goto(c, "register") /\ job' = job
    <3>1. \A d \in Callers : pc'[d] = "list" => pc[d] = "list"
      BY <1>0, <2>2 DEF Goto
    <3>2. QED
      BY <2>1, <2>2, <3>1, GoneKept
  <2>3. QED
    BY <2>1, <2>2, ReturnKeepsGone
<1>2. CASE RegisterCustomSkill(c)
  <2>1. PICK x : x = job[c].on
    OBVIOUS
  <2>2. /\ UNCHANGED <<gone, sessions, made, open>> /\ Return(c) /\ pc[c] = "register"
        /\ registry' = [registry EXCEPT ![x] = Custom(job[c].v)]
    BY <1>2, <2>1 DEF RegisterCustomSkill, At
  <2>3. x \in CustomNames
    BY <2>1, <2>2, AtWork
  <2>4. \A n \in Names : registry'[n] = registry[n] \/ n \in CustomNames
    BY <1>0, <2>2, <2>3
  <2>5. QED
    BY <2>2, <2>4, ReturnKeepsGone
<1>3. CASE Unregister(c)
  <2>1. PICK x : x = job[c].on
    OBVIOUS
  <2>2. /\ UNCHANGED <<gone, sessions, made, open>> /\ Return(c)
        /\ registry' = [registry EXCEPT ![x] = Nothing]
    BY <1>3, <2>1 DEF Unregister, At
  <2>3. \A n \in Names : registry'[n] = registry[n] \/ registry'[n].from # "custom"
    BY <1>0, <2>2 DEF Nothing
  <2>4. QED
    BY <2>2, <2>3, ReturnKeepsGone
<1>4. CASE Enlist(c) \/ Delist(c) \/ CallTool(c)
  <2>1. UNCHANGED <<registry, gone, sessions, made, open>> /\ Return(c)
    BY <1>4 DEF Enlist, Delist, CallTool, memory, history
  <2>2. QED
    BY <2>1, ReturnKeepsGone
<1>5. CASE RemoveAll(c)
  <2>1. /\ UNCHANGED <<registry, gone, sessions, made, open>>
        /\ \/ Goto(c, "delist") /\ job' = job
           \/ Return(c)
    BY <1>5 DEF RemoveAll, memory
  <2>2. CASE Goto(c, "delist") /\ job' = job
    <3>1. \A d \in Callers : pc'[d] = "list" => pc[d] = "list"
      BY <1>0, <2>2 DEF Goto
    <3>2. QED
      BY <2>1, <2>2, <3>1, GoneKept
  <2>3. QED
    BY <2>1, <2>2, ReturnKeepsGone
<1>6. QED
  BY <1>1, <1>2, <1>3, <1>4, <1>5

LEMMA ConnectKeepsGone == ASSUME SkillsInv, GoneInv, NEW c \in Callers, NEW s \in Servers, Connect(c, s) PROVE GoneInv'
<1>1. PICK what : what = [op |-> "connect", on |-> s, v |-> made']
  OBVIOUS
<1>2. /\ made < MaxSessions /\ made' = made + 1 /\ open' = open \cup {made'}
      /\ Begin(c, what) /\ Goto(c, "list") /\ UNCHANGED <<registry, sessions>> /\ gone' = gone
  BY <1>1 DEF Connect, Opened, memory, Begin
<1>3. made \in 0..MaxSessions /\ MaxSessions \in Nat /\ "list" \in Places \ {"idle"}
  BY SkillFacts DEF SkillsInv, TypeOK, Places
<1>4. what \in Jobs /\ what # Idle /\ what.v = made'
  BY <1>1, <1>2, <1>3, NewWork
<1>5. pc'[c] = "list" /\ job'[c] = what /\ \A d \in Callers \ {c} : pc'[d] = pc[d] /\ job'[d] = job[d]
  BY <1>2, <1>3, <1>4, BeginFacts
<1>6. gone' \subseteq 1..made' /\ gone' \cap open' = {}
  BY <1>2, <1>3 DEF GoneInv
<1>7. \A d \in Callers : pc'[d] = "list" => job'[d].v \in 1..made'
  BY <1>2, <1>3, <1>4, <1>5 DEF GoneInv
<1>8. \A t \in Servers : sessions'[t] # None => sessions'[t] \in 1..made'
  BY <1>2, <1>3 DEF GoneInv
<1>9. QED
  BY <1>2, <1>6, <1>7, <1>8 DEF GoneInv

LEMMA ListToolsKeepsGone == ASSUME SkillsInv, GoneInv, NEW c \in Callers, ListTools(c) PROVE GoneInv'
<1>1. /\ pc[c] = "list" /\ Return(c) /\ UNCHANGED <<registry, made, gone>>
      /\ \/ sessions' = [sessions EXCEPT ![job[c].on] = job[c].v] /\ open' = open
         \/ open' = open \ {job[c].v} /\ sessions' = sessions
  BY DEF ListTools, At
<1>2. job[c].v \in 1..made /\ sessions \in [Servers -> 1..MaxSessions \cup {None}]
  BY <1>1 DEF GoneInv, SkillsInv, TypeOK
<1>3. pc'[c] = "idle" /\ \A d \in Callers \ {c} : pc'[d] = pc[d] /\ job'[d] = job[d]
  BY <1>1, ReturnFacts
<1>4. \A t \in Servers : sessions'[t] = sessions[t] \/ sessions'[t] = job[c].v
  BY <1>1, <1>2
<1>5. QED
  BY <1>1, <1>2, <1>3, <1>4 DEF GoneInv

LEMMA DisconnectKeepsGone == ASSUME SkillsInv, GoneInv, NEW s \in Servers, Disconnect(s) PROVE GoneInv'
<1>1. /\ sessions[s] # None /\ open' = open \ {sessions[s]} /\ gone' = gone \cup {sessions[s]}
      /\ sessions' = [sessions EXCEPT ![s] = None] /\ UNCHANGED <<registry, made, pc, job>>
  BY DEF Disconnect, Closed
<1>2. sessions \in [Servers -> 1..MaxSessions \cup {None}] /\ sessions[s] \in 1..made
  BY <1>1 DEF GoneInv, SkillsInv, TypeOK
<1>3. \A t \in Servers : sessions'[t] = sessions[t] \/ sessions'[t] = None
  BY <1>1, <1>2
<1>4. QED
  BY <1>1, <1>2, <1>3 DEF GoneInv

LEMMA StartKeepsGone == ASSUME SkillsInv, GoneInv, Start PROVE GoneInv'
<1>1. TypeOK
  BY DEF SkillsInv
<1>0. PICK found, unread : found = plugins' /\ unread = mixed'
  OBVIOUS
<1>2. PICK reached \in SUBSET AutoStart : \E opened \in [reached -> (made + 1)..(made + Cardinality(reached))] :
        /\ made + Cardinality(reached) <= MaxSessions
        /\ sessions' = [s \in Servers |-> IF s \in reached THEN opened[s] ELSE None]
        /\ \E plugin \in LastPlugin(found) : registry' = Boot(unread, opened, found, plugin)
        /\ open' = {opened[s] : s \in reached}
        /\ made' = made + Cardinality(reached)
  BY <1>0 DEF Start
<1>3. PICK opened \in [reached -> (made + 1)..(made + Cardinality(reached))] :
        /\ made + Cardinality(reached) <= MaxSessions
        /\ sessions' = [s \in Servers |-> IF s \in reached THEN opened[s] ELSE None]
        /\ \E plugin \in LastPlugin(found) : registry' = Boot(unread, opened, found, plugin)
        /\ open' = {opened[s] : s \in reached}
        /\ made' = made + Cardinality(reached)
  BY <1>2
<1>4. PICK plugin \in LastPlugin(found) : registry' = Boot(unread, opened, found, plugin)
  BY <1>3
<1>5. gone' = gone /\ pc' = pc /\ job' = job
  BY DEF Start
<1>6. IsFiniteSet(reached)
  BY SkillFacts, FS_Subset
<1>7. Cardinality(reached) \in Nat
  BY <1>6, FS_CardinalityType
<1>8. made \in 0..MaxSessions /\ made \in Nat /\ reached \subseteq Servers
  BY <1>1, SkillFacts DEF TypeOK
<1>9. \A s \in reached : opened[s] \in 1..made' /\ opened[s] \notin 1..made
  BY <1>3, <1>7, <1>8
<1>10. gone' \cap open' = {} /\ gone' \subseteq 1..made'
  BY <1>3, <1>5, <1>7, <1>8, <1>9 DEF GoneInv
<1>11. \A s \in Servers : sessions'[s] # None => sessions'[s] \in 1..made'
  BY <1>3, <1>9
<1>12. \A c \in Callers : pc'[c] = "list" => job'[c].v \in 1..made'
  BY <1>3, <1>5, <1>7, <1>8 DEF GoneInv
<1>13. \A n \in Names : registry'[n].from = "custom" => n \in CustomNames
  BY <1>4 DEF Boot, Program, Nothing
<1>14. QED
  BY <1>10, <1>11, <1>12, <1>13 DEF GoneInv

LEMMA GoneStep == ASSUME SkillsInv, GoneInv, [Next]_vars PROVE GoneInv'
<1>1. CASE Start
  BY <1>1, StartKeepsGone
<1>2. CASE Stop \/ Crash
  BY <1>2, SkillFacts DEF Stop, Crash, Ended, GoneInv, Nothing
<1>3. CASE \E c \in Callers :
             \/ \E n \in CustomNames, v \in Versions : Create(c, n, v)
             \/ \E n \in CustomNames : Delete(c, n)
             \/ \E p \in Plugins, v \in Versions : Install(c, p, v)
             \/ \E p \in Plugins : Remove(c, p)
             \/ \E s \in Servers : Call(c, s)
  BY <1>3, ChangesKeepGone
<1>4. CASE \E c \in Callers :
             \/ WriteFile(c) \/ RegisterCustomSkill(c) \/ Unregister(c)
             \/ Enlist(c) \/ RemoveAll(c) \/ Delist(c) \/ CallTool(c)
  BY <1>4, ReturnsKeepGone
<1>5. CASE \E c \in Callers : ListTools(c) \/ \E s \in Servers : Connect(c, s)
  BY <1>5, ListToolsKeepsGone, ConnectKeepsGone
<1>6. CASE \E s \in Servers : Disconnect(s)
  BY <1>6, DisconnectKeepsGone
<1>7. CASE (\E n \in Names : Execute(n)) \/ UNCHANGED vars
  <2>1. UNCHANGED <<registry, gone, sessions, made, open, pc, job>>
    BY <1>7 DEF Execute, vars, memory, history
  <2>2. QED
    BY <2>1, GoneKept
<1>8. QED
  BY <1>1, <1>2, <1>3, <1>4, <1>5, <1>6, <1>7 DEF Next

LEMMA ResultsComeFrom ==
    ASSUME [Next]_vars, result' # result
    PROVE  (\E n \in Names : Execute(n)) \/ (\E c \in Callers : CallTool(c)) \/ Ended
BY DEF Next, vars, Start, Stop, Crash, Create, Delete, Install, Remove, Connect, Call, Begin, WriteFile,
       RegisterCustomSkill, Unregister, Enlist, RemoveAll, Delist, ListTools, At, Disconnect

LEMMA SilentStep == ASSUME SkillsInv, GoneInv, [Next]_vars PROVE [GoneStaysSilent]_vars
<1>1. SUFFICES ASSUME result' # result PROVE GoneStaysSilent
  BY DEF GoneStaysSilent
<1>2. TypeOK /\ CatalogMatchesDisk /\ pc \in [Callers -> Places]
  BY SkillsHold DEF SkillsInv
<1>3. ASSUME NEW c \in Callers, pc[c] = "call", pc'[c] = "idle", up',
             result' = [skill |-> "mcp_call", outcome |-> "output"]
      PROVE  job[c].v \notin gone
  <2>1. ~ Ended
    BY <1>3 DEF Ended
  <2>2. ~ \E n \in Names : Execute(n)
    BY <1>3 DEF Execute
  <2>3. PICK d \in Callers : CallTool(d)
    BY <1>1, <2>1, <2>2, ResultsComeFrom
  <2>4. d = c
    BY <1>2, <1>3, <2>3 DEF CallTool, Return, Goto
  <2>5. "output" \in ToolRun(job[c].v)
    BY <1>3, <2>3, <2>4 DEF CallTool
  <2>6. job[c].v \in open
    BY <2>5 DEF ToolRun
  <2>7. QED
    BY <2>6 DEF GoneInv
<1>4. ASSUME NEW n \in Names, result' = [skill |-> n, outcome |-> "output"]
      PROVE  /\ registry[n].from = "custom" /\ Settled(n) => files[n] # None
             /\ registry[n].from = "plugin" /\ Settled(registry[n].v) => plugins[registry[n].v] # None
             /\ registry[n].from = "mcp" => registry[n].v \notin gone
  <2>1. result'.skill = n /\ result'.outcome = "output"
    BY <1>4
  <2>2. ~ Ended
    BY <2>1 DEF Ended
  <2>3. ~ \E c \in Callers : CallTool(c)
    BY <2>1, CatalogAssumption DEF CallTool, SkillsAssumption
  <2>4. PICK m \in Names : Execute(m)
    BY <1>1, <2>2, <2>3, ResultsComeFrom
  <2>5. "output" \in Run(registry[n])
    BY <2>1, <2>4 DEF Execute
  <2>6. registry[n] \in Impl
    BY <1>2 DEF TypeOK
  <2>7. ASSUME registry[n].from = "custom", Settled(n), files[n] = None PROVE FALSE
    <3>1. n \in CustomNames /\ registry[n].v \in Versions
      BY <2>6, <2>7 DEF GoneInv, Impl
    <3>2. registry[n] = Custom(files[n])
      BY <1>2, <2>7, <3>1, SkillFacts DEF CatalogMatchesDisk
    <3>3. QED
      BY <2>7, <3>1, <3>2, SkillFacts DEF Custom
  <2>8. ASSUME registry[n].from = "plugin", Settled(registry[n].v)
        PROVE  plugins[registry[n].v] # None
    <3>1. registry[n].v \in Plugins
      BY <2>6, <2>8 DEF Impl
    <3>2. Run(registry[n]) = PluginRun(registry[n].v)
      BY <2>8 DEF Run
    <3>3. dirs[registry[n].v] # None
      BY <2>5, <3>2 DEF PluginRun
    <3>4. PluginRegistered(registry[n].v) /\ ~ Busy(registry[n].v) /\ up /\ registry[n].v \notin mixed
      BY <2>8 DEF PluginRegistered, Settled
    <3>5. Installed(registry[n].v) /\ \A c \in Callers : ~ Moves(c, registry[n].v)
      BY <3>1, <3>4 DEF SkillsInv, Moves, Busy
    <3>6. QED
      BY <3>3, <3>4, <3>5 DEF Installed, PluginListed
  <2>9. ASSUME registry[n].from = "mcp" PROVE registry[n].v \notin gone
    <3>1. Run(registry[n]) = ToolRun(registry[n].v)
      BY <2>9 DEF Run
    <3>2. QED
      BY <2>5, <3>1 DEF ToolRun, GoneInv
  <2>10. QED
    BY <2>7, <2>8, <2>9
<1>5. QED
  BY <1>3, <1>4 DEF GoneStaysSilent

LEMMA GoneAreSilent == Spec => GoneNeverRuns
BY SkillsInit, SkillsStep, GoneInit, GoneStep, SilentStep, PTL DEF Spec, GoneNeverRuns

-----------------------------------------------------------------------------
(* Hooks.  While Fire goes through the list no hook comes, goes or is        *)
(* switched; the answers so far are those of the hooks passed that apply,    *)
(* one each, in their order.                                                 *)

Hook == [name : Hooks, matcher : Patterns, enabled : BOOLEAN]
Heard == [name : Hooks, says : G!Answers]
Rounds == [at : {"run"}, tool : Tools, locked : BOOLEAN, i : Nat \ {0}, list : Seq(Hook), heard : Seq(Heard)]

Onward(r, said) == G!Round(r.tool, r.locked, r.i + 1, r.list, said)

\* Put says that what was heard are the answers of the hooks before i that apply to t.
Put(put, said, t, i) ==
    /\ \A k \in 1..Len(said) : /\ put[k] \in 1..Len(hooks) /\ put[k] < i
                                /\ G!Applies(hooks[put[k]], t) /\ said[k].name = hooks[put[k]].name
    /\ \A k, l \in 1..Len(said) : k < l => put[k] < put[l]
    /\ \A j \in 1..Len(hooks) : j < i /\ G!Applies(hooks[j], t) => \E k \in 1..Len(said) : put[k] = j

InOrder(a) ==
    LET r == asks[a]
    IN /\ r.i \in 1..(Len(hooks) + 1)
       /\ \A k \in 1..Len(r.heard) : r.heard[k].says \notin {"deny", "ask"}
       /\ \E put \in [1..Len(r.heard) -> Nat] : Put(put, r.heard, r.tool, r.i)

HookInv ==
    /\ hooks \in Seq(Hook)
    /\ asks = [a \in Asking |-> asks[a]]
    /\ \A a \in Asking : /\ asks[a].at \in {"idle", "run", "done"}
                         /\ asks[a].at = "run" => asks[a] \in Rounds
                         /\ asks[a].at = "run" /\ asks[a].locked => InOrder(a)

LEMMA HooksFixed == UNCHANGED <<Hook, Heard, Rounds>>
BY DEF Hook, Heard, Rounds, G!Answers

LEMMA HookInit == G!Init => HookInv
BY DEF G!Init, HookInv

\* What a change of the list leaves a list of hooks.
LEMMA RegisterHookStep == ASSUME HookInv, NEW h \in Hooks, NEW p \in Patterns, G!Register(h, p) PROVE hooks' \in Seq(Hook)
<1>1. PICK k : k = [name |-> h, matcher |-> p, enabled |-> TRUE]
  OBVIOUS
<1>2. k \in Hook
  BY <1>1 DEF Hook
<1>3. hooks' = Append(hooks, k)
  BY <1>1 DEF G!Register
<1>4. QED
  BY <1>2, <1>3 DEF HookInv

LEMMA FirstHook == ASSUME HookInv, NEW h, G!First(h) # 0 PROVE G!First(h) \in 1..Len(hooks)
<1> DEFINE I == {k \in 1..Len(hooks) : hooks[k].name = h}
<1>1. G!First(h) = IF I = {} THEN 0 ELSE G!Min(I)
  BY DEF G!First, G!SelectInSeq
<1>2. I # {} /\ I \subseteq Nat /\ Len(hooks) \in Nat
  BY <1>1 DEF HookInv
<1>3. PICK x \in I : \A y \in I : x <= y
  BY <1>2, LeastNumber
<1>4. G!Min(I) \in I
  BY <1>3 DEF G!Min
<1>5. QED
  BY <1>1, <1>2, <1>4

LEMMA JoinedHooks ==
    ASSUME NEW a \in Seq(Hook), NEW b \in Seq(Hook)
    PROVE  a \o b \in Seq(Hook) /\ Len(a \o b) = Len(a) + Len(b)
OBVIOUS

LEMMA RemoveHookStep ==
    ASSUME HookInv, NEW h \in Hooks, G!RemoveHook(h)
    PROVE  hooks' \in Seq(Hook) /\ Len(hooks') <= Len(hooks)
<1>1. PICK n : n = G!First(h)
  OBVIOUS
<1>2. hooks \in Seq(Hook) /\ n \in 1..Len(hooks)
  BY <1>1, FirstHook DEF G!RemoveHook, HookInv
<1>3. hooks' = G!RemoveAt(hooks, n)
  BY <1>1 DEF G!RemoveHook
<1>4. hooks' = SubSeq(hooks, 1, n - 1) \o SubSeq(hooks, n + 1, Len(hooks))
  BY <1>3 DEF G!RemoveAt
<1>5. /\ SubSeq(hooks, 1, n - 1) \in Seq(Hook) /\ Len(SubSeq(hooks, 1, n - 1)) = n - 1
      /\ SubSeq(hooks, n + 1, Len(hooks)) \in Seq(Hook)
      /\ Len(SubSeq(hooks, n + 1, Len(hooks))) = Len(hooks) - n
  BY <1>2
<1> DEFINE front == SubSeq(hooks, 1, n - 1)
           rest == SubSeq(hooks, n + 1, Len(hooks))
<1> HIDE DEF front, rest
<1>6. front \in Seq(Hook) /\ rest \in Seq(Hook) /\ Len(front) = n - 1 /\ Len(rest) = Len(hooks) - n
      /\ hooks' = front \o rest
  BY <1>4, <1>5 DEF front, rest
<1>7. front \o rest \in Seq(Hook) /\ Len(front \o rest) = Len(front) + Len(rest)
  <2>1. front \in Seq(Hook) /\ rest \in Seq(Hook)
    BY <1>6
  <2>2. QED
    BY <2>1, JoinedHooks
<1>8. n \in 1..Len(hooks) /\ Len(hooks) \in Nat
  BY <1>2
<1>9. QED
  BY <1>6, <1>7, <1>8

LEMMA SetEnabledStep ==
    ASSUME HookInv, NEW h \in Hooks, NEW on \in BOOLEAN, G!SetEnabled(h, on)
    PROVE  hooks' \in Seq(Hook) /\ Len(hooks') = Len(hooks)
<1>1. PICK n : n = G!First(h)
  OBVIOUS
<1>2. hooks \in Seq(Hook) /\ n \in 1..Len(hooks)
  BY <1>1, FirstHook DEF G!SetEnabled, HookInv
<1>3. PICK k : k = [hooks[n] EXCEPT !.enabled = on]
  OBVIOUS
<1>4. hooks[n] \in Hook
  BY <1>2
<1>5. k \in Hook
  BY <1>3, <1>4 DEF Hook
<1>6. hooks' = [hooks EXCEPT ![n] = k]
  BY <1>1, <1>3 DEF G!SetEnabled
<1>7. QED
  BY <1>2, <1>5, <1>6

\* The list changes only when nobody goes through it.
LEMMA ListStep ==
    ASSUME HookInv, hooks' \in Seq(Hook), G!Unlocked, asks' = asks
    PROVE  HookInv'
<1>1. \A a \in Asking : ~ (asks[a].at = "run" /\ asks[a].locked)
  BY DEF G!Unlocked
<1>2. QED
  BY <1>1, HooksFixed DEF HookInv

\* A step of one call.
LEMMA OneAsks ==
    ASSUME HookInv, NEW a \in Asking, NEW r, asks' = [asks EXCEPT ![a] = r], hooks' = hooks,
           r.at \in {"idle", "run", "done"},
           r.at = "run" => r \in Rounds,
           r.at = "run" /\ r.locked => InOrder(a)'
    PROVE  HookInv'
<1>1. asks' = [b \in Asking |-> IF b = a THEN r ELSE asks[b]]
  BY DEF HookInv
<1>2. asks'[a] = r /\ \A b \in Asking \ {a} : asks'[b] = asks[b]
  BY <1>1
<1>3. \A b \in Asking \ {a} : InOrder(b)' <=> InOrder(b)
  BY <1>2 DEF InOrder, Put, G!Applies, G!matchTool
<1>4. asks' = [b \in Asking |-> asks'[b]]
  BY <1>1
<1>5. QED
  BY <1>2, <1>3, <1>4, HooksFixed DEF HookInv

LEMMA AskStep ==
    ASSUME HookInv, NEW a \in Asking, NEW t \in Tools, NEW locked \in BOOLEAN, G!Ask(a, t, locked), hooks' = hooks
    PROVE  HookInv'
<1>1. PICK r : r = G!Round(t, locked, 1, IF locked THEN << >> ELSE hooks, << >>)
  OBVIOUS
<1>2. asks' = [asks EXCEPT ![a] = r] /\ asks'[a] = r
  BY <1>1 DEF G!Ask, HookInv
<1>3. hooks \in Seq(Hook) /\ Len(hooks) \in Nat
  BY DEF HookInv
<1>4. << >> \in Seq(Hook) /\ << >> \in Seq(Heard) /\ Len(<< >>) = 0
  OBVIOUS
<1>5. r \in Rounds /\ r.at = "run"
  BY <1>1, <1>3, <1>4 DEF Rounds, G!Round
<1>6. InOrder(a)'
  <2>1. r.heard = << >> /\ r.i = 1
    BY <1>1 DEF G!Round
  <2>2. PICK put \in [1..0 -> Nat] : TRUE
    <3>1. [k \in 1..0 |-> 0] \in [1..0 -> Nat]
      OBVIOUS
    <3>2. QED
      BY <3>1
  <2>3. asks'[a].heard = << >> /\ asks'[a].i = 1
    BY <1>2, <2>1
  <2>4. 1..Len(<< >>) = 1..0 /\ \A k \in 1..0 : FALSE
    BY <1>4
  <2>5. \A j \in 1..Len(hooks) : ~ (j < 1)
    BY <1>3
  <2>6. Put(put, << >>, asks'[a].tool, 1)
    BY <2>4, <2>5 DEF Put
  <2>7. Put(put, << >>, asks[a].tool, 1)'
    BY <2>6 DEF Put, G!Applies, G!matchTool
  <2>8. (\E p \in [1..Len(asks[a].heard) -> Nat] : Put(p, asks[a].heard, asks[a].tool, asks[a].i))'
    BY <2>2, <2>3, <2>4, <2>7
  <2>9. (asks[a].i \in 1..(Len(hooks) + 1))' /\ (\A k \in 1..Len(asks[a].heard) : asks[a].heard[k].says \notin {"deny", "ask"})'
    BY <1>3, <2>3, <2>4
  <2>10. QED
    BY <2>8, <2>9 DEF InOrder
<1>7. QED
  BY <1>2, <1>5, <1>6, OneAsks

\* The answer of the hook at i, if it is asked, comes last.
LEMMA PutMore ==
    ASSUME hooks \in Seq(Hook), NEW said \in Seq(Heard), NEW t, NEW i \in 1..Len(hooks), NEW word \in Heard,
           NEW put \in [1..Len(said) -> Nat], Put(put, said, t, i),
           G!Applies(hooks[i], t), word.name = hooks[i].name
    PROVE  \E more \in [1..Len(Append(said, word)) -> Nat] : Put(more, Append(said, word), t, i + 1)
<1> DEFINE n == Len(said)
           more == [k \in 1..(n + 1) |-> IF k = n + 1 THEN i ELSE put[k]]
<1>1. n \in Nat /\ Len(hooks) \in Nat /\ i \in Nat /\ Len(Append(said, word)) = n + 1
  OBVIOUS
<1>2. /\ Append(said, word)[n + 1] = word
      /\ \A k \in 1..n : Append(said, word)[k] = said[k]
  BY <1>1
<1>3. more \in [1..(n + 1) -> Nat] /\ more[n + 1] = i /\ \A k \in 1..n : more[k] = put[k]
  BY <1>1
<1> HIDE DEF more
<1>4. \A k \in 1..(n + 1) : k = n + 1 \/ k \in 1..n
  BY <1>1
<1>5. \A k \in 1..(n + 1) : /\ more[k] \in 1..Len(hooks) /\ more[k] < i + 1
                            /\ G!Applies(hooks[more[k]], t)
                            /\ Append(said, word)[k].name = hooks[more[k]].name
  <2>1. \A k \in 1..n : /\ put[k] \in 1..Len(hooks) /\ put[k] < i
                        /\ G!Applies(hooks[put[k]], t) /\ said[k].name = hooks[put[k]].name
    BY DEF Put
  <2>2. QED
    BY <1>1, <1>2, <1>3, <1>4, <2>1
<1>6. \A k, l \in 1..(n + 1) : k < l => more[k] < more[l]
  <2>1. /\ \A k \in 1..n : put[k] \in 1..Len(hooks) /\ put[k] < i
        /\ \A k, l \in 1..n : k < l => put[k] < put[l]
    BY DEF Put
  <2>2. \A k, l \in 1..(n + 1) : k < l => k \in 1..n /\ (l \in 1..n \/ l = n + 1)
    BY <1>1
  <2>3. \A k \in 1..n : more[k] = put[k] /\ put[k] < i
    BY <1>3, <2>1
  <2>4. QED
    BY <1>3, <2>1, <2>2, <2>3
<1>7. \A j \in 1..Len(hooks) : j < i + 1 /\ G!Applies(hooks[j], t) => \E k \in 1..(n + 1) : more[k] = j
  <2> SUFFICES ASSUME NEW j \in 1..Len(hooks), j < i + 1, G!Applies(hooks[j], t)
               PROVE  \E k \in 1..(n + 1) : more[k] = j
    OBVIOUS
  <2>1. CASE j = i
    BY <1>1, <1>3, <2>1
  <2>2. CASE j < i
    <3>1. PICK k \in 1..n : put[k] = j
      BY <2>2 DEF Put
    <3>2. QED
      BY <1>1, <1>3, <3>1
  <2>3. QED
    BY <1>1, <2>1, <2>2
<1>8. Put(more, Append(said, word), t, i + 1)
  BY <1>1, <1>5, <1>6, <1>7 DEF Put
<1>9. QED
  BY <1>1, <1>3, <1>8

LEMMA NextHookStep == ASSUME HookInv, NEW a \in Asking, G!NextHook(a) PROVE HookInv'
<1>1. PICK r : r = asks[a]
  OBVIOUS
<1>2. /\ r.at = "run" /\ r \in Rounds /\ hooks \in Seq(Hook) /\ hooks' = hooks
      /\ asks = [b \in Asking |-> asks[b]] /\ Len(hooks) \in Nat
      /\ r.locked => InOrder(a)
  <2>1. asks[a].at = "run" /\ hooks' = hooks
    BY DEF G!NextHook
  <2>2. hooks \in Seq(Hook) /\ asks = [b \in Asking |-> asks[b]]
    BY DEF HookInv
  <2>3. asks[a] \in Rounds /\ (asks[a].locked => InOrder(a))
    BY <2>1 DEF HookInv
  <2>4. Len(hooks) \in Nat
    BY <2>2
  <2>5. QED
    BY <1>1, <2>1, <2>2, <2>3, <2>4
<1>3. /\ G!Seen(a) = IF r.locked THEN hooks ELSE r.list
      /\ r.i \in Nat \ {0} /\ r.i <= Len(G!Seen(a)) /\ r.heard \in Seq(Heard) /\ r.tool \in Tools /\ r.locked \in BOOLEAN
  <2>1. G!Seen(a) = IF asks[a].locked THEN hooks ELSE asks[a].list
    BY DEF G!Seen
  <2>2. asks[a].i <= Len(G!Seen(a))
    BY DEF G!NextHook
  <2>3. r.i \in Nat \ {0} /\ r.heard \in Seq(Heard) /\ r.tool \in Tools /\ r.locked \in BOOLEAN /\ r.list \in Seq(Hook)
    BY <1>2 DEF Rounds
  <2>4. QED
    BY <1>1, <2>1, <2>2, <2>3
<1>4. PICK h : h = G!Seen(a)[r.i]
  OBVIOUS
<1>5. ASSUME NEW said \in Seq(Heard), NEW d, d = Onward(r, said)
      PROVE  /\ d \in Rounds /\ d.at = "run" /\ d.i = r.i + 1 /\ d.heard = said
             /\ d.tool = r.tool /\ d.locked = r.locked
  BY <1>2, <1>5 DEF Rounds, Onward, G!Round
<1>7. CASE ~ G!Applies(h, r.tool)
  <2> PICK on : on = Onward(r, r.heard)
    OBVIOUS
  <2>1. asks' = [asks EXCEPT ![a] = on] /\ asks'[a] = on
    BY <1>1, <1>2, <1>4, <1>7 DEF G!NextHook, Onward
  <2>0. /\ on \in Rounds /\ on.at = "run" /\ on.i = r.i + 1 /\ on.heard = r.heard
        /\ on.tool = r.tool /\ on.locked = r.locked
    BY <1>3, <1>5
  <2>2. ASSUME on.locked PROVE InOrder(a)'
    <3>1. r.locked /\ InOrder(a) /\ h = hooks[r.i] /\ r.i \in 1..Len(hooks)
      BY <1>2, <1>3, <1>4, <2>0, <2>2, <1>1 DEF InOrder
    <3>2. PICK put \in [1..Len(r.heard) -> Nat] : Put(put, r.heard, r.tool, r.i)
      BY <1>1, <3>1 DEF InOrder
    <3>3. Put(put, r.heard, r.tool, r.i + 1)
      <4>1. r.i \in Nat /\ Len(hooks) \in Nat /\ ~ G!Applies(hooks[r.i], r.tool)
        BY <1>2, <1>3, <1>7, <3>1
      <4>2. \A k \in 1..Len(r.heard) : put[k] \in 1..Len(hooks) /\ put[k] < r.i + 1
        BY <3>2, <4>1 DEF Put
      <4>3. \A j \in 1..Len(hooks) : j < r.i + 1 /\ G!Applies(hooks[j], r.tool) => j < r.i
        <5>1. \A j \in 1..Len(hooks) : j < r.i + 1 => j < r.i \/ j = r.i
          BY <4>1
        <5>2. QED
          BY <4>1, <5>1
      <4>4. QED
        BY <3>2, <4>2, <4>3 DEF Put
    <3>5. asks'[a].heard = r.heard /\ asks'[a].i = r.i + 1 /\ asks'[a].tool = r.tool
      BY <2>0, <2>1
    <3>6. (\E p \in [1..Len(asks[a].heard) -> Nat] : Put(p, asks[a].heard, asks[a].tool, asks[a].i))'
      <4>1. Put(put, r.heard, r.tool, r.i + 1)'
        BY <1>2, <3>3 DEF Put, G!Applies, G!matchTool
      <4>2. Put(put, asks[a].heard, asks[a].tool, asks[a].i)'
        BY <3>5, <4>1 DEF Put, G!Applies, G!matchTool
      <4>3. (put \in [1..Len(asks[a].heard) -> Nat])'
        BY <3>2, <3>5
      <4>4. QED
        BY <4>2, <4>3
    <3>7. /\ (asks[a].i \in 1..(Len(hooks) + 1))'
          /\ (\A k \in 1..Len(asks[a].heard) : asks[a].heard[k].says \notin {"deny", "ask"})'
      BY <1>1, <1>2, <3>1, <3>5 DEF InOrder
    <3>8. QED
      BY <3>6, <3>7 DEF InOrder
  <2>3. QED
    BY <1>2, <2>0, <2>1, <2>2, OneAsks
<1>8. CASE G!Applies(h, r.tool)
  <2>1. PICK word \in G!Answers :
          asks' = [asks EXCEPT ![a] =
             IF word \in {"deny", "ask"}
             THEN [at |-> "done", verdict |-> word,
                   heard |-> Append(r.heard, [name |-> h.name, says |-> word])]
             ELSE Onward(r, Append(r.heard, [name |-> h.name, says |-> word]))]
    BY <1>1, <1>4, <1>8 DEF G!NextHook, Onward
  <2>2. h.name \in Hooks
    <3>1. G!Seen(a) \in Seq(Hook)
      BY <1>2, <1>3 DEF Rounds
    <3>2. r.i \in 1..Len(G!Seen(a))
      <4>1. Len(G!Seen(a)) \in Nat
        BY <3>1
      <4>2. QED
        BY <1>3, <4>1
    <3>3. h \in Hook
      BY <1>4, <3>1, <3>2
    <3>4. QED
      BY <3>3 DEF Hook
  <2>3. PICK last : last = [name |-> h.name, says |-> word]
    OBVIOUS
  <2>4. last \in Heard /\ last.name = h.name /\ last.says = word
    BY <2>2, <2>3 DEF Heard
  <2>5. PICK said : said = Append(r.heard, last)
    OBVIOUS
  <2>6. said \in Seq(Heard) /\ Len(said) = Len(r.heard) + 1 /\ said[Len(r.heard) + 1] = last
        /\ Len(r.heard) \in Nat /\ \A k \in 1..Len(r.heard) : said[k] = r.heard[k]
    BY <1>3, <2>4, <2>5
  <2>7. CASE word \in {"deny", "ask"}
    <3>1. PICK d : d = [at |-> "done", verdict |-> word, heard |-> said]
      OBVIOUS
    <3>2. d.at = "done" /\ asks' = [asks EXCEPT ![a] = d]
      BY <2>1, <2>3, <2>5, <2>7, <3>1
    <3>3. QED
      BY <1>2, <3>2, OneAsks
  <2>8. CASE word \notin {"deny", "ask"}
    <3>1. PICK d : d = Onward(r, said)
      OBVIOUS
    <3>2. asks' = [asks EXCEPT ![a] = d]
      BY <2>1, <2>3, <2>5, <2>8, <3>1
    <3>3. /\ d \in Rounds /\ d.at = "run" /\ d.i = r.i + 1 /\ d.heard = said
          /\ d.tool = r.tool /\ d.locked = r.locked
      BY <1>5, <2>6, <3>1
    <3>4. asks'[a] = d
      BY <1>2, <3>2
    <3>5. ASSUME d.locked PROVE InOrder(a)'
      <4>1. r.locked /\ InOrder(a) /\ h = hooks[r.i] /\ r.i \in 1..Len(hooks)
        BY <1>1, <1>2, <1>3, <1>4, <3>3, <3>5 DEF InOrder
      <4>2. PICK put \in [1..Len(r.heard) -> Nat] : Put(put, r.heard, r.tool, r.i)
        BY <1>1, <4>1 DEF InOrder
      <4>3. \E more \in [1..Len(Append(r.heard, last)) -> Nat] : Put(more, Append(r.heard, last), r.tool, r.i + 1)
        BY <1>2, <1>3, <1>8, <2>4, <4>1, <4>2, PutMore
      <4>4. PICK more \in [1..Len(said) -> Nat] : Put(more, said, r.tool, r.i + 1)
        BY <2>5, <4>3
      <4>5. asks'[a].heard = said /\ asks'[a].i = r.i + 1 /\ asks'[a].tool = r.tool
        BY <3>3, <3>4
      <4>6. (\E p \in [1..Len(asks[a].heard) -> Nat] : Put(p, asks[a].heard, asks[a].tool, asks[a].i))'
        BY <1>2, <4>4, <4>5 DEF Put, G!Applies, G!matchTool
      <4>7. \A k \in 1..Len(said) : said[k].says \notin {"deny", "ask"}
        <5>1. \A k \in 1..Len(r.heard) : r.heard[k].says \notin {"deny", "ask"}
          BY <1>1, <4>1 DEF InOrder
        <5>2. \A k \in 1..Len(said) : k \in 1..Len(r.heard) \/ k = Len(r.heard) + 1
          BY <2>6
        <5>3. QED
          BY <2>4, <2>6, <2>8, <5>1, <5>2
      <4>8. QED
        BY <1>2, <4>1, <4>5, <4>6, <4>7 DEF InOrder
    <3>6. QED
      BY <1>2, <3>2, <3>3, <3>5, OneAsks
  <2>9. QED
    BY <2>7, <2>8
<1>9. QED
  BY <1>7, <1>8

LEMMA EndStep ==
    ASSUME HookInv, NEW a \in Asking, G!NoObjection(a) \/ G!CheckToolPermission(a)
    PROVE  HookInv'
<1>1. CASE G!NoObjection(a)
  <2>1. PICK r : r = [at |-> "done", verdict |-> "allow", heard |-> asks[a].heard]
    OBVIOUS
  <2>2. r.at = "done" /\ asks' = [asks EXCEPT ![a] = r] /\ hooks' = hooks
    BY <1>1, <2>1 DEF G!NoObjection
  <2>3. QED
    BY <2>2, OneAsks
<1>2. CASE G!CheckToolPermission(a)
  <2>1. PICK r : r = [at |-> "idle"]
    OBVIOUS
  <2>2. r.at = "idle" /\ asks' = [asks EXCEPT ![a] = r] /\ hooks' = hooks
    BY <1>2, <2>1 DEF G!CheckToolPermission
  <2>3. QED
    BY <2>2, OneAsks
<1>3. QED
  BY <1>1, <1>2

LEMMA HookStep == ASSUME HookInv, [G!Next]_G!vars PROVE HookInv'
<1>1. ASSUME UNCHANGED <<hooks, asks>> PROVE HookInv'
  <2>1. \A a \in Asking : InOrder(a)' <=> InOrder(a)
    BY <1>1 DEF InOrder, Put, G!Applies, G!matchTool
  <2>2. QED
    BY <1>1, <2>1, HooksFixed DEF HookInv
<1>2. CASE UNCHANGED G!vars
  BY <1>1, <1>2 DEF G!vars
<1>3. CASE \/ \E user \in UserFiles, project \in ProjectFiles : G!LoadFromFiles(user, project)
           \/ \E p \in Patterns, d \in {"deny", "allow"} :
                G!AddRule([pattern |-> p, decision |-> d, source |-> "code"])
           \/ \E m \in {"edit", "plan", "ask"} : G!SetMode(m)
           \/ G!SetModeBlocked
           \/ \E m \in {"default", "bypassPermissions"} : G!SetPermissionMode(m)
  BY <1>1, <1>3 DEF G!LoadFromFiles, G!AddRule, G!SetMode, G!SetModeBlocked, G!SetPermissionMode
<1>4. CASE \E h \in Hooks : \/ \E p \in Patterns : G!Register(h, p)
                            \/ G!RemoveHook(h)
                            \/ \E on \in BOOLEAN : G!SetEnabled(h, on)
  <2>1. hooks' \in Seq(Hook)
    BY <1>4, RegisterHookStep, RemoveHookStep, SetEnabledStep
  <2>2. G!Unlocked /\ asks' = asks
    BY <1>4 DEF G!Register, G!RemoveHook, G!SetEnabled
  <2>3. QED
    BY <2>1, <2>2, ListStep
<1>5. CASE \E a \in Asking, t \in Tools : G!Fire(a, t) \/ G!FireWithProgress(a, t)
  BY <1>5, AskStep DEF G!Fire, G!FireWithProgress
<1>6. CASE \E a \in Asking : G!NextHook(a) \/ G!NoObjection(a) \/ G!CheckToolPermission(a)
  BY <1>6, NextHookStep, EndStep
<1>7. QED
  BY <1>2, <1>3, <1>4, <1>5, <1>6 DEF G!Next

\* A round that ended over what Put says of it was heard as HookHeard asks.
LEMMA HeardOf ==
    ASSUME hooks \in Seq(Hook), NEW a \in Asking, NEW said \in Seq(Heard), NEW i \in Nat,
           NEW put \in [1..Len(said) -> Nat], Put(put, said, asks[a].tool, i),
           asks'[a].heard = said,
           asks'[a].verdict = "allow" => i > Len(hooks),
           {k \in 1..Len(said) : said[k].says \in {"deny", "ask"}}
              = IF asks'[a].verdict = "allow" THEN {} ELSE {Len(said)}
    PROVE  G!HookHeard(a)
<1> DEFINE due == {j \in DOMAIN hooks : G!Applies(hooks[j], asks[a].tool)}
<1>1. DOMAIN hooks = 1..Len(hooks) /\ DOMAIN said = 1..Len(said) /\ Len(hooks) \in Nat
  OBVIOUS
<1>2. /\ \A k \in 1..Len(said) : /\ put[k] \in 1..Len(hooks) /\ put[k] < i
                                 /\ G!Applies(hooks[put[k]], asks[a].tool)
                                 /\ said[k].name = hooks[put[k]].name
      /\ \A k, l \in 1..Len(said) : k < l => put[k] < put[l]
      /\ \A j \in 1..Len(hooks) : j < i /\ G!Applies(hooks[j], asks[a].tool) => \E k \in 1..Len(said) : put[k] = j
  BY DEF Put
<1>3. put \in [DOMAIN said -> due]
  BY <1>1, <1>2
<1>4. ASSUME NEW j \in due
      PROVE  \/ \E k \in DOMAIN said : put[k] = j
             \/ asks'[a].verdict # "allow" /\ \A k \in DOMAIN said : put[k] < j
  <2>1. j \in 1..Len(hooks) /\ G!Applies(hooks[j], asks[a].tool)
    BY <1>1, <1>4
  <2>2. CASE j < i
    BY <1>1, <1>2, <2>1, <2>2
  <2>3. CASE ~ (j < i)
    <3>1. asks'[a].verdict # "allow"
      BY <1>1, <2>1, <2>3
    <3>2. \A k \in 1..Len(said) : put[k] < j
      BY <1>2, <2>1, <2>3
    <3>3. QED
      BY <1>1, <3>1, <3>2
  <2>4. QED
    BY <2>2, <2>3
<1>5. \A k \in DOMAIN said : said[k].name = hooks[put[k]].name
  BY <1>1, <1>2
<1>6. \A k, l \in DOMAIN said : k < l => put[k] < put[l]
  BY <1>1, <1>2
<1>7. {k \in DOMAIN said : said[k].says \in {"deny", "ask"}}
         = IF asks'[a].verdict = "allow" THEN {} ELSE {Len(said)}
  BY <1>1
<1> HIDE DEF due
<1>8. \E p \in [DOMAIN said -> due] :
         /\ \A k \in DOMAIN said : said[k].name = hooks[p[k]].name
         /\ \A k, l \in DOMAIN said : k < l => p[k] < p[l]
         /\ \A j \in due : (\E k \in DOMAIN said : p[k] = j)
                           \/ (~ (asks'[a].verdict = "allow") /\ \A k \in DOMAIN said : p[k] < j)
  BY <1>3, <1>4, <1>5, <1>6
<1>9. QED
  BY <1>7, <1>8 DEF G!HookHeard, due

LEMMA ObjectionHeard ==
    ASSUME HookInv, NEW a \in Asking, G!NextHook(a), asks'[a].at = "done", asks[a].locked
    PROVE  G!HookHeard(a)
<1>1. PICK r : r = asks[a]
  OBVIOUS
<1>2. /\ r.at = "run" /\ r \in Rounds /\ hooks \in Seq(Hook) /\ Len(hooks) \in Nat /\ InOrder(a)
      /\ asks = [b \in Asking |-> asks[b]]
  <2>1. asks[a].at = "run" /\ hooks \in Seq(Hook) /\ asks = [b \in Asking |-> asks[b]]
    BY DEF G!NextHook, HookInv
  <2>2. asks[a] \in Rounds /\ InOrder(a)
    BY <2>1 DEF HookInv
  <2>3. Len(hooks) \in Nat
    BY <2>1
  <2>4. QED
    BY <1>1, <2>1, <2>2, <2>3
<1>3. G!Seen(a) = hooks /\ r.i \in 1..Len(hooks) /\ r.i \in Nat /\ r.heard \in Seq(Heard)
  <2>1. G!Seen(a) = hooks
    BY DEF G!Seen
  <2>2. asks[a].i <= Len(hooks)
    BY <2>1 DEF G!NextHook
  <2>3. r.i \in Nat \ {0} /\ r.heard \in Seq(Heard)
    BY <1>2 DEF Rounds
  <2>4. QED
    BY <1>1, <1>2, <2>1, <2>2, <2>3
<1>4. PICK h : h = hooks[r.i]
  OBVIOUS
<1>5. h \in Hook /\ h.name \in Hooks
  <2>1. h \in Hook
    BY <1>2, <1>3, <1>4
  <2>2. QED
    BY <2>1 DEF Hook
<1>6. G!Applies(h, r.tool)
  <2>1. SUFFICES ASSUME ~ G!Applies(h, r.tool) PROVE FALSE
    OBVIOUS
  <2>2. asks' = [asks EXCEPT ![a] = Onward(r, r.heard)]
    BY <1>1, <1>3, <1>4, <2>1 DEF G!NextHook, Onward
  <2>3. asks'[a].at = "run"
    BY <1>2, <2>2 DEF Onward, G!Round
  <2>4. QED
    BY <2>3
<1>7. PICK word \in G!Answers :
        asks' = [asks EXCEPT ![a] =
           IF word \in {"deny", "ask"}
           THEN [at |-> "done", verdict |-> word,
                 heard |-> Append(r.heard, [name |-> h.name, says |-> word])]
           ELSE Onward(r, Append(r.heard, [name |-> h.name, says |-> word]))]
  BY <1>1, <1>3, <1>4, <1>6 DEF G!NextHook, Onward
<1>8. word \in {"deny", "ask"}
  <2>1. SUFFICES ASSUME word \notin {"deny", "ask"} PROVE FALSE
    OBVIOUS
  <2>2. asks'[a] = Onward(r, Append(r.heard, [name |-> h.name, says |-> word]))
    BY <1>2, <1>7, <2>1
  <2>3. asks'[a].at = "run"
    BY <2>2 DEF Onward, G!Round
  <2>4. QED
    BY <2>3
<1>9. PICK last : last = [name |-> h.name, says |-> word]
  OBVIOUS
<1>10. last \in Heard /\ last.name = h.name /\ last.says = word
  BY <1>5, <1>9 DEF Heard
<1>11. PICK said : said = Append(r.heard, last)
  OBVIOUS
<1>12. /\ said \in Seq(Heard) /\ Len(said) = Len(r.heard) + 1 /\ said[Len(r.heard) + 1] = last
       /\ Len(r.heard) \in Nat /\ \A k \in 1..Len(r.heard) : said[k] = r.heard[k]
  BY <1>3, <1>10, <1>11
<1>13. asks'[a].heard = said /\ asks'[a].verdict = word
  <2>1. asks'[a] = [at |-> "done", verdict |-> word, heard |-> said]
    BY <1>2, <1>7, <1>8, <1>9, <1>11
  <2>2. QED
    BY <2>1
<1>14. PICK put \in [1..Len(r.heard) -> Nat] : Put(put, r.heard, r.tool, r.i)
  BY <1>1, <1>2 DEF InOrder
<1>15. \E more \in [1..Len(Append(r.heard, last)) -> Nat] : Put(more, Append(r.heard, last), r.tool, r.i + 1)
  BY <1>2, <1>3, <1>4, <1>6, <1>10, <1>14, PutMore
<1>16. PICK more \in [1..Len(said) -> Nat] : Put(more, said, r.tool, r.i + 1)
  BY <1>11, <1>15
<1>17. {k \in 1..Len(said) : said[k].says \in {"deny", "ask"}} = {Len(said)}
  <2>1. \A k \in 1..Len(r.heard) : r.heard[k].says \notin {"deny", "ask"}
    BY <1>1, <1>2 DEF InOrder
  <2>2. \A k \in 1..Len(said) : k \in 1..Len(r.heard) \/ k = Len(said)
    BY <1>12
  <2>3. Len(said) \in 1..Len(said) /\ said[Len(said)].says \in {"deny", "ask"}
    BY <1>8, <1>10, <1>12
  <2>4. QED
    BY <1>12, <2>1, <2>2, <2>3
<1>18. asks'[a].verdict # "allow" /\ r.i + 1 \in Nat
  BY <1>3, <1>8, <1>13
<1>19. QED
  BY <1>1, <1>2, <1>12, <1>13, <1>16, <1>17, <1>18, HeardOf

LEMMA AllHeard ==
    ASSUME HookInv, NEW a \in Asking, G!NoObjection(a), asks[a].locked
    PROVE  G!HookHeard(a)
<1>1. /\ asks[a].at = "run" /\ hooks \in Seq(Hook) /\ asks = [b \in Asking |-> asks[b]]
      /\ asks[a].i > Len(hooks)
      /\ asks' = [asks EXCEPT ![a] = [at |-> "done", verdict |-> "allow", heard |-> asks[a].heard]]
  BY DEF G!NoObjection, HookInv, G!Seen
<1>2. asks[a] \in Rounds /\ InOrder(a)
  BY <1>1 DEF HookInv
<1>3. asks[a].i \in Nat /\ asks[a].heard \in Seq(Heard)
  BY <1>2 DEF Rounds
<1>4. asks'[a].heard = asks[a].heard /\ asks'[a].verdict = "allow"
  BY <1>1
<1>5. PICK put \in [1..Len(asks[a].heard) -> Nat] : Put(put, asks[a].heard, asks[a].tool, asks[a].i)
  BY <1>2 DEF InOrder
<1>6. {k \in 1..Len(asks[a].heard) : asks[a].heard[k].says \in {"deny", "ask"}} = {}
  BY <1>2 DEF InOrder
<1>7. QED
  BY <1>1, <1>3, <1>4, <1>5, <1>6, HeardOf

LEMMA RoundsEndHeard ==
    ASSUME HookInv, [G!Next]_G!vars
    PROVE  [\A a \in Asking : asks[a].at = "run" /\ asks'[a].at = "done" /\ asks[a].locked => G!HookHeard(a)]_G!vars
<1> SUFFICES ASSUME G!Next, NEW a \in Asking, asks[a].at = "run", asks'[a].at = "done", asks[a].locked
             PROVE  G!HookHeard(a)
  OBVIOUS
<1>0. asks = [b \in Asking |-> asks[b]]
  BY DEF HookInv
<1>1. asks' # asks
  OBVIOUS
<1>2. PICK b \in Asking : (\E t \in Tools : G!Fire(b, t) \/ G!FireWithProgress(b, t))
                          \/ G!NextHook(b) \/ G!NoObjection(b) \/ G!CheckToolPermission(b)
  BY <1>1 DEF G!Next, G!LoadFromFiles, G!AddRule, G!SetMode, G!SetModeBlocked, G!SetPermissionMode,
              G!Register, G!RemoveHook, G!SetEnabled
<1>3. PICK r : asks' = [asks EXCEPT ![b] = r]
  BY <1>2 DEF G!Fire, G!FireWithProgress, G!Ask, G!NextHook, G!NoObjection, G!CheckToolPermission
<1>4. b = a
  BY <1>0, <1>3
<1>5. ~ (\E t \in Tools : G!Fire(a, t) \/ G!FireWithProgress(a, t)) /\ ~ G!CheckToolPermission(a)
  BY DEF G!Fire, G!FireWithProgress, G!Ask, G!CheckToolPermission
<1>6. CASE G!NextHook(a)
  BY <1>6, ObjectionHeard
<1>7. CASE G!NoObjection(a)
  BY <1>7, AllHeard
<1>8. QED
  BY <1>2, <1>4, <1>5, <1>6, <1>7

LEMMA HooksAreHeard == G!Spec => G!EveryHookHeard
<1>1. G!Init => HookInv
  BY HookInit
<1>2. HookInv /\ [G!Next]_G!vars => HookInv'
  BY HookStep
<1>3. HookInv /\ [G!Next]_G!vars
        => [\A a \in Asking : asks[a].at = "run" /\ asks'[a].at = "done" /\ asks[a].locked => G!HookHeard(a)]_G!vars
  BY RoundsEndHeard
<1>4. QED
  BY <1>1, <1>2, <1>3, PTL DEF G!Spec, G!EveryHookHeard

-----------------------------------------------------------------------------
(* Guard, what the checks and the hooks work on.                             *)

ModesInv ==
    /\ mode \in G!PermissionModes /\ current \in {"edit", "plan", "ask", "auto"}
    /\ modeBlocked \subseteq Patterns
    /\ Len(hooks) <= MaxHooks

LEMMA BlockedFacts == \A m : G!BlockedTools(m) \subseteq Patterns
<1>1. G!Star \in Patterns /\ PlanBlocked \subseteq Patterns
  BY GuardAssumption DEF G!GuardAssumption, G!Star
<1>2. QED
  BY <1>1 DEF G!BlockedTools

LEMMA ModeFacts ==
    ASSUME NEW f \in UserFiles \cup ProjectFiles, f # NoFile, f.mode # NoMode
    PROVE  f.mode \in G!PermissionModes
BY GuardAssumption DEF G!GuardAssumption, G!Settings

LEMMA ModesInit == G!Init => ModesInv
<1> SUFFICES ASSUME G!Init PROVE ModesInv
  OBVIOUS
<1>1. mode \in G!PermissionModes
  <2>1. "default" \in G!PermissionModes
    BY DEF G!PermissionModes
  <2>2. QED
    BY <2>1, ModeFacts DEF G!Init
<1>2. hooks = << >> /\ MaxHooks \in Nat
  BY GuardAssumption DEF G!GuardAssumption, G!Init
<1>3. Len(hooks) <= MaxHooks
  BY <1>2
<1>4. QED
  BY <1>1, <1>3, BlockedFacts DEF G!Init, ModesInv

LEMMA ModesStep == ASSUME HookInv, ModesInv, [G!Next]_G!vars PROVE ModesInv'
<1>1. ASSUME NEW user \in UserFiles, NEW project \in ProjectFiles, G!LoadFromFiles(user, project)
      PROVE  ModesInv'
  <2>1. mode' \in G!PermissionModes
    BY <1>1, ModeFacts DEF G!LoadFromFiles, ModesInv
  <2>2. QED
    BY <1>1, <2>1 DEF G!LoadFromFiles, ModesInv, G!PermissionModes
<1>2. CASE \/ \E p \in Patterns, d \in {"deny", "allow"} :
                G!AddRule([pattern |-> p, decision |-> d, source |-> "code"])
           \/ \E m \in {"edit", "plan", "ask"} : G!SetMode(m)
           \/ \E m \in {"default", "bypassPermissions"} : G!SetPermissionMode(m)
  BY <1>2 DEF G!AddRule, G!SetMode, G!SetPermissionMode, ModesInv, G!PermissionModes
<1>3. CASE G!SetModeBlocked
  BY <1>3, BlockedFacts DEF G!SetModeBlocked, ModesInv, G!PermissionModes
<1>4. ASSUME NEW h \in Hooks, NEW p \in Patterns, G!Register(h, p) PROVE ModesInv'
  <2>1. PICK k : k = [name |-> h, matcher |-> p, enabled |-> TRUE]
    OBVIOUS
  <2>2. hooks' = Append(hooks, k) /\ hooks \in Seq(Hook) /\ Len(hooks) < MaxHooks
    BY <1>4, <2>1 DEF G!Register, HookInv
  <2>3. k \in Hook
    BY <2>1 DEF Hook
  <2>4. Len(hooks') = Len(hooks) + 1 /\ Len(hooks) \in Nat
    BY <2>2, <2>3
  <2>5. MaxHooks \in Nat
    BY GuardAssumption DEF G!GuardAssumption
  <2>6. Len(hooks') <= MaxHooks
    BY <2>2, <2>4, <2>5
  <2>7. QED
    BY <1>4, <2>6 DEF G!Register, G!permissions, ModesInv, G!PermissionModes
<1>5. ASSUME NEW h \in Hooks, G!RemoveHook(h) \/ \E on \in BOOLEAN : G!SetEnabled(h, on) PROVE ModesInv'
  <2>1. hooks' \in Seq(Hook) /\ Len(hooks') <= Len(hooks)
    <3>1. CASE G!RemoveHook(h)
      BY <3>1, RemoveHookStep
    <3>2. ASSUME NEW on \in BOOLEAN, G!SetEnabled(h, on) PROVE hooks' \in Seq(Hook) /\ Len(hooks') = Len(hooks)
      BY <3>2, SetEnabledStep
    <3>3. hooks \in Seq(Hook)
      BY DEF HookInv
    <3>4. Len(hooks) \in Nat
      BY <3>3
    <3>5. QED
      BY <1>5, <3>1, <3>2, <3>4
  <2>2. hooks \in Seq(Hook) /\ MaxHooks \in Nat
    BY GuardAssumption DEF G!GuardAssumption, HookInv
  <2>3. Len(hooks) \in Nat /\ Len(hooks') \in Nat
    BY <2>1, <2>2
  <2>4. Len(hooks') <= MaxHooks
    BY <2>1, <2>2, <2>3 DEF ModesInv
  <2>5. QED
    BY <1>5, <2>4 DEF G!RemoveHook, G!SetEnabled, G!permissions, ModesInv, G!PermissionModes
<1>6. CASE \E a \in Asking : \/ \E t \in Tools : G!Fire(a, t) \/ G!FireWithProgress(a, t)
                             \/ G!NextHook(a) \/ G!NoObjection(a) \/ G!CheckToolPermission(a)
  BY <1>6 DEF G!Fire, G!FireWithProgress, G!NextHook, G!NoObjection, G!CheckToolPermission, G!permissions,
              ModesInv, G!PermissionModes
<1>7. CASE UNCHANGED G!vars
  BY <1>7 DEF G!vars, G!permissions, ModesInv, G!PermissionModes
<1>8. QED
  BY <1>1, <1>2, <1>3, <1>4, <1>5, <1>6, <1>7 DEF G!Next

LEMMA GuardTypes == G!Spec => []G!TypeOK
<1>1. GuardInv /\ HookInv /\ ModesInv => G!TypeOK
  <2> SUFFICES ASSUME GuardInv, HookInv, ModesInv PROVE G!TypeOK
    OBVIOUS
  <2>1. rules \in Seq(Rule)
    BY DEF GuardInv
  <2>2. \A i \in DOMAIN rules : rules[i] \in Rule
    BY <2>1
  <2>3. \A i \in DOMAIN rules : rules[i].pattern \in Patterns /\ rules[i].decision \in {"deny", "ask", "allow"}
    BY <2>2 DEF Rule, Decisions
  <2>4. QED
    BY <2>3 DEF HookInv, ModesInv, G!TypeOK
<1>2. QED
  BY <1>1, GuardInit, GuardStep, HookInit, HookStep, ModesInit, ModesStep, PTL DEF G!Spec

-----------------------------------------------------------------------------
(* Knowledge.  What a process has migrated so far is there, whoever migrated *)
(* it: a version that is recorded or applied stays, and so do those before.  *)

Stages == {"idle", "migrate", "apply", "embed", "insert", "serve", "done", "exited"}

TablesInv ==
    /\ driver \in {"sqlite", "postgres"}
    /\ tables \subseteq 1..Migrations /\ recorded \subseteq tables
    /\ \A v \in tables : 1..v \subseteq tables
    /\ applied = [v \in 1..Migrations |-> applied[v]]
    /\ driver = "postgres" =>
         recorded = tables /\ \A v \in 1..Migrations : applied[v] = IF v \in recorded THEN 1 ELSE 0

RunsInv ==
    /\ runs \in Nat
    /\ run = [p \in Ingests |-> run[p]]
    /\ \A p \in Ingests : run[p] = [no |-> run[p].no, text |-> run[p].text, size |-> run[p].size,
                                    chunks |-> run[p].chunks, failed |-> run[p].failed]
    /\ \A r \in rows : r.run \in 1..runs /\ r.index \in Nat \ {0}

Ahead(p) ==
    /\ processAt[p] \in {"migrate", "apply"} => at[p] <= Migrations + 1 /\ 1..(at[p] - 1) \subseteq tables
    /\ processAt[p] = "apply" => driver = "postgres" /\ at[p] <= Migrations
    /\ processAt[p] = "serve" => tables = 1..Migrations
    /\ p \in Ingests /\ driver = "sqlite" /\ processAt[p] \in {"embed", "insert"} => tables = 1..Migrations
    /\ p \in Ingests /\ processAt[p] # "idle" => run[p].no \in 1..runs

SchemaInv ==
    /\ TablesInv /\ RunsInv
    /\ processAt \in [K!Processes -> Stages] /\ at \in [K!Processes -> Nat \ {0}]
    /\ \A p \in K!Processes : Ahead(p)

LEMMA KnowledgeFacts == Migrations \in Nat /\ Documents \in 1..Migrations
BY KnowledgeAssumption DEF K!KnowledgeAssumption

LEMMA SchemaInit == K!Init => SchemaInv
<1> SUFFICES ASSUME K!Init PROVE SchemaInv
  OBVIOUS
<1>1. TablesInv
  BY KnowledgeFacts DEF K!Init, TablesInv
<1>2. RunsInv
  BY DEF K!Init, K!NoRun, RunsInv
<1>3. processAt \in [K!Processes -> Stages] /\ at \in [K!Processes -> Nat \ {0}]
  BY DEF K!Init, Stages
<1>4. \A p \in K!Processes : Ahead(p)
  BY DEF K!Init, Ahead
<1>5. QED
  BY <1>1, <1>2, <1>3, <1>4 DEF SchemaInv

\* A step of one process, which takes no table away.
LEMMA OneProcess ==
    ASSUME SchemaInv, NEW p \in K!Processes, NEW l \in Stages, NEW n \in Nat \ {0},
           processAt' = [processAt EXCEPT ![p] = l], at' = [at EXCEPT ![p] = n],
           driver' = driver, TablesInv', RunsInv', tables \subseteq tables', runs <= runs',
           \A q \in Ingests \ {p} : run'[q] = run[q],
           Ahead(p)'
    PROVE  SchemaInv'
<1>1. processAt' \in [K!Processes -> Stages] /\ at' \in [K!Processes -> Nat \ {0}]
  BY DEF SchemaInv
<1>2. \A q \in K!Processes \ {p} : processAt'[q] = processAt[q] /\ at'[q] = at[q]
  BY DEF SchemaInv
<1>3. tables' \subseteq 1..Migrations /\ runs \in Nat /\ runs' \in Nat
  BY DEF SchemaInv, TablesInv, RunsInv
<1>4. ASSUME NEW q \in K!Processes \ {p} PROVE Ahead(q)'
  <2>1. Ahead(q) /\ at[q] \in Nat \ {0}
    BY DEF SchemaInv
  <2>2. processAt'[q] = processAt[q] /\ at'[q] = at[q]
    BY <1>2
  <2>3. q \in Ingests => run'[q] = run[q]
    OBVIOUS
  <2>4. 1..runs \subseteq 1..runs'
    BY <1>3
  <2>5. tables = 1..Migrations => tables' = 1..Migrations
    BY <1>3
  <2>6. QED
    BY <2>1, <2>2, <2>3, <2>4, <2>5 DEF Ahead
<1>5. \A q \in K!Processes : Ahead(q)'
  BY <1>4
<1>6. (K!Processes)' = K!Processes /\ Stages' = Stages
  BY DEF K!Processes, Stages
<1>7. QED
  BY <1>1, <1>5, <1>6 DEF SchemaInv

\* The same, where neither the schema nor the runs change.
LEMMA ProcessMoves ==
    ASSUME SchemaInv, NEW p \in K!Processes, NEW l \in Stages, NEW n \in Nat \ {0},
           processAt' = [processAt EXCEPT ![p] = l], at' = [at EXCEPT ![p] = n],
           UNCHANGED <<driver, tables, recorded, applied, run, rows, runs>>,
           processAt'[p] = l /\ at'[p] = n => Ahead(p)'
    PROVE  SchemaInv'
<1>1. TablesInv' /\ RunsInv'
  BY DEF SchemaInv, TablesInv, RunsInv
<1>2. processAt'[p] = l /\ at'[p] = n
  BY DEF SchemaInv
<1>3. runs <= runs' /\ tables \subseteq tables' /\ \A q \in Ingests \ {p} : run'[q] = run[q]
  BY DEF SchemaInv, RunsInv
<1>4. QED
  BY <1>1, <1>2, <1>3, OneProcess

LEMMA StartsStep ==
    ASSUME SchemaInv, NEW p \in Services, K!StartProgram(p)
    PROVE  SchemaInv'
<1>1. /\ processAt' = [processAt EXCEPT ![p] = "migrate"] /\ at' = [at EXCEPT ![p] = 1]
      /\ UNCHANGED <<driver, tables, recorded, applied, run, rows>> /\ runs' = runs + 1
      /\ p \in K!Processes /\ "migrate" \in Stages
  BY DEF K!StartProgram, K!Starts, K!Goto, K!schema, K!Processes, Stages
<1>2. TablesInv'
  BY <1>1 DEF SchemaInv, TablesInv
<1>3. runs \in Nat /\ runs' \in Nat /\ runs <= runs' /\ 1..runs \subseteq 1..runs'
  BY <1>1 DEF SchemaInv, RunsInv
<1>4. RunsInv'
  BY <1>1, <1>3 DEF SchemaInv, RunsInv
<1>5. processAt'[p] = "migrate" /\ at'[p] = 1
  BY <1>1 DEF SchemaInv
<1>6. p \notin Ingests
  BY KnowledgeAssumption DEF K!KnowledgeAssumption
<1>7. Ahead(p)'
  BY <1>5, <1>6, KnowledgeFacts DEF Ahead
<1>8. tables \subseteq tables' /\ 1 \in Nat \ {0} /\ \A q \in Ingests \ {p} : run'[q] = run[q]
  BY <1>1
<1>9. QED
  BY <1>1, <1>2, <1>3, <1>4, <1>7, <1>8, OneProcess

LEMMA IngestStarts ==
    ASSUME SchemaInv, NEW p \in Ingests, NEW f \in Ingested, NEW size \in Sizes, K!StartIngest(p, f, size)
    PROVE  SchemaInv'
<1>1. PICK l : l = IF driver = "sqlite" THEN "migrate" ELSE "embed"
  OBVIOUS
<1>2. PICK new : new = [no |-> runs', text |-> text[f], size |-> size, failed |-> {},
                        chunks |-> K!ChunkText(Paragraphs[text[f]], size)]
  OBVIOUS
<1>3. /\ processAt' = [processAt EXCEPT ![p] = l] /\ at' = [at EXCEPT ![p] = 1]
      /\ UNCHANGED <<driver, tables, recorded, applied, rows>> /\ runs' = runs + 1
      /\ run' = [run EXCEPT ![p] = new]
      /\ p \in K!Processes /\ l \in Stages
  BY <1>1, <1>2 DEF K!StartIngest, K!Starts, K!Goto, K!schema, K!Processes, Stages
<1>4. TablesInv'
  BY <1>3 DEF SchemaInv, TablesInv
<1>5. runs \in Nat /\ runs' \in Nat /\ runs <= runs' /\ 1..runs \subseteq 1..runs' /\ runs' \in 1..runs'
  BY <1>3 DEF SchemaInv, RunsInv
<1>6. run' = [q \in Ingests |-> IF q = p THEN new ELSE run[q]]
  BY <1>3 DEF SchemaInv, RunsInv
<1>7. new = [no |-> new.no, text |-> new.text, size |-> new.size, chunks |-> new.chunks, failed |-> new.failed]
      /\ new.no = runs'
  BY <1>2
<1>8. RunsInv'
  BY <1>3, <1>5, <1>6, <1>7 DEF SchemaInv, RunsInv
<1>9. processAt'[p] = l /\ at'[p] = 1 /\ run'[p] = new
  BY <1>3, <1>6 DEF SchemaInv
<1>10. Ahead(p)'
  BY <1>1, <1>3, <1>5, <1>7, <1>9, KnowledgeFacts DEF Ahead
<1>11. /\ \A q \in Ingests \ {p} : run'[q] = run[q]
       /\ tables \subseteq tables' /\ 1 \in Nat \ {0}
  BY <1>3, <1>6
<1>12. QED
  BY <1>3, <1>4, <1>5, <1>8, <1>10, <1>11, OneProcess

LEMMA MigratedStep == ASSUME SchemaInv, NEW p \in K!Processes, K!Migrated(p) PROVE SchemaInv'
<1>1. PICK l : l = IF p \in Services THEN "serve" ELSE "embed"
  OBVIOUS
<1>2. /\ processAt[p] = "migrate" /\ at[p] > Migrations
      /\ processAt' = [processAt EXCEPT ![p] = l] /\ at' = [at EXCEPT ![p] = 1]
      /\ UNCHANGED <<driver, tables, recorded, applied, run, rows, runs>> /\ l \in Stages
  BY <1>1 DEF K!Migrated, K!Goto, K!schema, Stages
<1>3. Ahead(p) /\ at[p] \in Nat \ {0} /\ tables \subseteq 1..Migrations
  BY DEF SchemaInv, TablesInv
<1>4. tables = 1..Migrations
  <2>1. at[p] = Migrations + 1 /\ 1..(at[p] - 1) \subseteq tables
    BY <1>2, <1>3, KnowledgeFacts DEF Ahead
  <2>2. at[p] - 1 = Migrations
    BY <2>1, KnowledgeFacts
  <2>3. QED
    BY <1>3, <2>1, <2>2
<1>5. processAt'[p] = l /\ at'[p] = 1 => Ahead(p)'
  BY <1>1, <1>2, <1>3, <1>4 DEF Ahead
<1>6. 1 \in Nat \ {0}
  OBVIOUS
<1>7. QED
  BY <1>2, <1>5, <1>6, ProcessMoves

LEMMA SQLiteStep == ASSUME SchemaInv, NEW p \in K!Processes, K!MigrateSQLite(p) PROVE SchemaInv'
<1>1. /\ driver = "sqlite" /\ processAt[p] = "migrate" /\ at[p] <= Migrations
      /\ UNCHANGED <<driver, recorded, applied, run, rows, runs>>
  BY DEF K!MigrateSQLite
<1>2. Ahead(p) /\ at[p] \in Nat \ {0} /\ TablesInv /\ RunsInv
  BY DEF SchemaInv
<1>3. CASE tables' = tables \cup {at[p]} /\ K!Step(p, "migrate")
  <2>1. PICK n : n = at[p]
    OBVIOUS
  <2>2. n \in 1..Migrations /\ 1..(n - 1) \subseteq tables /\ n + 1 \in Nat \ {0}
    BY <1>1, <1>2, <2>1, KnowledgeFacts DEF Ahead
  <2>3. /\ processAt' = [processAt EXCEPT ![p] = "migrate"] /\ at' = [at EXCEPT ![p] = n + 1]
        /\ tables' = tables \cup {n}
    BY <1>3, <2>1 DEF K!Step, K!Goto
  <2>4. 1..n = 1..(n - 1) \cup {n}
    BY <2>2
  <2>5. TablesInv'
    BY <1>1, <1>2, <2>2, <2>3, <2>4 DEF TablesInv
  <2>6. processAt'[p] = "migrate" /\ at'[p] = n + 1
    BY <2>3 DEF SchemaInv
  <2>7. Ahead(p)'
    <3>1. n + 1 <= Migrations + 1 /\ (n + 1) - 1 = n /\ 1..n \subseteq tables'
      BY <2>2, <2>3, <2>4, KnowledgeFacts
    <3>2. at'[p] <= Migrations + 1 /\ 1..(at'[p] - 1) \subseteq tables'
      BY <2>6, <3>1
    <3>3. QED
      BY <1>1, <1>2, <2>6, <3>2 DEF Ahead
  <2>8. RunsInv' /\ runs <= runs' /\ "migrate" \in Stages
    BY <1>1, <1>2 DEF RunsInv, Stages
  <2>9. QED
    BY <1>1, <2>2, <2>3, <2>5, <2>7, <2>8, OneProcess
<1>4. CASE K!Exit(p) /\ UNCHANGED tables
  <2>1. processAt' = [processAt EXCEPT ![p] = "exited"] /\ at' = [at EXCEPT ![p] = at[p]] /\ "exited" \in Stages
    BY <1>4 DEF K!Exit, K!Goto, Stages, SchemaInv
  <2>2. processAt'[p] = "exited" /\ at'[p] = at[p] => Ahead(p)'
    BY <1>1, <1>2 DEF Ahead
  <2>3. QED
    BY <1>1, <1>2, <1>4, <2>1, <2>2, ProcessMoves
<1>5. QED
  BY <1>3, <1>4 DEF K!MigrateSQLite

LEMMA CheckVersionStep == ASSUME SchemaInv, NEW p \in K!Processes, K!CheckVersion(p) PROVE SchemaInv'
<1>1. /\ driver = "postgres" /\ processAt[p] = "migrate" /\ at[p] <= Migrations
      /\ UNCHANGED <<driver, tables, recorded, applied, run, rows, runs>>
  BY DEF K!CheckVersion, K!schema
<1>2. Ahead(p) /\ at[p] \in Nat \ {0} /\ TablesInv
  BY DEF SchemaInv
<1>3. CASE at[p] \in recorded
  <2>1. PICK n : n = at[p]
    OBVIOUS
  <2>2. n \in 1..Migrations /\ n \in tables /\ 1..n \subseteq tables /\ n + 1 \in Nat \ {0}
    BY <1>1, <1>2, <1>3, <2>1, KnowledgeFacts DEF TablesInv
  <2>3. processAt' = [processAt EXCEPT ![p] = "migrate"] /\ at' = [at EXCEPT ![p] = n + 1] /\ "migrate" \in Stages
    BY <1>3, <2>1 DEF K!CheckVersion, K!Step, K!Goto, Stages
  <2>4. n + 1 <= Migrations + 1 /\ (n + 1) - 1 = n
    BY <2>2, KnowledgeFacts
  <2>5. processAt'[p] = "migrate" /\ at'[p] = n + 1 => Ahead(p)'
    BY <1>1, <1>2, <2>2, <2>4 DEF Ahead
  <2>6. QED
    BY <1>1, <2>2, <2>3, <2>5, ProcessMoves
<1>4. CASE at[p] \notin recorded
  <2>1. processAt' = [processAt EXCEPT ![p] = "apply"] /\ at' = [at EXCEPT ![p] = at[p]] /\ "apply" \in Stages
    BY <1>4 DEF K!CheckVersion, K!Goto, Stages, SchemaInv
  <2>2. processAt'[p] = "apply" /\ at'[p] = at[p] => Ahead(p)'
    BY <1>1, <1>2 DEF Ahead
  <2>3. QED
    BY <1>1, <1>2, <2>1, <2>2, ProcessMoves
<1>5. QED
  BY <1>3, <1>4

LEMMA ApplyStep == ASSUME SchemaInv, NEW p \in K!Processes, K!ApplyVersion(p) PROVE SchemaInv'
<1>1. processAt[p] = "apply" /\ UNCHANGED <<driver, run, rows, runs>>
  BY DEF K!ApplyVersion
<1>2. Ahead(p) /\ at[p] \in Nat \ {0} /\ TablesInv /\ RunsInv
  BY DEF SchemaInv
<1>3. driver = "postgres" /\ at[p] <= Migrations
  BY <1>1, <1>2 DEF Ahead
<1>4. CASE /\ at[p] \notin recorded
           /\ tables' = tables \cup {at[p]} /\ recorded' = recorded \cup {at[p]}
           /\ applied' = [applied EXCEPT ![at[p]] = @ + 1] /\ K!Step(p, "migrate")
  <2>1. PICK n : n = at[p]
    OBVIOUS
  <2>2. n \in 1..Migrations /\ 1..(n - 1) \subseteq tables /\ n + 1 \in Nat \ {0} /\ n \notin recorded
    BY <1>1, <1>2, <1>3, <1>4, <2>1, KnowledgeFacts DEF Ahead
  <2>3. /\ processAt' = [processAt EXCEPT ![p] = "migrate"] /\ at' = [at EXCEPT ![p] = n + 1]
        /\ tables' = tables \cup {n} /\ recorded' = recorded \cup {n}
        /\ applied' = [applied EXCEPT ![n] = applied[n] + 1]
    BY <1>4, <2>1 DEF K!Step, K!Goto
  <2>4. 1..n = 1..(n - 1) \cup {n}
    BY <2>2
  <2>5. \A v \in 1..Migrations : applied'[v] = IF v \in recorded' THEN 1 ELSE 0
    BY <1>2, <1>3, <2>2, <2>3 DEF TablesInv
  <2>6. applied' = [v \in 1..Migrations |-> applied'[v]]
    BY <1>2, <2>3 DEF TablesInv
  <2>7. \A v \in tables' : 1..v \subseteq tables'
    BY <1>2, <2>3, <2>4, <2>2 DEF TablesInv
  <2>8. TablesInv'
    BY <1>1, <1>2, <1>3, <2>2, <2>3, <2>5, <2>6, <2>7 DEF TablesInv
  <2>9. processAt'[p] = "migrate" /\ at'[p] = n + 1
    BY <2>3 DEF SchemaInv
  <2>10. Ahead(p)'
    <3>1. n + 1 <= Migrations + 1 /\ (n + 1) - 1 = n /\ 1..n \subseteq tables'
      BY <2>2, <2>3, <2>4, KnowledgeFacts
    <3>2. at'[p] <= Migrations + 1 /\ 1..(at'[p] - 1) \subseteq tables'
      BY <2>9, <3>1
    <3>3. QED
      BY <1>1, <1>2, <2>9, <3>2 DEF Ahead
  <2>11. RunsInv' /\ runs <= runs' /\ "migrate" \in Stages
    BY <1>1, <1>2 DEF RunsInv, Stages
  <2>12. QED
    BY <1>1, <2>2, <2>3, <2>8, <2>10, <2>11, OneProcess
<1>5. CASE K!Exit(p) /\ UNCHANGED <<tables, recorded, applied>>
  <2>1. processAt' = [processAt EXCEPT ![p] = "exited"] /\ at' = [at EXCEPT ![p] = at[p]] /\ "exited" \in Stages
    BY <1>5 DEF K!Exit, K!Goto, Stages, SchemaInv
  <2>2. processAt'[p] = "exited" /\ at'[p] = at[p] => Ahead(p)'
    BY <1>1, <1>2 DEF Ahead
  <2>3. QED
    BY <1>1, <1>2, <1>5, <2>1, <2>2, ProcessMoves
<1>6. QED
  BY <1>4, <1>5 DEF K!ApplyVersion, K!schema

LEMMA MissedFacts ==
    ASSUME NEW r, NEW n, NEW a, NEW b, NEW c, NEW d, NEW e,
           r = [no |-> a, text |-> b, size |-> c, chunks |-> d, failed |-> e]
    PROVE  K!Missed(r, n) = [no |-> a, text |-> b, size |-> c, chunks |-> d, failed |-> e \cup {n}]
BY DEF K!Missed

\* A chunk that is left out.
LEMMA SkipsStep ==
    ASSUME SchemaInv, NEW p \in Ingests, processAt[p] \in {"embed", "insert"}, K!Skips(p),
           UNCHANGED <<driver, tables, recorded, applied, runs>>
    PROVE  SchemaInv'
<1>1. PICK n : n = at[p]
  OBVIOUS
<1>2. p \in K!Processes /\ n \in Nat \ {0} /\ n + 1 \in Nat \ {0} /\ Ahead(p) /\ TablesInv /\ RunsInv
  BY <1>1 DEF SchemaInv, K!Processes
<1>3. PICK new : new = K!Missed(run[p], n)
  OBVIOUS
<1>4. /\ processAt' = [processAt EXCEPT ![p] = "embed"] /\ at' = [at EXCEPT ![p] = n + 1]
      /\ run' = [run EXCEPT ![p] = new] /\ rows' = rows /\ "embed" \in Stages
  BY <1>1, <1>3 DEF K!Skips, K!Step, K!Goto, Stages
<1>5. new = [no |-> new.no, text |-> new.text, size |-> new.size, chunks |-> new.chunks, failed |-> new.failed]
      /\ new.no = run[p].no
  <2>1. PICK r : r = run[p]
    OBVIOUS
  <2>2. r = [no |-> r.no, text |-> r.text, size |-> r.size, chunks |-> r.chunks, failed |-> r.failed]
    BY <1>2, <2>1 DEF RunsInv
  <2>3. new = [no |-> r.no, text |-> r.text, size |-> r.size, chunks |-> r.chunks, failed |-> r.failed \cup {n}]
    BY <1>3, <2>1, <2>2, MissedFacts
  <2>4. QED
    BY <2>1, <2>3
<1>6. run' = [q \in Ingests |-> IF q = p THEN new ELSE run[q]]
  BY <1>2, <1>4 DEF RunsInv
<1>7. RunsInv'
  BY <1>2, <1>4, <1>5, <1>6 DEF RunsInv
<1>8. TablesInv' /\ runs <= runs'
  BY <1>2 DEF TablesInv, RunsInv
<1>9. processAt'[p] = "embed" /\ at'[p] = n + 1 /\ run'[p] = new
  BY <1>2, <1>4, <1>6 DEF SchemaInv
<1>10. Ahead(p)'
  BY <1>2, <1>5, <1>9 DEF Ahead
<1>11. \A q \in Ingests \ {p} : run'[q] = run[q]
  BY <1>6
<1>12. QED
  BY <1>2, <1>4, <1>7, <1>8, <1>10, <1>11, OneProcess

LEMMA EmbedStep == ASSUME SchemaInv, NEW p \in Ingests, K!Embed(p) PROVE SchemaInv'
<1>1. processAt[p] = "embed" /\ UNCHANGED <<driver, tables, recorded, applied, runs>> /\ p \in K!Processes
  BY DEF K!Embed, K!AtChunk, K!schema, K!Processes
<1>2. CASE K!Goto(p, "insert") /\ UNCHANGED <<at, run, rows>>
  <2>1. /\ processAt' = [processAt EXCEPT ![p] = "insert"] /\ at' = [at EXCEPT ![p] = at[p]]
        /\ "insert" \in Stages /\ at[p] \in Nat \ {0} /\ Ahead(p)
    BY <1>1, <1>2 DEF K!Goto, Stages, SchemaInv
  <2>2. processAt'[p] = "insert" /\ at'[p] = at[p] => Ahead(p)'
    BY <1>1, <1>2, <2>1 DEF Ahead
  <2>3. QED
    BY <1>1, <1>2, <2>1, <2>2, ProcessMoves
<1>3. CASE K!Skips(p)
  BY <1>1, <1>3, SkipsStep
<1>4. QED
  BY <1>2, <1>3 DEF K!Embed

LEMMA StoreStep == ASSUME SchemaInv, NEW p \in Ingests, K!Ingest(p) PROVE SchemaInv'
<1>1. processAt[p] = "insert" /\ UNCHANGED <<driver, tables, recorded, applied, runs>> /\ p \in K!Processes
  BY DEF K!Ingest, K!AtChunk, K!schema, K!Processes
<1>2. CASE rows' = rows \cup {K!Row(p)} /\ K!Step(p, "embed") /\ UNCHANGED run
  <2>1. PICK n : n = at[p]
    OBVIOUS
  <2>2. n \in Nat \ {0} /\ n + 1 \in Nat \ {0} /\ Ahead(p) /\ TablesInv /\ RunsInv
    BY <1>1, <2>1 DEF SchemaInv
  <2>3. processAt' = [processAt EXCEPT ![p] = "embed"] /\ at' = [at EXCEPT ![p] = n + 1] /\ "embed" \in Stages
    BY <1>2, <2>1 DEF K!Step, K!Goto, Stages
  <2>4. K!Row(p).run = run[p].no /\ K!Row(p).index = n
    BY <2>1 DEF K!Row
  <2>5. run[p].no \in 1..runs
    BY <1>1, <2>2 DEF Ahead
  <2>6. RunsInv'
    BY <1>1, <1>2, <2>2, <2>4, <2>5 DEF RunsInv
  <2>7. TablesInv' /\ runs <= runs'
    BY <1>1, <2>2 DEF TablesInv, RunsInv
  <2>8. processAt'[p] = "embed" /\ at'[p] = n + 1
    BY <1>1, <2>3 DEF SchemaInv
  <2>9. Ahead(p)'
    BY <1>1, <1>2, <2>2, <2>8 DEF Ahead
  <2>10. QED
    BY <1>1, <1>2, <2>2, <2>3, <2>6, <2>7, <2>9, OneProcess
<1>3. CASE K!Skips(p)
  BY <1>1, <1>3, SkipsStep
<1>4. QED
  BY <1>2, <1>3 DEF K!Ingest

LEMMA CompleteStep == ASSUME SchemaInv, NEW p \in Ingests, K!Complete(p) PROVE SchemaInv'
<1>1. /\ processAt[p] = "embed" /\ UNCHANGED <<driver, tables, recorded, applied, run, rows, runs>> /\ p \in K!Processes
      /\ processAt' = [processAt EXCEPT ![p] = "done"] /\ at' = [at EXCEPT ![p] = at[p]]
      /\ "done" \in Stages /\ at[p] \in Nat \ {0} /\ Ahead(p)
  BY DEF K!Complete, K!Goto, K!schema, K!Processes, Stages, SchemaInv
<1>2. processAt'[p] = "done" /\ at'[p] = at[p] => Ahead(p)'
  BY <1>1 DEF Ahead
<1>3. QED
  BY <1>1, <1>2, ProcessMoves

LEMMA KillStep == ASSUME SchemaInv, NEW p \in K!Processes, K!Kill(p) PROVE SchemaInv'
<1>1. /\ UNCHANGED <<driver, tables, recorded, applied, rows, runs>>
      /\ processAt' = [processAt EXCEPT ![p] = "idle"] /\ at' = [at EXCEPT ![p] = at[p]]
      /\ "idle" \in Stages /\ at[p] \in Nat \ {0} /\ TablesInv /\ RunsInv
      /\ run' = [q \in Ingests |-> IF q = p THEN K!NoRun ELSE run[q]]
  BY DEF K!Kill, K!Goto, K!schema, Stages, SchemaInv
<1>2. RunsInv'
  BY <1>1 DEF RunsInv, K!NoRun
<1>3. TablesInv' /\ runs <= runs'
  BY <1>1 DEF TablesInv, RunsInv
<1>4. processAt'[p] = "idle"
  BY <1>1 DEF SchemaInv
<1>5. Ahead(p)'
  BY <1>4 DEF Ahead
<1>6. \A q \in Ingests \ {p} : run'[q] = run[q]
  BY <1>1
<1>7. QED
  BY <1>1, <1>2, <1>3, <1>5, <1>6, OneProcess

LEMMA SchemaStep == ASSUME SchemaInv, [K!Next]_K!vars PROVE SchemaInv'
<1>1. ASSUME UNCHANGED <<driver, tables, recorded, applied, processAt, at, run, rows, runs>> PROVE SchemaInv'
  BY <1>1 DEF SchemaInv, TablesInv, RunsInv, Ahead, K!Processes, Stages
<1>2. CASE \E p \in Services : K!StartProgram(p)
  BY <1>2, StartsStep
<1>3. CASE \/ \E p \in Services, q \in Queries : K!Answer(p, q)
           \/ \E f \in Ingested, t \in Texts : K!Edit(f, t)
  BY <1>1, <1>3 DEF K!Answer, K!Edit, K!schema
<1>4. CASE \E p \in Ingests : \/ \E f \in Ingested, size \in Sizes : K!StartIngest(p, f, size)
                              \/ K!Embed(p) \/ K!Ingest(p) \/ K!Complete(p)
  BY <1>4, IngestStarts, EmbedStep, StoreStep, CompleteStep
<1>5. CASE \E p \in K!Processes : \/ K!Migrated(p) \/ K!MigrateSQLite(p) \/ K!CheckVersion(p)
                                  \/ K!ApplyVersion(p) \/ K!Kill(p)
  BY <1>5, MigratedStep, SQLiteStep, CheckVersionStep, ApplyStep, KillStep
<1>6. CASE UNCHANGED K!vars
  BY <1>1, <1>6 DEF K!vars, K!schema
<1>7. QED
  BY <1>2, <1>3, <1>4, <1>5, <1>6 DEF K!Next

LEMMA SchemaHolds == K!Spec => []K!TypeOK /\ []K!SchemaIsWhole
<1>1. SchemaInv => K!TypeOK /\ K!SchemaIsWhole
  <2> SUFFICES ASSUME SchemaInv PROVE K!TypeOK /\ K!SchemaIsWhole
    OBVIOUS
  <2>1. TablesInv /\ RunsInv /\ processAt \in [K!Processes -> Stages] /\ at \in [K!Processes -> Nat \ {0}]
    BY DEF SchemaInv
  <2>2. K!TypeOK
    BY <2>1 DEF TablesInv, RunsInv, Stages, K!TypeOK
  <2>3. \A p \in Services \cup Ingests : Ahead(p)
    BY DEF SchemaInv, K!Processes
  <2>4. \A v \in 1..Migrations : driver = "postgres" => applied[v] <= 1
    BY <2>1 DEF TablesInv
  <2>5. QED
    BY <2>1, <2>2, <2>3, <2>4, KnowledgeFacts DEF TablesInv, Ahead, K!SchemaIsWhole
<1>2. QED
  BY <1>1, SchemaInit, SchemaStep, PTL DEF K!Spec

-----------------------------------------------------------------------------
(* Folds over sequences: the chosen function over sets of places is one      *)
(* over the lengths of the part that was folded.                             *)

Top(s) == CHOOSE x \in s : \A y \in s : x >= y

LEMMA TopIs ==
    ASSUME NEW s \in SUBSET Nat, NEW m \in s, \A y \in s : y <= m
    PROVE  Top(s) = m
<1>1. \A x \in s : (\A y \in s : x >= y) => x = m
  OBVIOUS
<1>2. \A y \in s : m >= y
  OBVIOUS
<1>3. QED
  BY <1>1, <1>2 DEF Top

LEMMA TopIn ==
    ASSUME NEW n \in Nat, NEW s \in SUBSET (1..n), s # {}
    PROVE  Top(s) \in s /\ \A y \in s : y <= Top(s)
<1> DEFINE Bounds == {k \in Nat : \A y \in s : y <= k}
<1>1. n \in Bounds /\ Bounds \in SUBSET Nat
  OBVIOUS
<1>2. PICK m \in Bounds : \A k \in Bounds : m <= k
  BY <1>1, LeastNumber
<1>3. m \in s
  <2>1. CASE m \notin s
    <3>1. \A y \in s : y \in Nat /\ y <= m /\ y # m /\ y # 0
      BY <1>2, <2>1
    <3>2. m \in Nat /\ m # 0
      <4>1. PICK x : x \in s
        OBVIOUS
      <4>2. x \in Nat /\ x <= m /\ x # 0
        BY <3>1, <4>1
      <4>3. m \in Nat
        BY <1>2
      <4>4. QED
        BY <4>2, <4>3
    <3>3. m - 1 \in Nat /\ \A y \in s : y <= m - 1
      BY <3>1, <3>2
    <3>4. m - 1 \in Bounds /\ ~ (m <= m - 1)
      BY <3>2, <3>3
    <3>5. QED
      BY <1>2, <3>4
  <2>2. QED
    BY <2>1
<1>4. s \in SUBSET Nat /\ \A y \in s : y <= m
  BY <1>2
<1>5. QED
  BY <1>3, <1>4, TopIs

LEMMA ElementOf ==
    ASSUME NEW S, NEW s \in Seq(S), NEW n \in Nat, n = Len(s)
    PROVE  DOMAIN s = 1..n /\ \A k \in 1..n : s[k] \in S
OBVIOUS

LEMMA UpTo ==
    ASSUME NEW n \in Nat, NEW S, 0 \in S, \A k \in 1..n : k - 1 \in S => k \in S
    PROVE  \A k \in 0..n : k \in S
<1> DEFINE Bad == {k \in Nat : k \in 0..n /\ k \notin S}
<1>1. CASE Bad # {}
  <2>1. PICK m \in Bad : \A k \in Bad : m <= k
    <3>1. Bad \in SUBSET Nat
      OBVIOUS
    <3>2. QED
      BY <1>1, <3>1, LeastNumber
  <2>2. m # 0 /\ m \in 1..n /\ m - 1 \in Nat /\ m - 1 \in 0..n /\ ~ (m <= m - 1)
    BY <2>1
  <2>3. m - 1 \in S
    BY <2>1, <2>2
  <2>4. QED
    BY <2>1, <2>2, <2>3
<1>2. QED
  BY <1>1

\* step takes the place and what the places before it give.
Folded(g, n, step, base) ==
    g = [s \in SUBSET (1..n) |-> IF s = {} THEN base ELSE step[<<Top(s), g[s \ {Top(s)}]>>]]

LEMMA FoldedWith ==
    ASSUME NEW m \in Nat, m # 0, NEW step, NEW base, NEW g, Folded(g, m - 1, step, base)
    PROVE  \E f : Folded(f, m, step, base)
<1>1. PICK f : f = [s \in SUBSET (1..m) |-> IF m \in s THEN step[<<m, g[s \ {m}]>>] ELSE g[s]]
  OBVIOUS
<1>2. \A s \in SUBSET (1..m) : m \notin s => s \in SUBSET (1..(m - 1))
  OBVIOUS
<1>3. \A s \in SUBSET (1..m) : m \notin s => f[s] = g[s]
  BY <1>1
<1>4. ASSUME NEW s \in SUBSET (1..m)
      PROVE  f[s] = IF s = {} THEN base ELSE step[<<Top(s), f[s \ {Top(s)}]>>]
  <2>1. CASE m \in s
    <3>1. Top(s) = m
      BY <2>1, TopIs
    <3>2. f[s \ {m}] = g[s \ {m}]
      BY <1>3
    <3>3. f[s] = step[<<m, g[s \ {m}]>>]
      BY <1>1, <2>1
    <3>4. QED
      BY <2>1, <3>1, <3>2, <3>3
  <2>2. CASE m \notin s
    <3>1. f[s \ {Top(s)}] = g[s \ {Top(s)}] /\ f[s] = g[s]
      BY <1>3, <2>2
    <3>2. g[s] = IF s = {} THEN base ELSE step[<<Top(s), g[s \ {Top(s)}]>>]
      BY <1>2, <2>2 DEF Folded
    <3>3. QED
      BY <3>1, <3>2
  <2>3. QED
    BY <2>1, <2>2
<1>5. f = [s \in SUBSET (1..m) |-> f[s]]
  BY <1>1
<1>6. f = [s \in SUBSET (1..m) |-> IF s = {} THEN base ELSE step[<<Top(s), f[s \ {Top(s)}]>>]]
  BY <1>4, <1>5
<1>7. QED
  BY <1>6 DEF Folded

LEMMA FoldedExists ==
    ASSUME NEW n \in Nat, NEW step, NEW base PROVE \E g : Folded(g, n, step, base)
<1> DEFINE S == {k \in 0..n : \E g : Folded(g, k, step, base)}
<1>1. 0 \in S
  <2>1. PICK g : g = [s \in SUBSET (1..0) |-> base]
    OBVIOUS
  <2>2. \A s \in SUBSET (1..0) : s = {}
    OBVIOUS
  <2>3. g = [s \in SUBSET (1..0) |-> IF s = {} THEN base ELSE step[<<Top(s), g[s \ {Top(s)}]>>]]
    BY <2>1, <2>2
  <2>4. QED
    BY <2>3 DEF Folded
<1>2. \A k \in 1..n : k - 1 \in S => k \in S
  BY FoldedWith
<1> HIDE DEF S
<1>3. n \in S
  BY <1>1, <1>2, UpTo
<1>4. QED
  BY <1>3 DEF S

\* Each value is of the fold's own kind.
LEMMA FoldedKinds ==
    ASSUME NEW n \in Nat, NEW Y, NEW base \in Y, NEW step, NEW g, Folded(g, n, step, base),
           \A k \in 1..n : \A y \in Y : step[<<k, y>>] \in Y
    PROVE  \A s \in SUBSET (1..n) : g[s] \in Y
<1> DEFINE S == {k \in 0..n : \A s \in SUBSET (1..k) : g[s] \in Y}
<1>1. 0 \in S
  <2>1. \A s \in SUBSET (1..0) : s = {} /\ s \in SUBSET (1..n)
    OBVIOUS
  <2>2. {} \in SUBSET (1..n)
    OBVIOUS
  <2>3. g[{}] = base
    BY <2>2 DEF Folded
  <2>4. \A s \in SUBSET (1..0) : g[s] \in Y
    BY <2>1, <2>3
  <2>5. 0 \in 0..n
    OBVIOUS
  <2>6. QED
    BY <2>4, <2>5
<1>2. ASSUME NEW k \in 1..n, k - 1 \in S PROVE k \in S
  <2>1. ASSUME NEW s \in SUBSET (1..k) PROVE g[s] \in Y
    <3>1. CASE k \in s
      <4>1. Top(s) = k
        BY <3>1, TopIs
      <4>2. s \ {k} \in SUBSET (1..(k - 1)) /\ s \in SUBSET (1..n) /\ s # {}
        BY <3>1
      <4>3. g[s \ {k}] \in Y
        BY <1>2, <4>2
      <4>4. g[s] = step[<<k, g[s \ {k}]>>]
        BY <4>1, <4>2 DEF Folded
      <4>5. QED
        BY <4>3, <4>4
    <3>2. CASE k \notin s
      <4>1. s \in SUBSET (1..(k - 1))
        BY <3>2
      <4>2. QED
        BY <1>2, <4>1
    <3>3. QED
      BY <3>1, <3>2
  <2>2. QED
    BY <2>1
<1> HIDE DEF S
<1>3. n \in S
  BY <1>1, <1>2, UpTo
<1>4. QED
  BY <1>3 DEF S

\* What the fold has got after k places.
LEMMA FoldedPlaces ==
    ASSUME NEW k \in Nat, k # 0 PROVE Top(1..k) = k /\ (1..k) \ {k} = 1..(k - 1) /\ 1..k # {}
<1>1. k \in 1..k /\ 1..k \in SUBSET Nat /\ \A y \in 1..k : y <= k
  OBVIOUS
<1>2. Top(1..k) = k
  BY <1>1, TopIs
<1>3. QED
  BY <1>1, <1>2

\* One run of a fold over a sequence of n elements, and what it ends with.
Runs(h, Y, n, step, base) ==
    h \in [0..n -> Y] /\ h[0] = base /\ \A k \in 1..n : h[k] = step[<<k, h[k - 1]>>]

LEMMA SameRun ==
    ASSUME NEW n \in Nat, NEW Y, NEW base, NEW a, NEW b, NEW g, NEW h, NEW m \in Nat, m <= n,
           Runs(g, Y, n, a, base), Runs(h, Y, m, b, base),
           \A k \in 1..m : \A y \in Y : a[<<k, y>>] = b[<<k, y>>]
    PROVE  g[m] = h[m]
<1> DEFINE S == {k \in 0..m : g[k] = h[k]}
<1>1. 0 \in S
  BY DEF Runs
<1>2. ASSUME NEW k \in 1..m, k - 1 \in S PROVE k \in S
  <2>1. k - 1 \in 0..m /\ k \in 0..m /\ k \in 1..n
    OBVIOUS
  <2>2. h[k - 1] \in Y /\ g[k - 1] = h[k - 1]
    BY <1>2, <2>1 DEF Runs
  <2>3. g[k] = a[<<k, g[k - 1]>>] /\ h[k] = b[<<k, h[k - 1]>>]
    BY <2>1 DEF Runs
  <2>4. g[k] = h[k]
    BY <2>2, <2>3
  <2>5. QED
    BY <2>1, <2>4
<1> HIDE DEF S
<1>3. m \in S
  BY <1>1, <1>2, UpTo
<1>4. QED
  BY <1>3 DEF S

\* The bytes of paragraphs, with the blank line before each.
Lengths(ps) == K!FoldLeft(LAMBDA n, p : n + p.bytes + 2, 0, ps)
LengthStep(ps) == [x \in (DOMAIN ps) \X Nat |-> x[2] + ps[x[1]].bytes + 2]

LEMMA LengthsRun ==
    ASSUME NEW ps \in Seq(K!Paragraph)
    PROVE  \E h : Runs(h, Nat, Len(ps), LengthStep(ps), 0) /\ Lengths(ps) = h[Len(ps)]
<1>1. PICK n \in Nat : n = Len(ps) /\ DOMAIN ps = 1..n /\ \A k \in 1..n : ps[k].bytes \in Nat
  <2>1. PICK S : S = K!Paragraph
    OBVIOUS
  <2>2. PICK n \in Nat : n = Len(ps) /\ DOMAIN ps = 1..n /\ \A k \in 1..n : ps[k] \in S
    BY <2>1
  <2>3. QED
    BY <2>1, <2>2 DEF K!Paragraph
<1> DEFINE step == LengthStep(ps)
           Is(f) == f = [s \in SUBSET (1..n) |-> IF s = {} THEN 0 ELSE f[s \ {Top(s)}] + ps[Top(s)].bytes + 2]
           iter == CHOOSE f : Is(f)
<1>2. \A k \in 1..n : \A y \in Nat : step[<<k, y>>] = y + ps[k].bytes + 2 /\ step[<<k, y>>] \in Nat
  BY <1>1 DEF LengthStep
<1>3. Is(iter)
  <2>1. PICK g : Folded(g, n, step, 0)
    BY FoldedExists
  <2>2. \A s \in SUBSET (1..n) : g[s] \in Nat
    BY <1>2, <2>1, FoldedKinds
  <2>3. \A s \in SUBSET (1..n) : s # {} => Top(s) \in 1..n /\ s \ {Top(s)} \in SUBSET (1..n)
    BY TopIn
  <2>4. \A s \in SUBSET (1..n) : s # {} => step[<<Top(s), g[s \ {Top(s)}]>>] = g[s \ {Top(s)}] + ps[Top(s)].bytes + 2
    BY <1>2, <2>2, <2>3
  <2>5. Is(g)
    BY <2>1, <2>4 DEF Folded
  <2>6. QED
    BY <2>5
<1>4. Lengths(ps) = iter[1..n]
  BY <1>1 DEF Lengths, K!FoldLeft, K!MapThenFoldSet, K!Max, Top
<1> HIDE DEF iter
<1>5. iter[{}] = 0
  BY <1>3
<1>6. \A k \in 1..n : iter[1..k] = iter[1..(k - 1)] + ps[k].bytes + 2
  <2>1. ASSUME NEW k \in 1..n PROVE iter[1..k] = iter[1..(k - 1)] + ps[k].bytes + 2
    <3>1. Top(1..k) = k /\ (1..k) \ {k} = 1..(k - 1) /\ 1..k # {} /\ 1..k \in SUBSET (1..n)
      BY FoldedPlaces
    <3>2. QED
      BY <1>3, <3>1
  <2>2. QED
    BY <2>1
<1> HIDE DEF Is, step
<1>7. \A k \in 0..n : iter[1..k] \in Nat
  <2> DEFINE S == {k \in 0..n : iter[1..k] \in Nat}
  <2>1. 0 \in S
    BY <1>5
  <2>2. \A k \in 1..n : k - 1 \in S => k \in S
    BY <1>1, <1>6
  <2> HIDE DEF S
  <2>3. \A k \in 0..n : k \in S
    BY <2>1, <2>2, UpTo
  <2>4. QED
    BY <2>3 DEF S
<1>8. PICK h : h = [k \in 0..n |-> iter[1..k]]
  OBVIOUS
<1>9. h \in [0..n -> Nat] /\ h[0] = 0 /\ h[n] = Lengths(ps)
  BY <1>4, <1>5, <1>7, <1>8
<1>10. \A k \in 1..n : h[k] = step[<<k, h[k - 1]>>]
  BY <1>2, <1>6, <1>7, <1>8
<1>11. QED
  BY <1>1, <1>9, <1>10 DEF Runs, step

LEMMA LengthsKind == ASSUME NEW ps \in Seq(K!Paragraph) PROVE Lengths(ps) \in Nat
<1>1. PICK n \in Nat : n = Len(ps)
  OBVIOUS
<1>2. PICK h : Runs(h, Nat, n, LengthStep(ps), 0) /\ Lengths(ps) = h[n]
  BY <1>1, LengthsRun
<1>3. QED
  BY <1>2 DEF Runs

LEMMA LengthsGrow ==
    ASSUME NEW ps \in Seq(K!Paragraph), NEW p \in K!Paragraph
    PROVE  Lengths(Append(ps, p)) = Lengths(ps) + p.bytes + 2
<1>1. PICK S : S = K!Paragraph
  OBVIOUS
<1>2. PICK qs : qs = Append(ps, p)
  OBVIOUS
<1>3. PICK n \in Nat : n = Len(ps) /\ DOMAIN ps = 1..n
  OBVIOUS
<1>4. /\ qs \in Seq(S) /\ Len(qs) = n + 1 /\ DOMAIN qs = 1..(n + 1)
      /\ qs[n + 1] = p /\ \A k \in 1..n : qs[k] = ps[k]
  BY <1>1, <1>2, <1>3
<1>5. PICK h : Runs(h, Nat, n, LengthStep(ps), 0) /\ Lengths(ps) = h[n]
  BY <1>3, LengthsRun
<1>6. PICK g : Runs(g, Nat, n + 1, LengthStep(qs), 0) /\ Lengths(qs) = g[n + 1]
  BY <1>1, <1>4, LengthsRun
<1>7. \A k \in 1..n : \A y \in Nat : LengthStep(qs)[<<k, y>>] = LengthStep(ps)[<<k, y>>]
  BY <1>3, <1>4 DEF LengthStep
<1>8. n + 1 \in Nat /\ n <= n + 1 /\ n + 1 \in 1..(n + 1) /\ (n + 1) - 1 = n
  OBVIOUS
<1>9. g[n] = h[n]
  BY <1>5, <1>6, <1>7, <1>8, SameRun
<1>10. g[n + 1] = LengthStep(qs)[<<n + 1, g[n]>>]
  BY <1>6, <1>8 DEF Runs
<1>11. LengthStep(qs)[<<n + 1, h[n]>>] = h[n] + p.bytes + 2
  BY <1>4, <1>5, <1>8, LengthsKind DEF LengthStep
<1>12. QED
  BY <1>2, <1>5, <1>6, <1>9, <1>10, <1>11

\* A chunk as it is put together: what follows a cut has a paragraph, and one
\* that is longer than asked has one only, or owes it to what is not counted.
Fits(c, size) ==
    \/ Len(c.paras) = 1
    \/ K!Bytes(c) <= size + 2 + K!Last(c.paras).bytes - K!Last(c.paras).runes
Pieces(size) ==
    {c \in [tail : BOOLEAN, paras : Seq(K!Paragraph)] : /\ c.tail => c.paras # << >>
                                                        /\ c.paras # << >> => Fits(c, size)}
Filled(size) == {c \in Pieces(size) : c.paras # << >>}
Cutting(size) == [chunks : Seq(Filled(size)), current : Pieces(size)]

LEMMA BytesKind ==
    ASSUME NEW c \in [tail : BOOLEAN, paras : Seq(K!Paragraph)]
    PROVE  K!Bytes(c) \in Int /\ (~ K!Empty(c) => K!Bytes(c) = Lengths(c.paras) + IF c.tail THEN Overlap + 1 ELSE -2)
<1>1. Lengths(c.paras) \in Nat /\ Overlap \in Nat /\ c.tail \in BOOLEAN
  BY LengthsKind, KnowledgeAssumption DEF K!KnowledgeAssumption
<1>2. K!Bytes(c) = IF c.tail THEN Overlap + 1 + Lengths(c.paras)
                   ELSE IF K!Empty(c) THEN 0 ELSE Lengths(c.paras) - 2
  BY DEF K!Bytes, Lengths
<1>3. QED
  BY <1>1, <1>2

LEMMA AddKind ==
    ASSUME NEW size \in Nat, NEW s \in Cutting(size), NEW p \in K!Paragraph
    PROVE  K!Add(s, p, size) \in Cutting(size)
<1>1. PICK cs, c, F, Ps : /\ F = Filled(size) /\ Ps = K!Paragraph
                         /\ cs = s.chunks /\ c = s.current /\ s = [chunks |-> cs, current |-> c]
                         /\ cs \in Seq(F) /\ c \in Pieces(size)
  BY DEF Cutting
<1>2. /\ c = [tail |-> c.tail, paras |-> c.paras] /\ c.tail \in BOOLEAN /\ c.paras \in Seq(Ps)
      /\ c \in [tail : BOOLEAN, paras : Seq(K!Paragraph)]
      /\ c.tail => c.paras # << >>
  <2>1. c \in [tail : BOOLEAN, paras : Seq(K!Paragraph)] /\ (c.tail => c.paras # << >>)
    <3>1. c \in Pieces(size)
      BY <1>1
    <3>2. QED
      BY <3>1, Zenon DEF Pieces
  <2>2. c \in [tail : BOOLEAN, paras : Seq(Ps)]
    BY <1>1, <2>1
  <2>3. c = [tail |-> c.tail, paras |-> c.paras] /\ c.tail \in BOOLEAN /\ c.paras \in Seq(Ps)
    BY <2>2
  <2>4. QED
    BY <2>1, <2>3
<1>3. p.runes \in Nat /\ p.bytes \in Nat /\ p \in Ps
  BY <1>1 DEF K!Paragraph
<1>4. K!Empty(c) <=> c.paras = << >>
  BY <1>2 DEF K!Empty
<1>5. CASE p.runes = 0
  BY <1>5 DEF K!Add
<1>6. CASE p.runes # 0 /\ K!Cuts(s, p, size)
  <2>1. PICK b : b = (Overlap > 0 /\ K!Bytes(c) > Overlap)
    OBVIOUS
  <2>2. PICK d : d = [tail |-> b, paras |-> <<p>>]
    OBVIOUS
  <2>3. K!Add(s, p, size) = [chunks |-> Append(cs, c), current |-> d]
    BY <1>1, <1>6, <2>1, <2>2 DEF K!Add, K!Chunk
  <2>4. c.paras # << >>
    BY <1>1, <1>4, <1>6 DEF K!Cuts
  <2>5. Append(cs, c) \in Seq(F)
    BY <1>1, <2>4 DEF Filled
  <2>6. d \in Pieces(size)
    <3>1. <<p>> \in Seq(K!Paragraph) /\ <<p>> # << >> /\ Len(<<p>>) = 1
      OBVIOUS
    <3>2. b \in BOOLEAN
      BY <2>1
    <3>3. Fits(d, size)
      BY <2>2, <3>1 DEF Fits
    <3>4. QED
      BY <2>2, <3>1, <3>2, <3>3 DEF Pieces
  <2>7. QED
    BY <1>1, <2>3, <2>5, <2>6 DEF Cutting
<1>7. CASE p.runes # 0 /\ ~ K!Cuts(s, p, size)
  <2>1. PICK ps : ps = Append(c.paras, p)
    OBVIOUS
  <2>2. PICK d : d = [tail |-> c.tail, paras |-> ps]
    OBVIOUS
  <2>3. K!Add(s, p, size) = [chunks |-> cs, current |-> d]
    <3>1. K!Add(s, p, size) = [s EXCEPT !.current.paras = Append(@, p)]
      BY <1>7 DEF K!Add
    <3>2. [s EXCEPT !.current.paras = Append(@, p)] = [chunks |-> cs, current |-> [c EXCEPT !.paras = ps]]
      <4>1. [s EXCEPT !.current.paras = Append(@, p)] = [s EXCEPT !.current = [s.current EXCEPT !.paras = Append(s.current.paras, p)]]
        OBVIOUS
      <4>2. \A v : [s EXCEPT !.current = v] = [chunks |-> cs, current |-> v]
        BY <1>1
      <4>3. s.current = c
        BY <1>1
      <4>4. QED
        BY <2>1, <4>1, <4>2, <4>3
    <3>3. [c EXCEPT !.paras = ps] = d
      BY <1>2, <2>2
    <3>4. QED
      BY <3>1, <3>2, <3>3
  <2>4. ps \in Seq(Ps) /\ ps # << >> /\ Len(ps) \in Nat /\ Len(ps) = Len(c.paras) + 1 /\ ps[Len(ps)] = p
    BY <1>2, <1>3, <2>1
  <2>5. Fits(d, size)
    <3>1. CASE c.paras = << >>
      BY <2>2, <2>4, <3>1 DEF Fits
    <3>2. CASE c.paras # << >>
      <4>1. Lengths(ps) = Lengths(c.paras) + p.bytes + 2 /\ Lengths(c.paras) \in Nat
        BY <1>1, <1>2, <2>1, LengthsGrow, LengthsKind
      <4>2. K!Bytes(c) = Lengths(c.paras) + IF c.tail THEN Overlap + 1 ELSE -2
        BY <1>2, <1>4, <3>2, BytesKind
      <4>3. d \in [tail : BOOLEAN, paras : Seq(K!Paragraph)] /\ ~ K!Empty(d)
        BY <1>1, <1>2, <2>2, <2>4 DEF K!Empty
      <4>4. K!Bytes(d) = Lengths(ps) + IF c.tail THEN Overlap + 1 ELSE -2
        BY <2>2, <4>3, BytesKind
      <4>5. K!Bytes(c) + p.runes <= size
        <5>1. K!Bytes(c) \in Int
          BY <1>2, BytesKind
        <5>2. ~ (K!Bytes(c) + p.runes > size)
          BY <1>1, <1>4, <1>7, <3>2 DEF K!Cuts
        <5>3. QED
          BY <1>3, <5>1, <5>2
      <4>6. K!Last(d.paras) = p
        BY <2>2, <2>4 DEF K!Last
      <4>7. Overlap \in Nat /\ c.tail \in BOOLEAN
        BY <1>2, KnowledgeAssumption DEF K!KnowledgeAssumption
      <4>8. K!Bytes(d) <= size + 2 + p.bytes - p.runes
        BY <1>3, <4>1, <4>2, <4>4, <4>5, <4>7
      <4>9. QED
        BY <4>6, <4>8 DEF Fits
    <3>3. QED
      BY <3>1, <3>2
  <2>6. d \in Pieces(size)
    BY <1>1, <1>2, <2>2, <2>4, <2>5 DEF Pieces
  <2>7. QED
    BY <1>1, <2>3, <2>6 DEF Cutting
<1>8. QED
  BY <1>5, <1>6, <1>7

LEMMA RunExists ==
    ASSUME NEW n \in Nat, NEW Y, NEW base \in Y, NEW step,
           \A k \in 1..n : \A y \in Y : step[<<k, y>>] \in Y
    PROVE  \E h : Runs(h, Y, n, step, base)
<1>1. PICK g : Folded(g, n, step, base)
  BY FoldedExists
<1>2. \A s \in SUBSET (1..n) : g[s] \in Y
  BY <1>1, FoldedKinds
<1>3. PICK h : h = [k \in 0..n |-> g[1..k]]
  OBVIOUS
<1>4. h \in [0..n -> Y]
  <2>1. \A k \in 0..n : 1..k \in SUBSET (1..n)
    OBVIOUS
  <2>2. QED
    BY <1>2, <1>3, <2>1
<1>5. h[0] = base
  <2>1. h[0] = g[{}] /\ {} \in SUBSET (1..n)
    BY <1>3
  <2>2. QED
    BY <1>1, <2>1 DEF Folded
<1>6. ASSUME NEW k \in 1..n PROVE h[k] = step[<<k, h[k - 1]>>]
  <2>1. Top(1..k) = k /\ (1..k) \ {k} = 1..(k - 1) /\ 1..k # {}
    BY FoldedPlaces
  <2>2. h[k] = g[1..k] /\ h[k - 1] = g[1..(k - 1)] /\ 1..k \in SUBSET (1..n)
    BY <1>3
  <2>3. g[1..k] = step[<<k, g[1..(k - 1)]>>]
    BY <1>1, <2>1, <2>2 DEF Folded
  <2>4. QED
    BY <2>2, <2>3
<1>7. QED
  BY <1>4, <1>5, <1>6 DEF Runs

\* A fold chosen over sets of places, where each value is of a kind, is a run.
FoldsBy(iter, Y, n, step, base) ==
    /\ \A k \in 1..n : \A y \in Y : step[<<k, y>>] \in Y
    /\ base \in Y /\ iter[{}] = base
    /\ \A k \in 1..n : iter[1..(k - 1)] \in Y => iter[1..k] = step[<<k, iter[1..(k - 1)]>>]

LEMMA RunOf ==
    ASSUME NEW n \in Nat, NEW Y, NEW base, NEW step, NEW iter, FoldsBy(iter, Y, n, step, base)
    PROVE  \E h : Runs(h, Y, n, step, base) /\ iter[1..n] = h[n]
<1> DEFINE S == {k \in 0..n : iter[1..k] \in Y}
<1>1. 0 \in S /\ base \in Y /\ iter[{}] = base
  <2>1. base \in Y /\ iter[{}] = base
    BY DEF FoldsBy
  <2>2. 1..0 = {} /\ 0 \in 0..n
    OBVIOUS
  <2>3. QED
    BY <2>1, <2>2
<1>2. ASSUME NEW k \in 1..n, k - 1 \in S PROVE k \in S
  <2>1. iter[1..(k - 1)] \in Y /\ k \in 0..n
    BY <1>2
  <2>2. iter[1..k] = step[<<k, iter[1..(k - 1)]>>]
    BY <2>1 DEF FoldsBy
  <2>3. iter[1..k] \in Y
    BY <2>1, <2>2 DEF FoldsBy
  <2>4. QED
    BY <2>1, <2>3
<1> HIDE DEF S
<1>3. \A k \in 0..n : k \in S
  BY <1>1, <1>2, UpTo
<1>4. \A k \in 0..n : iter[1..k] \in Y
  BY <1>3 DEF S
<1>5. PICK h : h = [k \in 0..n |-> iter[1..k]]
  OBVIOUS
<1>6. h \in [0..n -> Y] /\ h[0] = base /\ h[n] = iter[1..n]
  BY <1>1, <1>4, <1>5
<1>7. ASSUME NEW k \in 1..n PROVE h[k] = step[<<k, h[k - 1]>>]
  <2>1. k - 1 \in 0..n /\ k \in 0..n
    OBVIOUS
  <2>2. h[k] = iter[1..k] /\ h[k - 1] = iter[1..(k - 1)] /\ iter[1..(k - 1)] \in Y
    BY <1>4, <1>5, <2>1
  <2>3. QED
    BY <2>2 DEF FoldsBy
<1>8. QED
  BY <1>6, <1>7 DEF Runs

\* Sequences one behind the other.
FlatStep(fs, S) == [x \in (DOMAIN fs) \X Seq(S) |-> x[2] \o fs[x[1]]]

LEMMA FlatSteps ==
    ASSUME NEW S, NEW fs \in Seq(Seq(S)), NEW n \in Nat, n = Len(fs)
    PROVE  /\ DOMAIN fs = 1..n
           /\ \A k \in 1..n : fs[k] \in Seq(S)
           /\ \A k \in 1..n : \A y \in Seq(S) : /\ FlatStep(fs, S)[<<k, y>>] = y \o fs[k]
                                                /\ FlatStep(fs, S)[<<k, y>>] \in Seq(S)
<1>1. DOMAIN fs = 1..n /\ \A k \in 1..n : fs[k] \in Seq(S)
  OBVIOUS
<1>2. \A k \in 1..n : \A y \in Seq(S) : FlatStep(fs, S)[<<k, y>>] = y \o fs[k]
  BY <1>1 DEF FlatStep
<1>3. \A y, z \in Seq(S) : y \o z \in Seq(S)
  OBVIOUS
<1>4. QED
  BY <1>1, <1>2, <1>3

LEMMA FlatRun ==
    ASSUME NEW S, NEW fs \in Seq(Seq(S)), NEW n \in Nat, n = Len(fs)
    PROVE  \E h : Runs(h, Seq(S), n, FlatStep(fs, S), << >>) /\ K!FlattenSeq(fs) = h[n]
<1> DEFINE step == FlatStep(fs, S)
           Is(f) == f = [i \in 1..Len(fs) |-> IF i = 1 THEN fs[i] ELSE f[i - 1] \o fs[i]]
           flat == CHOOSE f : Is(f)
<1>1. /\ DOMAIN fs = 1..n
      /\ \A k \in 1..n : fs[k] \in Seq(S)
      /\ \A k \in 1..n : \A y \in Seq(S) : step[<<k, y>>] = y \o fs[k] /\ step[<<k, y>>] \in Seq(S)
  BY FlatSteps
<1>2. << >> \in Seq(S)
  OBVIOUS
<1> HIDE DEF step
<1>3. PICK h : Runs(h, Seq(S), n, step, << >>)
  BY <1>1, <1>2, RunExists
<1>4. h[0] = << >> /\ \A k \in 0..n : h[k] \in Seq(S)
  BY <1>3 DEF Runs
<1>5. ASSUME NEW k \in 1..n PROVE h[k] = h[k - 1] \o fs[k]
  <2>1. k - 1 \in 0..n
    OBVIOUS
  <2>2. h[k - 1] \in Seq(S)
    BY <1>4, <2>1
  <2>3. h[k] = step[<<k, h[k - 1]>>]
    BY <1>3 DEF Runs
  <2>4. QED
    BY <1>1, <2>2, <2>3, Zenon
<1>6. CASE n = 0
  <2>1. Len(fs) = 0
    BY <1>6
  <2>2. K!FlattenSeq(fs) = fs
    BY <2>1 DEF K!FlattenSeq
  <2>3. fs = << >>
    BY <2>1
  <2>4. QED
    BY <1>3, <1>4, <1>6, <2>2, <2>3 DEF step
<1>7. CASE n # 0
  <2>1. PICK f : f = [i \in 1..n |-> h[i]]
    OBVIOUS
  <2>2. ASSUME NEW i \in 1..n PROVE f[i] = IF i = 1 THEN fs[i] ELSE f[i - 1] \o fs[i]
    <3>1. CASE i = 1
      <4>1. f[i] = h[0] \o fs[1]
        <5>1. f[i] = h[i] /\ i - 1 = 0
          BY <2>1, <3>1
        <5>2. h[i] = h[i - 1] \o fs[i]
          BY <1>5
        <5>3. QED
          BY <3>1, <5>1, <5>2
      <4>2. fs[1] \in Seq(S)
        BY <1>1, <3>1
      <4>3. << >> \o fs[1] = fs[1]
        BY <4>2
      <4>4. QED
        BY <1>4, <3>1, <4>1, <4>3
    <3>2. CASE i # 1
      <4>1. f[i] = h[i] /\ f[i - 1] = h[i - 1]
        BY <2>1, <3>2
      <4>2. h[i] = h[i - 1] \o fs[i]
        BY <1>5
      <4>3. QED
        BY <3>2, <4>1, <4>2
    <3>3. QED
      BY <3>1, <3>2
  <2>3. Is(f)
    BY <2>1, <2>2
  <2>4. Is(flat)
    BY <2>3
  <2>5. K!FlattenSeq(fs) = flat[n]
    BY <1>7 DEF K!FlattenSeq
  <2> HIDE DEF flat
  <2>6. \A i \in 1..n : flat[i] = IF i = 1 THEN fs[i] ELSE flat[i - 1] \o fs[i]
    BY <2>4
  <2> DEFINE T == {k \in 0..n : k # 0 => flat[k] = h[k]}
  <2>7. 0 \in T
    OBVIOUS
  <2>8. ASSUME NEW k \in 1..n, k - 1 \in T PROVE k \in T
    <3>1. CASE k = 1
      <4>1. h[1] = h[0] \o fs[1] /\ fs[1] \in Seq(S)
        <5>1. h[k] = h[k - 1] \o fs[k] /\ fs[k] \in Seq(S)
          BY <1>1, <1>5
        <5>2. k - 1 = 0
          BY <3>1
        <5>3. QED
          BY <3>1, <5>1, <5>2
      <4>2. h[1] = fs[1]
        BY <1>4, <4>1
      <4>3. flat[1] = fs[1]
        BY <2>6, <3>1
      <4>4. k \in 0..n /\ flat[k] = h[k]
        BY <3>1, <4>2, <4>3
      <4>5. QED
        BY <4>4
    <3>2. CASE k # 1
      <4>1. flat[k] = flat[k - 1] \o fs[k] /\ h[k] = h[k - 1] \o fs[k]
        BY <1>5, <2>6, <3>2
      <4>2. flat[k - 1] = h[k - 1] /\ k \in 0..n
        BY <2>8, <3>2
      <4>3. flat[k] = h[k]
        BY <4>1, <4>2
      <4>4. QED
        BY <4>2, <4>3
    <3>3. QED
      BY <3>1, <3>2
  <2> HIDE DEF T
  <2>9. n \in T
    <3>1. \A k \in 1..n : k - 1 \in T => k \in T
      BY <2>8
    <3>2. \A k \in 0..n : k \in T
      BY <2>7, <3>1, UpTo
    <3>3. QED
      BY <3>2
  <2>10. flat[n] = h[n]
    BY <1>7, <2>9 DEF T
  <2>11. QED
    BY <1>3, <2>5, <2>10 DEF step
<1>8. QED
  BY <1>6, <1>7

LEMMA FlatKind == ASSUME NEW S, NEW fs \in Seq(Seq(S)) PROVE K!FlattenSeq(fs) \in Seq(S)
<1>1. PICK n \in Nat : n = Len(fs)
  OBVIOUS
<1>2. PICK h : Runs(h, Seq(S), n, FlatStep(fs, S), << >>) /\ K!FlattenSeq(fs) = h[n]
  BY <1>1, FlatRun
<1>3. QED
  BY <1>2 DEF Runs

LEMMA FlatGrows ==
    ASSUME NEW S, NEW fs \in Seq(Seq(S)), NEW x \in Seq(S)
    PROVE  K!FlattenSeq(Append(fs, x)) = K!FlattenSeq(fs) \o x
<1>1. PICK gs : gs = Append(fs, x)
  OBVIOUS
<1>2. PICK n \in Nat : n = Len(fs)
  OBVIOUS
<1>3. PICK m \in Nat : m = n + 1
  OBVIOUS
<1>4. gs \in Seq(Seq(S)) /\ m = Len(gs) /\ gs[m] = x /\ \A k \in 1..n : gs[k] = fs[k]
  BY <1>1, <1>2, <1>3
<1>5. n <= m /\ m \in 1..m /\ m - 1 = n /\ n \in 0..m /\ \A k \in 1..n : k \in 1..m
  BY <1>3
<1>6. PICK h : Runs(h, Seq(S), n, FlatStep(fs, S), << >>) /\ K!FlattenSeq(fs) = h[n]
  BY <1>2, FlatRun
<1>7. PICK g : Runs(g, Seq(S), m, FlatStep(gs, S), << >>) /\ K!FlattenSeq(gs) = g[m]
  BY <1>4, FlatRun
<1>8. \A k \in 1..n : \A y \in Seq(S) : FlatStep(fs, S)[<<k, y>>] = y \o fs[k]
  BY <1>2, FlatSteps
<1>9. \A k \in 1..m : \A y \in Seq(S) : FlatStep(gs, S)[<<k, y>>] = y \o gs[k]
  <2>1. gs \in Seq(Seq(S)) /\ m = Len(gs)
    BY <1>4
  <2>2. QED
    BY <2>1, FlatSteps
<1>10. \A k \in 1..n : \A y \in Seq(S) : FlatStep(gs, S)[<<k, y>>] = FlatStep(fs, S)[<<k, y>>]
  <2>1. ASSUME NEW k \in 1..n, NEW y \in Seq(S)
        PROVE  FlatStep(gs, S)[<<k, y>>] = FlatStep(fs, S)[<<k, y>>]
    <3>1. k \in 1..m /\ gs[k] = fs[k]
      BY <1>4, <1>5
    <3>2. QED
      BY <1>8, <1>9, <3>1, Zenon
  <2>2. QED
    BY <2>1
<1>11. g[n] = h[n]
  BY <1>5, <1>6, <1>7, <1>10, SameRun
<1>12. g[m] = FlatStep(gs, S)[<<m, g[n]>>] /\ g[n] \in Seq(S)
  BY <1>5, <1>7 DEF Runs
<1>13. g[m] = g[n] \o gs[m]
  BY <1>5, <1>9, <1>12
<1>14. QED
  BY <1>1, <1>4, <1>6, <1>7, <1>11, <1>13

\* ChunkText's fold.
NoChunk == [chunks |-> << >>, current |-> K!Chunk(FALSE, << >>)]
Adds(ps, size) == K!FoldLeft(LAMBDA s, p : K!Add(s, p, size), NoChunk, ps)
AddStep(ps, size) == [x \in (DOMAIN ps) \X Cutting(size) |-> K!Add(x[2], ps[x[1]], size)]

LEMMA NoChunkKind == ASSUME NEW size PROVE NoChunk \in Cutting(size)
<1>1. K!Chunk(FALSE, << >>) = [tail |-> FALSE, paras |-> << >>]
  BY DEF K!Chunk
<1>2. [tail |-> FALSE, paras |-> << >>] \in [tail : BOOLEAN, paras : Seq(K!Paragraph)]
  OBVIOUS
<1>3. K!Chunk(FALSE, << >>) \in Pieces(size)
  <2>1. PICK c : c = [tail |-> FALSE, paras |-> << >>]
    OBVIOUS
  <2>2. c \in [tail : BOOLEAN, paras : Seq(K!Paragraph)] /\ ~ c.tail /\ c.paras = << >>
    BY <1>2, <2>1
  <2>3. c \in Pieces(size)
    BY <2>2 DEF Pieces
  <2>4. QED
    BY <1>1, <2>1, <2>3
<1>4. << >> \in Seq(Filled(size))
  OBVIOUS
<1>5. QED
  BY <1>3, <1>4 DEF NoChunk, Cutting

LEMMA AddsRun ==
    ASSUME NEW size \in Nat, NEW ps \in Seq(K!Paragraph), NEW n \in Nat, n = Len(ps)
    PROVE  \E h : Runs(h, Cutting(size), n, AddStep(ps, size), NoChunk) /\ Adds(ps, size) = h[n]
<1> DEFINE step == AddStep(ps, size)
           Is(f) == f = [s \in SUBSET (1..n) |-> IF s = {} THEN NoChunk
                                                 ELSE K!Add(f[s \ {Top(s)}], ps[Top(s)], size)]
           iter == CHOOSE f : Is(f)
<1>1. DOMAIN ps = 1..n /\ \A k \in 1..n : ps[k] \in K!Paragraph
  BY ElementOf
<1>2. \A k \in 1..n : \A y \in Cutting(size) : step[<<k, y>>] = K!Add(y, ps[k], size) /\ step[<<k, y>>] \in Cutting(size)
  BY <1>1, AddKind DEF AddStep
<1> HIDE DEF step
<1>3. NoChunk \in Cutting(size)
  BY NoChunkKind
<1>4. Is(iter)
  <2>1. PICK g : Folded(g, n, step, NoChunk)
    BY FoldedExists
  <2>2. \A s \in SUBSET (1..n) : g[s] \in Cutting(size)
    BY <1>2, <1>3, <2>1, FoldedKinds
  <2>3. \A s \in SUBSET (1..n) : s # {} => Top(s) \in 1..n /\ s \ {Top(s)} \in SUBSET (1..n)
    BY TopIn
  <2>4. \A s \in SUBSET (1..n) : s # {} => step[<<Top(s), g[s \ {Top(s)}]>>] = K!Add(g[s \ {Top(s)}], ps[Top(s)], size)
    BY <1>2, <2>2, <2>3
  <2>5. Is(g)
    BY <2>1, <2>4 DEF Folded
  <2>6. QED
    BY <2>5
<1>5. Adds(ps, size) = iter[1..n]
  BY <1>1 DEF Adds, K!FoldLeft, K!MapThenFoldSet, K!Max, Top
<1> HIDE DEF iter
<1>6. iter[{}] = NoChunk
  BY <1>4
<1>7. ASSUME NEW k \in 1..n, iter[1..(k - 1)] \in Cutting(size)
      PROVE  iter[1..k] = step[<<k, iter[1..(k - 1)]>>]
  <2>1. Top(1..k) = k /\ (1..k) \ {k} = 1..(k - 1) /\ 1..k # {} /\ 1..k \in SUBSET (1..n)
    BY FoldedPlaces
  <2>2. iter[1..k] = K!Add(iter[1..(k - 1)], ps[k], size)
    BY <1>4, <2>1
  <2>3. QED
    BY <1>2, <1>7, <2>2
<1> HIDE DEF Is
<1>8. \E h : Runs(h, Cutting(size), n, step, NoChunk) /\ iter[1..n] = h[n]
  <2>1. \A k \in 1..n : \A y \in Cutting(size) : step[<<k, y>>] \in Cutting(size)
    BY <1>2
  <2>2. \A k \in 1..n : iter[1..(k - 1)] \in Cutting(size) => iter[1..k] = step[<<k, iter[1..(k - 1)]>>]
    BY <1>7
  <2>3. FoldsBy(iter, Cutting(size), n, step, NoChunk)
    BY <1>3, <1>6, <2>1, <2>2 DEF FoldsBy
  <2>4. QED
    BY <2>3, RunOf
<1>9. QED
  BY <1>5, <1>8 DEF step

\* The paragraphs that are written, as a fold.
WrittenStep(ps) == [x \in (DOMAIN ps) \X Seq(K!Paragraph) |->
                       IF ps[x[1]].runes = 0 THEN x[2] ELSE Append(x[2], ps[x[1]])]

LEMMA WrittenRun ==
    ASSUME NEW ps \in Seq(K!Paragraph), NEW n \in Nat, n = Len(ps)
    PROVE  \E h : Runs(h, Seq(K!Paragraph), n, WrittenStep(ps), << >>) /\ K!Written(ps) = h[n]
<1> DEFINE step == WrittenStep(ps)
           Is(f) == f = [s \in SUBSET (1..n) |->
                           IF s = {} THEN << >>
                           ELSE IF ps[Top(s)].runes = 0 THEN f[s \ {Top(s)}]
                           ELSE Append(f[s \ {Top(s)}], ps[Top(s)])]
           iter == CHOOSE f : Is(f)
<1>1. DOMAIN ps = 1..n /\ \A k \in 1..n : ps[k] \in K!Paragraph
  BY ElementOf
<1>2. ASSUME NEW k \in 1..n, NEW y \in Seq(K!Paragraph)
      PROVE  /\ step[<<k, y>>] = IF ps[k].runes = 0 THEN y ELSE Append(y, ps[k])
             /\ step[<<k, y>>] \in Seq(K!Paragraph)
  <2>1. step[<<k, y>>] = IF ps[k].runes = 0 THEN y ELSE Append(y, ps[k])
    BY <1>1 DEF WrittenStep
  <2>2. Append(y, ps[k]) \in Seq(K!Paragraph)
    BY <1>1
  <2>3. QED
    BY <2>1, <2>2
<1> HIDE DEF step
<1>3. << >> \in Seq(K!Paragraph)
  OBVIOUS
<1>4. Is(iter)
  <2>1. PICK g : Folded(g, n, step, << >>)
    BY FoldedExists
  <2>2. \A s \in SUBSET (1..n) : g[s] \in Seq(K!Paragraph)
    BY <1>2, <1>3, <2>1, FoldedKinds
  <2>3. \A s \in SUBSET (1..n) : s # {} => Top(s) \in 1..n /\ s \ {Top(s)} \in SUBSET (1..n)
    BY TopIn
  <2>4. \A s \in SUBSET (1..n) : s # {} =>
          step[<<Top(s), g[s \ {Top(s)}]>>] = IF ps[Top(s)].runes = 0 THEN g[s \ {Top(s)}]
                                              ELSE Append(g[s \ {Top(s)}], ps[Top(s)])
    BY <1>2, <2>2, <2>3
  <2>5. Is(g)
    BY <2>1, <2>4 DEF Folded
  <2>6. QED
    BY <2>5
<1>5. K!Written(ps) = iter[1..n]
  BY <1>1 DEF K!Written, K!FoldLeft, K!MapThenFoldSet, K!Max, Top
<1> HIDE DEF iter
<1>6. iter[{}] = << >>
  BY <1>4
<1>7. ASSUME NEW k \in 1..n, iter[1..(k - 1)] \in Seq(K!Paragraph)
      PROVE  iter[1..k] = step[<<k, iter[1..(k - 1)]>>]
  <2>1. Top(1..k) = k /\ (1..k) \ {k} = 1..(k - 1) /\ 1..k # {} /\ 1..k \in SUBSET (1..n)
    BY FoldedPlaces
  <2>2. iter[1..k] = IF ps[k].runes = 0 THEN iter[1..(k - 1)] ELSE Append(iter[1..(k - 1)], ps[k])
    BY <1>4, <2>1
  <2>3. QED
    BY <1>2, <1>7, <2>2
<1> HIDE DEF Is
<1>8. \E h : Runs(h, Seq(K!Paragraph), n, step, << >>) /\ iter[1..n] = h[n]
  <2>1. \A k \in 1..n : \A y \in Seq(K!Paragraph) : step[<<k, y>>] \in Seq(K!Paragraph)
    BY <1>2
  <2>2. \A k \in 1..n : iter[1..(k - 1)] \in Seq(K!Paragraph) => iter[1..k] = step[<<k, iter[1..(k - 1)]>>]
    BY <1>7
  <2>3. FoldsBy(iter, Seq(K!Paragraph), n, step, << >>)
    BY <1>3, <1>6, <2>1, <2>2 DEF FoldsBy
  <2>4. QED
    BY <2>3, RunOf
<1>9. QED
  BY <1>5, <1>8 DEF step

\* The paragraphs of chunks.
Parts(cs) == [i \in DOMAIN cs |-> cs[i].paras]
Flat(cs) == K!FlattenSeq(Parts(cs))

LEMMA PartsKind ==
    ASSUME NEW size, NEW cs \in Seq(Filled(size))
    PROVE  Parts(cs) \in Seq(Seq(K!Paragraph)) /\ Flat(cs) \in Seq(K!Paragraph)
<1>1. PICK n \in Nat : n = Len(cs)
  OBVIOUS
<1>2. DOMAIN cs = 1..n /\ \A k \in 1..n : cs[k] \in Filled(size)
  BY <1>1, ElementOf
<1>3. \A k \in 1..n : cs[k].paras \in Seq(K!Paragraph)
  BY <1>2 DEF Filled, Pieces
<1>4. Parts(cs) \in Seq(Seq(K!Paragraph))
  BY <1>2, <1>3 DEF Parts
<1>5. QED
  BY <1>4, FlatKind DEF Flat

LEMMA PartsGrow ==
    ASSUME NEW size, NEW cs \in Seq(Filled(size)), NEW c \in Filled(size)
    PROVE  Flat(Append(cs, c)) = Flat(cs) \o c.paras
<1>1. PICK n \in Nat : n = Len(cs)
  OBVIOUS
<1>2. DOMAIN cs = 1..n /\ \A k \in 1..n : cs[k] \in Filled(size)
  BY <1>1, ElementOf
<1>3. PICK ds : ds = Append(cs, c)
  OBVIOUS
<1>4. DOMAIN ds = 1..(n + 1) /\ ds[n + 1] = c /\ \A k \in 1..n : ds[k] = cs[k]
  BY <1>1, <1>3
<1>5. PICK fs : fs = Parts(cs)
  OBVIOUS
<1>6. fs \in Seq(Seq(K!Paragraph)) /\ fs = [k \in 1..n |-> cs[k].paras]
  BY <1>2, <1>5, PartsKind DEF Parts
<1>7. c.paras \in Seq(K!Paragraph)
  BY DEF Filled, Pieces
<1>8. Parts(ds) = [k \in 1..(n + 1) |-> ds[k].paras]
  BY <1>4 DEF Parts
<1>9. Parts(ds) = Append(fs, c.paras)
  <2>1. PICK x, gs : x = c.paras /\ gs = Append(fs, x)
    OBVIOUS
  <2>2. Len(fs) = n
    BY <1>6
  <2>3. gs = [k \in 1..(n + 1) |-> gs[k]] /\ gs[n + 1] = x /\ \A k \in 1..n : gs[k] = fs[k]
    BY <1>6, <2>1, <2>2
  <2>4. \A k \in 1..(n + 1) : gs[k] = ds[k].paras
    <3>1. ASSUME NEW k \in 1..(n + 1) PROVE gs[k] = ds[k].paras
      <4>1. CASE k = n + 1
        BY <1>4, <2>1, <2>3, <4>1
      <4>2. CASE k # n + 1
        <5>1. k \in 1..n
          BY <4>2
        <5>2. gs[k] = fs[k] /\ ds[k] = cs[k] /\ fs[k] = cs[k].paras
          BY <1>4, <1>6, <2>3, <5>1
        <5>3. QED
          BY <5>2
      <4>3. QED
        BY <4>1, <4>2
    <3>2. QED
      BY <3>1
  <2>5. gs = Parts(ds)
    BY <1>8, <2>3, <2>4
  <2>6. QED
    BY <2>1, <2>5
<1>10. QED
  BY <1>3, <1>5, <1>6, <1>7, <1>9, FlatGrows DEF Flat

\* What one more paragraph adds to the chunks and the one under way.
LEMMA AddKeeps ==
    ASSUME NEW size \in Nat, NEW s \in Cutting(size), NEW p \in K!Paragraph
    PROVE  Flat(K!Add(s, p, size).chunks) \o K!Add(s, p, size).current.paras =
             IF p.runes = 0 THEN Flat(s.chunks) \o s.current.paras
             ELSE Append(Flat(s.chunks) \o s.current.paras, p)
<1>1. PICK cs, c : /\ cs = s.chunks /\ c = s.current /\ s = [chunks |-> cs, current |-> c]
                   /\ cs \in Seq(Filled(size)) /\ c \in Pieces(size)
  BY DEF Cutting
<1>2. c \in [tail : BOOLEAN, paras : Seq(K!Paragraph)] /\ (c.tail => c.paras # << >>)
  BY <1>1 DEF Pieces
<1>3. PICK Ps, w, l : Ps = K!Paragraph /\ w = c.paras /\ l = Flat(cs)
  OBVIOUS
<1>4. w \in Seq(Ps) /\ l \in Seq(Ps) /\ p \in Ps /\ c = [tail |-> c.tail, paras |-> w] /\ c.tail \in BOOLEAN
  BY <1>1, <1>2, <1>3, PartsKind
<1>5. CASE p.runes = 0
  BY <1>5 DEF K!Add
<1>6. CASE p.runes # 0 /\ K!Cuts(s, p, size)
  <2>1. PICK b : b = (Overlap > 0 /\ K!Bytes(c) > Overlap)
    OBVIOUS
  <2>2. K!Add(s, p, size) = [chunks |-> Append(cs, c), current |-> [tail |-> b, paras |-> <<p>>]]
    BY <1>1, <1>6, <2>1 DEF K!Add, K!Chunk
  <2>3. c \in Filled(size)
    BY <1>1, <1>2, <1>6 DEF K!Cuts, K!Empty, Filled
  <2>4. Flat(Append(cs, c)) = l \o w
    BY <1>1, <1>3, <2>3, PartsGrow
  <2>5. (l \o w) \o <<p>> = Append(l \o w, p)
    BY <1>4
  <2>6. PICK r : r = K!Add(s, p, size)
    OBVIOUS
  <2>7. r.chunks = Append(cs, c) /\ r.current.paras = <<p>>
    BY <2>2, <2>6
  <2>8. Flat(r.chunks) \o r.current.paras = Append(l \o w, p)
    BY <2>4, <2>5, <2>7
  <2>9. Flat(s.chunks) \o s.current.paras = l \o w
    BY <1>1, <1>3
  <2>10. QED
    BY <1>6, <2>6, <2>8, <2>9, Zenon
<1>7. CASE p.runes # 0 /\ ~ K!Cuts(s, p, size)
  <2>1. K!Add(s, p, size).chunks = cs /\ K!Add(s, p, size).current.paras = Append(w, p)
    <3>1. K!Add(s, p, size) = [s EXCEPT !.current.paras = Append(@, p)]
      BY <1>7 DEF K!Add
    <3>2. [s EXCEPT !.current.paras = Append(@, p)] = [s EXCEPT !.current = [s.current EXCEPT !.paras = Append(s.current.paras, p)]]
      OBVIOUS
    <3>3. \A v : [s EXCEPT !.current = v] = [chunks |-> cs, current |-> v]
      BY <1>1
    <3>4. [c EXCEPT !.paras = Append(w, p)].paras = Append(w, p)
      BY <1>4
    <3>5. QED
      BY <1>1, <1>3, <3>1, <3>2, <3>3, <3>4
  <2>2. l \o Append(w, p) = Append(l \o w, p)
    BY <1>4
  <2>3. QED
    BY <1>1, <1>3, <1>7, <2>1, <2>2
<1>8. QED
  BY <1>5, <1>6, <1>7

LEMMA ChunksHold ==
    ASSUME NEW size \in Nat, NEW ps \in Seq(K!Paragraph)
    PROVE  K!ChunkText(ps, size) \in Seq(Filled(size)) /\ Flat(K!ChunkText(ps, size)) = K!Written(ps)
<1>1. PICK n \in Nat : n = Len(ps)
  OBVIOUS
<1>2. PICK h : Runs(h, Cutting(size), n, AddStep(ps, size), NoChunk) /\ Adds(ps, size) = h[n]
  BY <1>1, AddsRun
<1>3. PICK w : Runs(w, Seq(K!Paragraph), n, WrittenStep(ps), << >>) /\ K!Written(ps) = w[n]
  BY <1>1, WrittenRun
<1>4. DOMAIN ps = 1..n /\ \A k \in 1..n : ps[k] \in K!Paragraph
  BY <1>1, ElementOf
<1> DEFINE All(s) == Flat(s.chunks) \o s.current.paras
           S == {k \in 0..n : All(h[k]) = w[k]}
<1>5. 0 \in S
  <2>1. h[0] = NoChunk /\ w[0] = << >> /\ 0 \in 0..n
    BY <1>2, <1>3 DEF Runs
  <2>2. NoChunk.chunks = << >> /\ NoChunk.current.paras = << >>
    BY DEF NoChunk, K!Chunk
  <2>3. Flat(<< >>) = << >>
    <3>1. PICK fs : fs = Parts(<< >>)
      OBVIOUS
    <3>2. fs = << >> /\ Len(fs) = 0
      BY <3>1 DEF Parts
    <3>3. K!FlattenSeq(fs) = fs
      BY <3>2 DEF K!FlattenSeq
    <3>4. QED
      BY <3>1, <3>2, <3>3 DEF Flat
  <2>4. << >> \o << >> = << >>
    OBVIOUS
  <2>5. QED
    BY <2>1, <2>2, <2>3, <2>4
<1>6. ASSUME NEW k \in 1..n, k - 1 \in S PROVE k \in S
  <2>1. k - 1 \in 0..n /\ k \in 0..n /\ All(h[k - 1]) = w[k - 1]
    <3>1. k - 1 \in 0..n /\ k \in 0..n
      OBVIOUS
    <3>2. All(h[k - 1]) = w[k - 1]
      BY <1>6, Zenon
    <3>3. QED
      BY <3>1, <3>2
  <2>2. h[k - 1] \in Cutting(size) /\ w[k - 1] \in Seq(K!Paragraph)
    BY <1>2, <1>3, <2>1 DEF Runs
  <2>3. h[k] = K!Add(h[k - 1], ps[k], size)
    <3>1. h[k] = AddStep(ps, size)[<<k, h[k - 1]>>]
      BY <1>2 DEF Runs
    <3>2. QED
      BY <1>4, <2>2, <3>1 DEF AddStep
  <2>4. w[k] = IF ps[k].runes = 0 THEN w[k - 1] ELSE Append(w[k - 1], ps[k])
    <3>1. w[k] = WrittenStep(ps)[<<k, w[k - 1]>>]
      BY <1>3 DEF Runs
    <3>2. QED
      BY <1>4, <2>2, <3>1 DEF WrittenStep
  <2>5. All(h[k]) = IF ps[k].runes = 0 THEN All(h[k - 1]) ELSE Append(All(h[k - 1]), ps[k])
    BY <1>4, <2>2, <2>3, AddKeeps
  <2>6. QED
    BY <2>1, <2>4, <2>5
<1> HIDE DEF S
<1>7. n \in S
  <2>1. \A k \in 1..n : k - 1 \in S => k \in S
    BY <1>6
  <2>2. \A k \in 0..n : k \in S
    BY <1>5, <2>1, UpTo
  <2>3. QED
    BY <2>2
<1>8. PICK end : end = h[n]
  OBVIOUS
<1>9. All(end) = K!Written(ps) /\ end \in Cutting(size)
  <2>1. n \in 0..n
    OBVIOUS
  <2>2. QED
    BY <1>2, <1>3, <1>7, <1>8, <2>1 DEF Runs, S
<1>10. end.chunks \in Seq(Filled(size)) /\ end.current \in Pieces(size)
  BY <1>9 DEF Cutting
<1>11. K!ChunkText(ps, size) = IF K!Empty(end.current) THEN end.chunks ELSE Append(end.chunks, end.current)
  BY <1>2, <1>8 DEF K!ChunkText, Adds, NoChunk
<1>12. end.current \in [tail : BOOLEAN, paras : Seq(K!Paragraph)] /\ (end.current.tail => end.current.paras # << >>)
  BY <1>10 DEF Pieces
<1>13. CASE K!Empty(end.current)
  <2>1. end.current.paras = << >>
    BY <1>13 DEF K!Empty
  <2>2. Flat(end.chunks) \in Seq(K!Paragraph)
    BY <1>10, PartsKind
  <2>3. Flat(end.chunks) \o << >> = Flat(end.chunks)
    BY <2>2
  <2>4. QED
    BY <1>9, <1>10, <1>11, <1>13, <2>1, <2>3
<1>14. CASE ~ K!Empty(end.current)
  <2>1. end.current \in Filled(size)
    BY <1>10, <1>12, <1>14 DEF K!Empty, Filled
  <2>2. Append(end.chunks, end.current) \in Seq(Filled(size))
    BY <1>10, <2>1
  <2>3. Flat(Append(end.chunks, end.current)) = All(end)
    BY <1>10, <2>1, PartsGrow
  <2>4. QED
    BY <1>9, <1>11, <1>14, <2>2, <2>3
<1>15. QED
  BY <1>13, <1>14

-----------------------------------------------------------------------------
(* The ingest command.  Of the chunks a run has tried, those it did not      *)
(* report are in the table, and nobody else's rows have the run's number.    *)

RowsOf(rs, n) == {r \in rs : r.run = n}
Tried(p) == IF processAt[p] \in {"migrate", "apply"} THEN 0 ELSE at[p] - 1
CutFrom(r) == r.text \in Texts /\ r.size \in Sizes /\ r.chunks = K!ChunkText(Paragraphs[r.text], r.size)

Progress(p) ==
    processAt[p] \in {"migrate", "apply", "embed", "insert", "done"} =>
      /\ Tried(p) \in 0..Len(run[p].chunks)
      /\ run[p].failed \subseteq 1..Tried(p)
      /\ {r.index : r \in RowsOf(rows, run[p].no)} = (1..Tried(p)) \ run[p].failed
      /\ \A r \in RowsOf(rows, run[p].no) : r.chunk = run[p].chunks[r.index]
      /\ processAt[p] = "done" => Tried(p) = Len(run[p].chunks)

IngestInv ==
    /\ text \in [Ingested -> Texts]
    /\ \A p \in Ingests : run[p] = K!NoRun \/ CutFrom(run[p])
    /\ \A p \in Ingests : run[p].no \in 0..runs
    /\ \A p, q \in Ingests : run[p].no = run[q].no /\ run[p].no # 0 => p = q
    /\ \A p \in Ingests : Progress(p)

LEMMA IngestInit == K!Init => IngestInv
<1> SUFFICES ASSUME K!Init PROVE IngestInv
  OBVIOUS
<1>1. \A p \in Ingests : processAt[p] = "idle" /\ run[p] = K!NoRun
  BY DEF K!Init, K!Processes
<1>2. \A p \in Ingests : Progress(p)
  BY <1>1 DEF Progress
<1>3. runs = 0 /\ K!NoRun.no = 0 /\ text \in [Ingested -> Texts]
  BY DEF K!Init, K!NoRun
<1>4. QED
  BY <1>1, <1>2, <1>3 DEF IngestInv

LEMMA CutChunks ==
    ASSUME NEW r, CutFrom(r)
    PROVE  /\ r.chunks \in Seq(Filled(r.size)) /\ Flat(r.chunks) = K!Written(Paragraphs[r.text])
           /\ r.size \in Nat
<1>1. Paragraphs[r.text] \in Seq(K!Paragraph) /\ r.size \in Nat
  BY KnowledgeAssumption DEF CutFrom, K!KnowledgeAssumption
<1>2. QED
  BY <1>1, ChunksHold DEF CutFrom

\* A step that leaves the other ingests, and the rows with their numbers, alone.
LEMMA IngestMoves ==
    ASSUME IngestInv, NEW p, text' \in [Ingested -> Texts], runs \in Nat, runs' \in Nat, runs <= runs',
           \A q \in Ingests \ {p} : /\ processAt'[q] = processAt[q] /\ at'[q] = at[q] /\ run'[q] = run[q]
                                    /\ RowsOf(rows', run[q].no) = RowsOf(rows, run[q].no),
           p \in Ingests => /\ run'[p] = K!NoRun \/ CutFrom(run'[p])
                            /\ run'[p].no \in 0..runs'
                            /\ \A q \in Ingests \ {p} : run'[p].no # 0 => run'[p].no # run[q].no
                            /\ Progress(p)'
    PROVE  IngestInv'
<1>1. ASSUME NEW q \in Ingests, q # p PROVE Progress(q)'
  <2>1. Progress(q)
    BY DEF IngestInv
  <2>2. /\ processAt'[q] = processAt[q] /\ at'[q] = at[q] /\ run'[q] = run[q]
        /\ RowsOf(rows', run'[q].no) = RowsOf(rows, run[q].no)
    BY <1>1
  <2>3. QED
    BY <2>1, <2>2 DEF Progress, Tried
<1>2. ASSUME NEW q \in Ingests
      PROVE  /\ run'[q] = K!NoRun \/ CutFrom(run'[q])
             /\ run'[q].no \in 0..runs' /\ Progress(q)'
  <2>1. CASE q = p
    BY <2>1
  <2>2. CASE q # p
    <3>1. run'[q] = run[q]
      BY <2>2
    <3>2. run[q] = K!NoRun \/ CutFrom(run[q])
      BY DEF IngestInv
    <3>3. run[q].no \in 0..runs
      BY DEF IngestInv
    <3>4. QED
      BY <1>1, <2>2, <3>1, <3>2, <3>3
  <2>3. QED
    BY <2>1, <2>2
<1>3. ASSUME NEW q \in Ingests, NEW s \in Ingests, run'[q].no = run'[s].no, run'[q].no # 0 PROVE q = s
  <2>1. CASE q # p /\ s # p
    BY <1>3, <2>1 DEF IngestInv
  <2>2. CASE q = p \/ s = p
    BY <1>3, <2>2
  <2>3. QED
    BY <2>1, <2>2
<1>4. (\A q \in Ingests : run[q] = K!NoRun \/ CutFrom(run[q]))'
  BY <1>2 DEF CutFrom, K!NoRun
<1>5. QED
  BY <1>2, <1>3, <1>4 DEF IngestInv

\* A step of a process that is no ingest, or stores, tries and starts nothing.
LEMMA IngestWaits ==
    ASSUME IngestInv, NEW p, UNCHANGED <<text, run, rows>>, runs \in Nat, runs' \in Nat, runs <= runs',
           \A q \in Ingests \ {p} : processAt'[q] = processAt[q] /\ at'[q] = at[q],
           p \in Ingests => Progress(p)'
    PROVE  IngestInv'
<1>1. text' \in [Ingested -> Texts]
  BY DEF IngestInv
<1>2. ASSUME p \in Ingests
      PROVE  /\ run'[p] = K!NoRun \/ CutFrom(run'[p])
             /\ run'[p].no \in 0..runs'
             /\ \A q \in Ingests \ {p} : run'[p].no # 0 => run'[p].no # run[q].no
  <2>1. run[p] = K!NoRun \/ CutFrom(run[p])
    BY <1>2 DEF IngestInv
  <2>2. run[p].no \in 0..runs
    BY <1>2 DEF IngestInv
  <2>3. \A q \in Ingests \ {p} : run[p].no # 0 => run[p].no # run[q].no
    BY <1>2 DEF IngestInv
  <2>4. QED
    BY <2>1, <2>2, <2>3
<1>3. \A q \in Ingests \ {p} : run'[q] = run[q] /\ RowsOf(rows', run[q].no) = RowsOf(rows, run[q].no)
  OBVIOUS
<1>4. QED
  BY <1>1, <1>2, <1>3, IngestMoves

LEMMA IngestFacts ==
    ASSUME SchemaInv, IngestInv, NEW p \in Ingests, processAt[p] # "idle"
    PROVE  /\ run[p].no \in 1..runs /\ runs \in Nat /\ at[p] \in Nat \ {0} /\ p \in K!Processes
           /\ CutFrom(run[p]) /\ run[p].chunks \in Seq(Filled(run[p].size))
           /\ DOMAIN run[p].chunks = 1..Len(run[p].chunks) /\ Progress(p)
           /\ \A q \in Ingests \ {p} : run[p].no # run[q].no
<1>1. p \in K!Processes
  BY DEF K!Processes
<1>2. Ahead(p) /\ runs \in Nat /\ at[p] \in Nat \ {0}
  BY <1>1 DEF SchemaInv, RunsInv
<1>3. run[p].no \in 1..runs
  BY <1>2 DEF Ahead
<1>4. run[p] # K!NoRun
  BY <1>2, <1>3 DEF K!NoRun
<1>5. CutFrom(run[p])
  BY <1>4 DEF IngestInv
<1>6. run[p].chunks \in Seq(Filled(run[p].size))
  BY <1>5, CutChunks
<1>7. \A q \in Ingests \ {p} : run[p].no # run[q].no
  BY <1>2, <1>3 DEF IngestInv
<1>8. QED
  BY <1>1, <1>2, <1>3, <1>5, <1>6, <1>7 DEF IngestInv

LEMMA StartedIngest ==
    ASSUME SchemaInv, IngestInv, NEW p \in Ingests, NEW f \in Ingested, NEW size \in Sizes,
           K!StartIngest(p, f, size)
    PROVE  IngestInv'
<1>1. PICK l : l = IF driver = "sqlite" THEN "migrate" ELSE "embed"
  OBVIOUS
<1>2. PICK new : new = [no |-> runs', text |-> text[f], size |-> size, failed |-> {},
                        chunks |-> K!ChunkText(Paragraphs[text[f]], size)]
  OBVIOUS
<1>3. /\ processAt' = [processAt EXCEPT ![p] = l] /\ at' = [at EXCEPT ![p] = 1]
      /\ UNCHANGED <<text, rows>> /\ runs' = runs + 1
      /\ run' = [run EXCEPT ![p] = new]
  BY <1>1, <1>2 DEF K!StartIngest, K!Starts, K!Goto
<1>4. p \in K!Processes /\ \A q \in Ingests : q \in K!Processes
  BY DEF K!Processes
<1>5. runs \in Nat /\ runs' \in Nat /\ runs <= runs' /\ \A r \in rows : r.run \in 1..runs
  BY <1>3 DEF SchemaInv, RunsInv
<1>6. processAt'[p] = l /\ at'[p] = 1 /\ run'[p] = new
  BY <1>3, <1>4 DEF SchemaInv, RunsInv
<1>7. \A q \in Ingests \ {p} : processAt'[q] = processAt[q] /\ at'[q] = at[q] /\ run'[q] = run[q]
  BY <1>3, <1>4 DEF SchemaInv, RunsInv
<1>8. text' \in [Ingested -> Texts] /\ text[f] \in Texts
  BY <1>3 DEF IngestInv
<1>9. new.no = runs' /\ new.failed = {} /\ CutFrom(new)
  BY <1>2, <1>8 DEF CutFrom
<1>10. RowsOf(rows', new.no) = {}
  BY <1>3, <1>5, <1>9 DEF RowsOf
<1>11. new.chunks \in Seq(Filled(new.size))
  BY <1>9, CutChunks
<1>12. Len(new.chunks) \in Nat
  BY <1>11
<1>13. Progress(p)'
  <2>1. (1 - 1) = 0 /\ 1..0 = {} /\ 0 \in 0..Len(new.chunks)
    BY <1>12
  <2>2. Tried(p)' = 0
    BY <1>6, <2>1 DEF Tried
  <2>3. l # "done"
    BY <1>1
  <2>4. {r.index : r \in RowsOf(rows', new.no)} = {}
    BY <1>10
  <2>5. QED
    BY <1>6, <1>9, <1>10, <2>1, <2>2, <2>3, <2>4 DEF Progress
<1>14. \A q \in Ingests \ {p} : run'[p].no # 0 => run'[p].no # run[q].no
  BY <1>3, <1>5, <1>6, <1>9 DEF IngestInv
<1>15. CutFrom(run'[p]) /\ run'[p].no \in 0..runs'
  BY <1>5, <1>6, <1>9
<1>16. \A q \in Ingests \ {p} : RowsOf(rows', run[q].no) = RowsOf(rows, run[q].no)
  BY <1>3
<1>17. QED
  BY <1>5, <1>7, <1>8, <1>13, <1>14, <1>15, <1>16, IngestMoves

\* A step through the statements tries no chunk.
StageAfter(l, n) == l \in {"migrate", "apply", "exited", "serve"} \/ (l = "embed" /\ n = 1)
Migrating(p) == processAt[p] \in {"migrate", "apply"}

LEMMA MigrationWaits ==
    ASSUME SchemaInv, IngestInv, NEW p \in K!Processes, NEW l, NEW n,
           Migrating(p), StageAfter(l, n),
           processAt' = [processAt EXCEPT ![p] = l], at' = [at EXCEPT ![p] = n],
           UNCHANGED <<text, run, rows, runs>>
    PROVE  IngestInv'
<1>1. processAt'[p] = l /\ at'[p] = n
  BY DEF SchemaInv
<1>2. \A q \in Ingests \ {p} : processAt'[q] = processAt[q] /\ at'[q] = at[q]
  BY DEF SchemaInv, K!Processes
<1>3. ASSUME p \in Ingests PROVE Progress(p)'
  <2>1. Progress(p) /\ processAt[p] # "done"
    BY <1>3 DEF Migrating, IngestInv
  <2>2. Tried(p) = 0
    BY DEF Migrating, Tried
  <2>3. CASE l \in {"exited", "serve"}
    BY <1>1, <2>3 DEF Progress
  <2>4. CASE l \in {"migrate", "apply", "embed"}
    <3>1. Tried(p)' = 0
      BY <1>1, <2>4 DEF Tried, StageAfter
    <3>2. QED
      BY <1>1, <2>1, <2>2, <2>4, <3>1 DEF Progress, Migrating
  <2>5. QED
    BY <2>3, <2>4 DEF StageAfter
<1>4. runs \in Nat /\ runs' \in Nat /\ runs <= runs'
  BY DEF SchemaInv, RunsInv
<1>5. QED
  BY <1>2, <1>3, <1>4, IngestWaits

LEMMA MigrationsWait ==
    ASSUME SchemaInv, IngestInv, NEW p \in K!Processes,
           K!Migrated(p) \/ K!MigrateSQLite(p) \/ K!CheckVersion(p) \/ K!ApplyVersion(p)
    PROVE  IngestInv'
<1>1. Migrating(p) /\ UNCHANGED <<text, run, rows, runs>>
  BY DEF Migrating, K!Migrated, K!MigrateSQLite, K!CheckVersion, K!ApplyVersion
<1>2. at = [at EXCEPT ![p] = at[p]]
  BY DEF SchemaInv
<1>3. ASSUME NEW l, NEW n, StageAfter(l, n),
             processAt' = [processAt EXCEPT ![p] = l], at' = [at EXCEPT ![p] = n]
      PROVE  IngestInv'
  <2>1. UNCHANGED <<text, run, rows, runs>> /\ Migrating(p)
    BY <1>1
  <2>2. QED
    BY <1>3, <2>1, MigrationWaits
<1>4. CASE K!Exit(p)
  BY <1>2, <1>3, <1>4 DEF StageAfter, K!Exit, K!Goto
<1>5. CASE K!Step(p, "migrate")
  BY <1>3, <1>5 DEF StageAfter, K!Step, K!Goto
<1>6. CASE K!Goto(p, "apply") /\ UNCHANGED at
  BY <1>2, <1>3, <1>6 DEF StageAfter, K!Goto
<1>7. CASE K!Migrated(p)
  BY <1>3, <1>7 DEF StageAfter, K!Migrated, K!Goto
<1>8. QED
  BY <1>4, <1>5, <1>6, <1>7 DEF K!MigrateSQLite, K!CheckVersion, K!ApplyVersion

LEMMA SkippedChunk ==
    ASSUME SchemaInv, IngestInv, NEW p \in Ingests, processAt[p] \in {"embed", "insert"},
           at[p] \in DOMAIN run[p].chunks, K!Skips(p), UNCHANGED <<text, runs>>
    PROVE  IngestInv'
<1> USE IngestFacts
<1>1. PICK n, old : n = at[p] /\ old = run[p]
  OBVIOUS
<1>2. PICK new : new = [old EXCEPT !.failed = @ \cup {n}]
  OBVIOUS
<1>3. /\ processAt' = [processAt EXCEPT ![p] = "embed"] /\ at' = [at EXCEPT ![p] = n + 1]
      /\ run' = [run EXCEPT ![p] = new] /\ rows' = rows
  BY <1>1, <1>2 DEF K!Skips, K!Step, K!Goto, K!Missed
<1>4. old = [no |-> old.no, text |-> old.text, size |-> old.size, chunks |-> old.chunks, failed |-> old.failed]
  BY <1>1 DEF SchemaInv, RunsInv
<1>5. /\ new.no = old.no /\ new.text = old.text /\ new.size = old.size /\ new.chunks = old.chunks
      /\ new.failed = old.failed \cup {n}
  BY <1>2, <1>4
<1>6. n \in 1..Len(old.chunks) /\ Len(old.chunks) \in Nat /\ old.no \in 1..runs /\ runs \in Nat /\ CutFrom(old) /\ Progress(p)
  BY <1>1
<1>7. processAt'[p] = "embed" /\ at'[p] = n + 1 /\ run'[p] = new
  BY <1>3 DEF SchemaInv, RunsInv, K!Processes
<1>8. \A q \in Ingests \ {p} : processAt'[q] = processAt[q] /\ at'[q] = at[q] /\ run'[q] = run[q]
  BY <1>3 DEF SchemaInv, RunsInv, K!Processes
<1>9. CutFrom(new)
  BY <1>5, <1>6 DEF CutFrom
<1>10. Progress(p)'
  <2>1. Tried(p) = n - 1 /\ Tried(p)' = n
    BY <1>1, <1>6, <1>7 DEF Tried
  <2>2. /\ old.failed \subseteq 1..(n - 1)
        /\ {r.index : r \in RowsOf(rows, old.no)} = (1..(n - 1)) \ old.failed
        /\ \A r \in RowsOf(rows, old.no) : r.chunk = old.chunks[r.index]
    BY <1>1, <1>6, <2>1 DEF Progress
  <2>3. n \in 0..Len(old.chunks) /\ 1..n = 1..(n - 1) \cup {n}
    BY <1>6
  <2>4. new.failed \subseteq 1..n
    BY <1>5, <2>2, <2>3
  <2>5. (1..(n - 1)) \ old.failed = (1..n) \ new.failed
    BY <1>5, <1>6, <2>3
  <2>6. QED
    BY <1>3, <1>5, <1>7, <2>1, <2>2, <2>3, <2>4, <2>5 DEF Progress
<1>11. /\ CutFrom(run'[p]) /\ run'[p].no \in 0..runs' /\ runs' \in Nat /\ runs <= runs'
       /\ \A q \in Ingests \ {p} : run'[p].no # 0 => run'[p].no # run[q].no
  BY <1>1, <1>5, <1>6, <1>7, <1>9
<1>12. \A q \in Ingests \ {p} : RowsOf(rows', run[q].no) = RowsOf(rows, run[q].no)
  BY <1>3
<1>13. text' \in [Ingested -> Texts]
  BY DEF IngestInv
<1>14. QED
  BY <1>6, <1>8, <1>10, <1>11, <1>12, <1>13, IngestMoves

LEMMA StoredChunk ==
    ASSUME SchemaInv, IngestInv, NEW p \in Ingests, processAt[p] = "insert", at[p] \in DOMAIN run[p].chunks,
           rows' = rows \cup {K!Row(p)}, K!Step(p, "embed"), UNCHANGED <<text, run, runs>>
    PROVE  IngestInv'
<1> USE IngestFacts
<1>1. PICK n, mine : n = at[p] /\ mine = run[p]
  OBVIOUS
<1>2. PICK row : row = K!Row(p)
  OBVIOUS
<1>3. row.run = mine.no /\ row.index = n /\ row.chunk = mine.chunks[n]
  BY <1>1, <1>2 DEF K!Row
<1>4. processAt' = [processAt EXCEPT ![p] = "embed"] /\ at' = [at EXCEPT ![p] = n + 1]
  BY <1>1 DEF K!Step, K!Goto
<1>5. n \in 1..Len(mine.chunks) /\ Len(mine.chunks) \in Nat /\ mine.no \in 1..runs /\ runs \in Nat /\ CutFrom(mine) /\ Progress(p)
  BY <1>1
<1>6. processAt'[p] = "embed" /\ at'[p] = n + 1 /\ run'[p] = mine
  BY <1>1, <1>4 DEF SchemaInv, K!Processes
<1>7. \A q \in Ingests \ {p} : processAt'[q] = processAt[q] /\ at'[q] = at[q] /\ run'[q] = run[q]
  BY <1>4 DEF SchemaInv, K!Processes
<1>8. RowsOf(rows', mine.no) = RowsOf(rows, mine.no) \cup {row}
  BY <1>2, <1>3 DEF RowsOf
<1>9. Progress(p)'
  <2>1. Tried(p) = n - 1 /\ Tried(p)' = n
    BY <1>1, <1>5, <1>6 DEF Tried
  <2>2. /\ mine.failed \subseteq 1..(n - 1)
        /\ {r.index : r \in RowsOf(rows, mine.no)} = (1..(n - 1)) \ mine.failed
        /\ \A r \in RowsOf(rows, mine.no) : r.chunk = mine.chunks[r.index]
    BY <1>1, <1>5, <2>1 DEF Progress
  <2>3. n \in 0..Len(mine.chunks) /\ 1..n = 1..(n - 1) \cup {n}
    BY <1>5
  <2>4. n \notin mine.failed
    BY <1>5, <2>2
  <2>5. {r.index : r \in RowsOf(rows', mine.no)} = {r.index : r \in RowsOf(rows, mine.no)} \cup {n}
    BY <1>3, <1>8
  <2>6. {r.index : r \in RowsOf(rows', mine.no)} = (1..n) \ mine.failed
    BY <2>2, <2>3, <2>4, <2>5
  <2>7. \A r \in RowsOf(rows', mine.no) : r.chunk = mine.chunks[r.index]
    BY <1>3, <1>8, <2>2
  <2>8. QED
    BY <1>6, <2>1, <2>2, <2>3, <2>6, <2>7 DEF Progress
<1>10. /\ CutFrom(run'[p]) /\ run'[p].no \in 0..runs' /\ runs' \in Nat /\ runs <= runs'
       /\ \A q \in Ingests \ {p} : run'[p].no # 0 => run'[p].no # run[q].no
  BY <1>1, <1>5, <1>6
<1>11. \A q \in Ingests \ {p} : RowsOf(rows', run[q].no) = RowsOf(rows, run[q].no)
  <2>1. \A q \in Ingests \ {p} : row.run # run[q].no
    BY <1>1, <1>3
  <2>2. QED
    BY <1>2, <2>1 DEF RowsOf
<1>12. text' \in [Ingested -> Texts]
  BY DEF IngestInv
<1>13. QED
  BY <1>5, <1>7, <1>9, <1>10, <1>11, <1>12, IngestMoves

LEMMA ChunkTried ==
    ASSUME SchemaInv, IngestInv, NEW p \in Ingests, K!Embed(p) \/ K!Ingest(p) \/ K!Complete(p)
    PROVE  IngestInv'
<1>1. CASE K!Embed(p) \/ K!Ingest(p)
  <2>1. /\ processAt[p] \in {"embed", "insert"} /\ at[p] \in DOMAIN run[p].chunks /\ UNCHANGED <<text, runs>>
        /\ K!Ingest(p) => processAt[p] = "insert"
    BY <1>1 DEF K!Embed, K!Ingest, K!AtChunk
  <2>2. CASE K!Skips(p)
    BY <2>1, <2>2, SkippedChunk
  <2>3. CASE K!Ingest(p) /\ ~K!Skips(p)
    <3>1. rows' = rows \cup {K!Row(p)} /\ K!Step(p, "embed") /\ run' = run
      BY <2>3 DEF K!Ingest
    <3>2. QED
      BY <2>1, <2>3, <3>1, StoredChunk
  <2>4. CASE K!Embed(p) /\ ~K!Skips(p)
    <3>1. processAt[p] = "embed" /\ processAt' = [processAt EXCEPT ![p] = "insert"] /\ UNCHANGED <<at, run, rows>>
      BY <2>4 DEF K!Embed, K!AtChunk, K!Goto
    <3>2. processAt'[p] = "insert" /\ \A q \in Ingests \ {p} : processAt'[q] = processAt[q]
      BY <3>1 DEF SchemaInv, K!Processes
    <3>3. Progress(p)
      BY DEF IngestInv
    <3>4. Tried(p)' = Tried(p)
      BY <3>1, <3>2 DEF Tried
    <3>5. Progress(p)'
      BY <3>1, <3>2, <3>3, <3>4 DEF Progress
    <3>6. runs \in Nat /\ runs' \in Nat /\ runs <= runs'
      BY <2>1 DEF SchemaInv, RunsInv
    <3>7. QED
      BY <2>1, <3>1, <3>2, <3>5, <3>6, IngestWaits
  <2>5. QED
    BY <1>1, <2>2, <2>3, <2>4
<1>2. CASE K!Complete(p)
  <2>1. /\ processAt[p] = "embed" /\ at[p] > Len(run[p].chunks)
        /\ processAt' = [processAt EXCEPT ![p] = "done"] /\ UNCHANGED <<text, at, run, rows, runs>>
    BY <1>2 DEF K!Complete, K!Goto
  <2>2. processAt'[p] = "done" /\ \A q \in Ingests \ {p} : processAt'[q] = processAt[q]
    BY <2>1 DEF SchemaInv, K!Processes
  <2>3. Progress(p) /\ at[p] \in Nat \ {0} /\ Len(run[p].chunks) \in Nat
    BY <2>1, IngestFacts
  <2>4. Tried(p)' = Tried(p) /\ Tried(p) = at[p] - 1
    BY <2>1, <2>2 DEF Tried
  <2>5. Tried(p) \in 0..Len(run[p].chunks)
    BY <2>1, <2>3 DEF Progress
  <2>6. Tried(p) = Len(run[p].chunks)
    BY <2>1, <2>3, <2>4, <2>5
  <2>7. Progress(p)'
    BY <2>1, <2>2, <2>3, <2>4, <2>5, <2>6 DEF Progress
  <2>8. runs \in Nat /\ runs' \in Nat /\ runs <= runs'
    BY <2>1 DEF SchemaInv, RunsInv
  <2>9. QED
    BY <2>1, <2>2, <2>7, <2>8, IngestWaits
<1>3. QED
  BY <1>1, <1>2

LEMMA KilledIngest ==
    ASSUME SchemaInv, IngestInv, NEW p \in K!Processes, K!Kill(p)
    PROVE  IngestInv'
<1>1. /\ UNCHANGED <<text, at, rows, runs>> /\ processAt' = [processAt EXCEPT ![p] = "idle"]
      /\ run' = [q \in Ingests |-> IF q = p THEN K!NoRun ELSE run[q]]
  BY DEF K!Kill, K!Goto
<1>2. processAt'[p] = "idle" /\ \A q \in Ingests \ {p} : processAt'[q] = processAt[q]
  BY <1>1 DEF SchemaInv, K!Processes
<1>3. Progress(p)'
  BY <1>2 DEF Progress
<1>4. /\ \A q \in Ingests \ {p} : run'[q] = run[q] /\ at'[q] = at[q] /\ RowsOf(rows', run[q].no) = RowsOf(rows, run[q].no)
      /\ p \in Ingests => run'[p] = K!NoRun
  BY <1>1
<1>5. runs \in Nat /\ runs' \in Nat /\ runs <= runs' /\ K!NoRun.no = 0 /\ 0 \in 0..runs'
  BY <1>1 DEF SchemaInv, RunsInv, K!NoRun
<1>6. text' \in [Ingested -> Texts]
  BY <1>1 DEF IngestInv
<1>7. QED
  BY <1>2, <1>3, <1>4, <1>5, <1>6, IngestMoves

LEMMA IngestStep == ASSUME SchemaInv, IngestInv, [K!Next]_K!vars PROVE IngestInv'
<1>1. ASSUME UNCHANGED <<processAt, at, run, rows, runs>>, text' \in [Ingested -> Texts] PROVE IngestInv'
  BY <1>1 DEF IngestInv, Progress, Tried, RowsOf, CutFrom, K!NoRun
<1>2. CASE \E p \in Services : K!StartProgram(p)
  <2>1. PICK p \in Services : K!StartProgram(p)
    BY <1>2
  <2>2. /\ processAt' = [processAt EXCEPT ![p] = "migrate"] /\ at' = [at EXCEPT ![p] = 1]
        /\ UNCHANGED <<text, run, rows>> /\ runs' = runs + 1
    BY <2>1 DEF K!StartProgram, K!Starts, K!Goto
  <2>3. p \notin Ingests /\ \A q \in Ingests : q \in K!Processes
    BY KnowledgeAssumption DEF K!KnowledgeAssumption, K!Processes
  <2>4. \A q \in Ingests \ {p} : processAt'[q] = processAt[q] /\ at'[q] = at[q]
    BY <2>2, <2>3 DEF SchemaInv
  <2>5. runs \in Nat /\ runs' \in Nat /\ runs <= runs'
    BY <2>2 DEF SchemaInv, RunsInv
  <2>6. QED
    BY <2>2, <2>3, <2>4, <2>5, IngestWaits
<1>3. CASE \E p \in Services, q \in Queries : K!Answer(p, q)
  BY <1>1, <1>3 DEF K!Answer, IngestInv
<1>4. CASE \E f \in Ingested, t \in Texts : K!Edit(f, t)
  BY <1>1, <1>4 DEF K!Edit, IngestInv
<1>5. CASE \E p \in Ingests : \/ \E f \in Ingested, size \in Sizes : K!StartIngest(p, f, size)
                              \/ K!Embed(p) \/ K!Ingest(p) \/ K!Complete(p)
  BY <1>5, StartedIngest, ChunkTried
<1>6. CASE \E p \in K!Processes : \/ K!Migrated(p) \/ K!MigrateSQLite(p) \/ K!CheckVersion(p)
                                  \/ K!ApplyVersion(p) \/ K!Kill(p)
  BY <1>6, MigrationsWait, KilledIngest
<1>7. CASE UNCHANGED K!vars
  BY <1>1, <1>7 DEF K!vars, IngestInv
<1>8. QED
  BY <1>2, <1>3, <1>4, <1>5, <1>6, <1>7 DEF K!Next

LEMMA IngestHolds ==
    ASSUME SchemaInv, IngestInv
    PROVE  K!ChunksAreWhole /\ K!EveryChunkStored
<1>1. ASSUME NEW p \in Ingests, run[p] # K!NoRun
      PROVE  /\ Flat(run[p].chunks) = K!Written(Paragraphs[run[p].text])
             /\ \A i \in DOMAIN run[p].chunks :
                  run[p].chunks[i].paras # << >> /\ Fits(run[p].chunks[i], run[p].size)
  <2>1. CutFrom(run[p])
    BY <1>1 DEF IngestInv
  <2>2. /\ run[p].chunks \in Seq(Filled(run[p].size)) /\ Flat(run[p].chunks) = K!Written(Paragraphs[run[p].text])
    BY <2>1, CutChunks
  <2>3. \A i \in DOMAIN run[p].chunks : run[p].chunks[i] \in Filled(run[p].size)
    BY <2>2
  <2>4. \A c \in Filled(run[p].size) : c.paras # << >> /\ Fits(c, run[p].size)
    BY DEF Filled, Pieces
  <2>5. QED
    BY <2>2, <2>3, <2>4
<1>2. K!ChunksAreWhole
  BY <1>1 DEF K!ChunksAreWhole, Flat, Parts, Fits
<1>3. ASSUME NEW p \in Ingests, processAt[p] = "done"
      PROVE  /\ {r.index : r \in RowsOf(rows, run[p].no)} = DOMAIN run[p].chunks \ run[p].failed
             /\ \A r \in RowsOf(rows, run[p].no) : r.chunk = run[p].chunks[r.index]
  <2>1. Progress(p) /\ DOMAIN run[p].chunks = 1..Len(run[p].chunks)
    BY <1>3, IngestFacts
  <2>2. QED
    BY <1>3, <2>1 DEF Progress
<1>4. K!EveryChunkStored
  BY <1>3 DEF K!EveryChunkStored, RowsOf
<1>5. QED
  BY <1>2, <1>4

-----------------------------------------------------------------------------
(* What a prompt is given.  Relevance goes up with the score, so that either *)
(* the relevant rows are among the best or the best are all relevant.        *)

LEMMA DotKind ==
    ASSUME NEW a \in Seq(Nat), NEW b \in Seq(Nat), Len(a) = Len(b)
    PROVE  K!Dot(a, b) \in Nat
<1>1. PICK n \in Nat : n = Len(a)
  OBVIOUS
<1>2. PICK ps : ps = [i \in DOMAIN a |-> i]
  OBVIOUS
<1>3. /\ DOMAIN a = 1..n /\ \A k \in 1..n : a[k] \in Nat /\ b[k] \in Nat
      /\ Len(ps) = n /\ DOMAIN ps = 1..n /\ \A k \in 1..n : ps[k] = k
  BY <1>1, <1>2
<1> DEFINE step == [x \in (1..n) \X Nat |-> x[2] + a[x[1]] * b[x[1]]]
           Is(f) == f = [s \in SUBSET (1..n) |-> IF s = {} THEN 0
                                                 ELSE f[s \ {Top(s)}] + a[ps[Top(s)]] * b[ps[Top(s)]]]
           iter == CHOOSE f : Is(f)
<1>4. \A k \in 1..n : \A y \in Nat : step[<<k, y>>] = y + a[k] * b[k] /\ step[<<k, y>>] \in Nat
  <2>1. ASSUME NEW k \in 1..n, NEW y \in Nat PROVE step[<<k, y>>] = y + a[k] * b[k] /\ step[<<k, y>>] \in Nat
    <3>1. PICK u \in Nat, v \in Nat : u = a[k] /\ v = b[k]
      BY <1>3
    <3>2. u * v \in Nat
      OBVIOUS
    <3>3. y + u * v \in Nat
      BY <3>2
    <3>4. step[<<k, y>>] = y + a[k] * b[k]
      OBVIOUS
    <3>5. QED
      BY <3>1, <3>3, <3>4
  <2>2. QED
    BY <2>1
<1> HIDE DEF step
<1>5. Is(iter)
  <2>1. PICK g : Folded(g, n, step, 0)
    BY FoldedExists
  <2>2. \A s \in SUBSET (1..n) : g[s] \in Nat
    BY <1>4, <2>1, FoldedKinds
  <2>3. \A s \in SUBSET (1..n) : s # {} => Top(s) \in 1..n /\ s \ {Top(s)} \in SUBSET (1..n)
    BY TopIn
  <2>4. \A s \in SUBSET (1..n) : s # {} => step[<<Top(s), g[s \ {Top(s)}]>>] =
                                            g[s \ {Top(s)}] + a[ps[Top(s)]] * b[ps[Top(s)]]
    <3>1. ASSUME NEW s \in SUBSET (1..n), s # {}
          PROVE  step[<<Top(s), g[s \ {Top(s)}]>>] = g[s \ {Top(s)}] + a[ps[Top(s)]] * b[ps[Top(s)]]
      <4>1. PICK k \in 1..n : k = Top(s)
        BY <2>3, <3>1
      <4>2. ps[k] = k /\ g[s \ {k}] \in Nat
        BY <1>3, <2>2
      <4>3. step[<<k, g[s \ {k}]>>] = g[s \ {k}] + a[k] * b[k]
        BY <1>4, <4>2
      <4>4. QED
        BY <4>1, <4>2, <4>3
    <3>2. QED
      BY <3>1
  <2>5. Is(g)
    BY <2>1, <2>4 DEF Folded
  <2>6. QED
    BY <2>5
<1>6. K!Dot(a, b) = iter[1..n]
  BY <1>2, <1>3 DEF K!Dot, K!FoldLeft, K!MapThenFoldSet, K!Max, Top
<1> HIDE DEF iter
<1>7. iter[{}] = 0
  BY <1>5
<1>8. ASSUME NEW k \in 1..n, iter[1..(k - 1)] \in Nat
      PROVE  iter[1..k] = step[<<k, iter[1..(k - 1)]>>]
  <2>1. Top(1..k) = k /\ (1..k) \ {k} = 1..(k - 1) /\ 1..k # {} /\ 1..k \in SUBSET (1..n)
    BY FoldedPlaces
  <2>2. iter[1..k] = iter[1..(k - 1)] + a[k] * b[k]
    <3>1. iter[1..k] = iter[1..(k - 1)] + a[ps[k]] * b[ps[k]]
      BY <1>5, <2>1
    <3>2. ps[k] = k
      BY <1>3
    <3>3. QED
      BY <3>1, <3>2
  <2>3. QED
    BY <1>4, <1>8, <2>2
<1> HIDE DEF Is
<1>9. FoldsBy(iter, Nat, n, step, 0)
  <2>1. \A k \in 1..n : \A y \in Nat : step[<<k, y>>] \in Nat
    BY <1>4
  <2>2. \A k \in 1..n : iter[1..(k - 1)] \in Nat => iter[1..k] = step[<<k, iter[1..(k - 1)]>>]
    BY <1>8
  <2>3. QED
    BY <1>7, <2>1, <2>2 DEF FoldsBy
<1>10. PICK h : Runs(h, Nat, n, step, 0) /\ iter[1..n] = h[n]
  BY <1>9, RunOf
<1>11. QED
  BY <1>6, <1>10 DEF Runs

Fraction == [over : Nat, under : Nat \ {0}]

LEMMA ScoreKind == ASSUME NEW q \in Seq(Nat), NEW v \in Seq(Nat) PROVE K!Score(q, v) \in Fraction
<1>1. CASE Len(q) # Len(v) \/ K!Dot(q, q) * K!Dot(v, v) = 0
  BY <1>1 DEF K!Score, Fraction
<1>2. CASE ~ (Len(q) # Len(v) \/ K!Dot(q, q) * K!Dot(v, v) = 0)
  <2>1. PICK x \in Nat, y \in Nat, z \in Nat : x = K!Dot(q, v) /\ y = K!Dot(q, q) /\ z = K!Dot(v, v)
    BY <1>2, DotKind
  <2>2. x * x \in Nat /\ y * z \in Nat /\ y * z # 0
    BY <1>2, <2>1
  <2>3. K!Score(q, v) = [over |-> x * x, under |-> y * z]
    BY <1>2, <2>1 DEF K!Score
  <2>4. QED
    BY <2>2, <2>3 DEF Fraction
<1>3. QED
  BY <1>1, <1>2

LEMMA Products == ASSUME NEW x \in Nat, NEW y \in Nat, NEW k \in Nat, y * k < x * k PROVE y < x
<1>1. CASE x <= y
  <2>1. PICK d \in Nat : y = x + d
    <3>1. y - x \in Nat /\ y = x + (y - x)
      BY <1>1
    <3>2. QED
      BY <3>1
  <2>2. y * k = x * k + d * k /\ d * k \in Nat /\ x * k \in Nat
    BY <2>1
  <2>3. QED
    BY <2>2
<1>2. QED
  BY <1>1

LEMMA RelevanceGoesUp ==
    ASSUME NEW a \in Fraction, NEW b \in Fraction, K!AtLeast(a, b), K!Relevant(b)
    PROVE  K!Relevant(a)
<1>1. PICK ao \in Nat, au \in Nat \ {0}, bo \in Nat, bu \in Nat \ {0} :
        ao = a.over /\ au = a.under /\ bo = b.over /\ bu = b.under
  BY DEF Fraction
<1>2. ao * bu >= bo * au /\ 9 * bu < 100 * bo
  BY <1>1 DEF K!AtLeast, K!Relevant
<1>3. PICK u \in Nat, v \in Nat : u = ao * bu /\ v = bo * au
  OBVIOUS
<1>4. (100 * ao) * bu = 100 * u /\ (100 * bo) * au = 100 * v
  BY <1>3
<1>5. (9 * bu) * au < (100 * bo) * au
  <2>1. PICK d \in Nat \ {0} : 100 * bo = 9 * bu + d
    <3>1. 100 * bo - 9 * bu \in Nat \ {0} /\ 100 * bo = 9 * bu + (100 * bo - 9 * bu)
      BY <1>2
    <3>2. QED
      BY <3>1
  <2>2. (100 * bo) * au = (9 * bu) * au + d * au
    BY <2>1
  <2>3. d * au \in Nat \ {0} /\ (9 * bu) * au \in Nat
    OBVIOUS
  <2>4. QED
    BY <2>2, <2>3
<1>6. (9 * au) * bu = (9 * bu) * au
  OBVIOUS
<1>7. (9 * au) * bu < (100 * ao) * bu
  BY <1>2, <1>3, <1>4, <1>5, <1>6
<1>8. 9 * au < 100 * ao
  <2>1. 9 * au \in Nat /\ 100 * ao \in Nat /\ bu \in Nat
    OBVIOUS
  <2>2. QED
    BY <1>7, <2>1, Products
<1>9. QED
  BY <1>1, <1>8 DEF K!Relevant

LEMMA LeastOfTwo ==
    ASSUME NEW a \in Nat, NEW b \in Nat
    PROVE  K!Min({a, b}) = IF a <= b THEN a ELSE b
<1>1. PICK m \in {a, b} : m = (IF a <= b THEN a ELSE b) /\ \A y \in {a, b} : m <= y
  OBVIOUS
<1>2. \A x \in {a, b} : (\A y \in {a, b} : x <= y) => x = m
  BY <1>1
<1>3. QED
  BY <1>1, <1>2 DEF K!Min

LEMMA SizeOf == ASSUME NEW S PROVE K!Cardinality(S) = Cardinality(S)
BY DEF K!Cardinality, Cardinality

\* The cut by number and the one by relevance, in either order.
BestOf(q, seen, found) ==
    LET relevant == {r \in seen : K!Relevant(K!Score(q, r.vector))}
    IN /\ found \subseteq relevant
       /\ Cardinality(found) = K!Min({TopK, Cardinality(relevant)})
       /\ \A r \in found, s \in relevant \ found : K!AtLeast(K!Score(q, r.vector), K!Score(q, s.vector))

LEMMA BestOfTheBest ==
    ASSUME NEW q \in Seq(Nat), NEW seen, IsFiniteSet(seen), \A r \in seen : r.vector \in Seq(Nat),
           NEW S \in K!Search(q, seen)
    PROVE  BestOf(q, seen, {r \in S : K!Relevant(K!Score(q, r.vector))})
<1> DEFINE score(r) == K!Score(q, r.vector)
           found == {r \in S : K!Relevant(score(r))}
           relevant == {r \in seen : K!Relevant(score(r))}
<1>1. S \subseteq seen /\ IsFiniteSet(S) /\ IsFiniteSet(relevant)
  BY FS_Subset DEF K!Search
<1>2. PICK k \in Nat, m \in Nat, n \in Nat : k = Cardinality(S) /\ m = Cardinality(relevant) /\ n = Cardinality(seen)
  BY <1>1, FS_CardinalityType
<1>3. TopK \in Nat
  BY KnowledgeAssumption DEF K!KnowledgeAssumption
<1>4. k = IF TopK <= n THEN TopK ELSE n
  <2>1. k = K!Min({TopK, n})
    BY <1>2, SizeOf DEF K!Search
  <2>2. QED
    BY <1>3, <2>1, LeastOfTwo
<1>5. \A r \in S, s \in seen \ S : K!AtLeast(score(r), score(s))
  BY DEF K!Search
<1>6. \A r \in seen : score(r) \in Fraction
  BY ScoreKind
<1>7. Cardinality(found) = K!Min({TopK, m})
  <2>1. CASE relevant \subseteq S
    <3>1. found = relevant
      BY <1>1, <2>1
    <3>2. m <= k
      BY <1>1, <1>2, <2>1, FS_Subset
    <3>3. m <= TopK
      BY <1>3, <1>4, <3>2
    <3>4. m = K!Min({TopK, m})
      BY <1>3, <3>3, LeastOfTwo
    <3>5. QED
      BY <1>2, <3>1, <3>4
  <2>2. CASE ~ (relevant \subseteq S)
    <3>1. PICK s \in relevant : s \notin S
      BY <2>2
    <3>2. \A r \in S : K!Relevant(score(r))
      <4>1. s \in seen \ S /\ K!Relevant(score(s)) /\ score(s) \in Fraction
        BY <1>6, <3>1
      <4>2. \A r \in S : score(r) \in Fraction /\ K!AtLeast(score(r), score(s))
        BY <1>1, <1>5, <1>6, <4>1
      <4> HIDE DEF score
      <4>3. QED
        BY <4>1, <4>2, RelevanceGoesUp
    <3>3. found = S /\ S \subseteq relevant
      BY <1>1, <3>2
    <3>4. k # n
      <4>1. S # seen
        BY <3>1
      <4>2. QED
        BY <1>1, <1>2, <4>1, FS_Subset
    <3>5. k = TopK /\ TopK <= m
      <4>1. k <= m
        BY <1>1, <1>2, <3>3, FS_Subset
      <4>2. QED
        BY <1>3, <1>4, <3>4, <4>1
    <3>6. TopK = K!Min({TopK, m})
      BY <1>3, <3>5, LeastOfTwo
    <3>7. QED
      BY <1>2, <3>3, <3>5, <3>6
  <2>3. QED
    BY <2>1, <2>2
<1>8. found \subseteq relevant /\ \A r \in found, s \in relevant \ found : K!AtLeast(score(r), score(s))
  BY <1>1, <1>5
<1>9. QED
  BY <1>2, <1>7, <1>8 DEF BestOf

RowsInv ==
    /\ IsFiniteSet(rows) /\ \A r \in rows : r.vector \in Seq(Nat)
    /\ K!AnswersAreBest

LEMMA BestAnswer == BestOf(answer.query, answer.from, answer.found) <=> K!AnswersAreBest
BY SizeOf DEF BestOf, K!AnswersAreBest

LEMMA RowsInit == K!Init => RowsInv
<1> SUFFICES ASSUME K!Init PROVE RowsInv
  OBVIOUS
<1>1. rows = {} /\ answer.query = << >> /\ answer.found = {} /\ answer.from = {}
  BY DEF K!Init, K!NoAnswer
<1>2. Cardinality({}) = 0 /\ IsFiniteSet({})
  BY FS_EmptySet
<1>3. K!Min({TopK, 0}) = 0
  <2>1. TopK \in Nat \ {0} /\ 0 \in Nat
    BY KnowledgeAssumption DEF K!KnowledgeAssumption
  <2>2. QED
    BY <2>1, LeastOfTwo
<1>4. BestOf(answer.query, {}, {})
  BY <1>2, <1>3 DEF BestOf
<1>5. QED
  BY <1>1, <1>2, <1>4, BestAnswer DEF RowsInv

LEMMA RowsGrow ==
    ASSUME SchemaInv, IngestInv, RowsInv, NEW p \in Ingests, K!Ingest(p)
    PROVE  RowsInv'
<1>1. answer' = answer /\ processAt[p] = "insert" /\ at[p] \in DOMAIN run[p].chunks
  BY DEF K!Ingest, K!AtChunk
<1>2. K!AnswersAreBest'
  BY <1>1 DEF RowsInv, K!AnswersAreBest
<1>3. CASE rows' = rows
  BY <1>2, <1>3 DEF RowsInv
<1>4. CASE rows' = rows \cup {K!Row(p)}
  <2>1. PICK c : c = run[p].chunks[at[p]]
    OBVIOUS
  <2>2. c \in Filled(run[p].size)
    BY <1>1, <2>1, IngestFacts
  <2>3. c.paras \in Seq(K!Paragraph) /\ c.paras # << >>
    BY <2>2 DEF Filled, Pieces
  <2>4. K!Last(c.paras) \in K!Paragraph
    <3>1. PICK S, s : S = K!Paragraph /\ s = c.paras
      OBVIOUS
    <3>2. s \in Seq(S) /\ s # << >>
      BY <2>3, <3>1
    <3>3. s[Len(s)] \in S
      BY <3>2
    <3>4. QED
      BY <3>1, <3>3 DEF K!Last
  <2>5. K!Last(c.paras).name \in DOMAIN Vector
    BY <2>4 DEF K!Paragraph
  <2>6. Vector[K!Last(c.paras).name] \in Seq(Nat)
    BY <2>5, KnowledgeAssumption DEF K!KnowledgeAssumption
  <2>7. K!Row(p).vector = Vector[K!Last(c.paras).name]
    BY <2>1 DEF K!Row
  <2>8. IsFiniteSet(rows')
    BY <1>4, FS_AddElement DEF RowsInv
  <2>9. QED
    BY <1>2, <1>4, <2>6, <2>7, <2>8 DEF RowsInv
<1>5. QED
  BY <1>3, <1>4 DEF K!Ingest, K!Skips

LEMMA BestIsGiven ==
    ASSUME RowsInv, NEW p \in Services, NEW q \in Queries, K!Answer(p, q)
    PROVE  RowsInv'
<1> DEFINE stored == {r \in rows : r.vector # << >>}
<1>1. PICK seen \in SUBSET stored : \E S \in K!Search(q, seen) :
        answer' = [query |-> q, from |-> seen, found |-> {r \in S : K!Relevant(K!Score(q, r.vector))}]
  BY DEF K!Answer
<1>2. PICK S \in K!Search(q, seen) :
        answer' = [query |-> q, from |-> seen, found |-> {r \in S : K!Relevant(K!Score(q, r.vector))}]
  BY <1>1
<1>3. seen \subseteq rows /\ rows' = rows
  BY <1>1 DEF K!Answer
<1>4. IsFiniteSet(seen) /\ (\A r \in seen : r.vector \in Seq(Nat)) /\ q \in Seq(Nat)
  BY <1>3, FS_Subset, KnowledgeAssumption DEF RowsInv, K!KnowledgeAssumption
<1>5. BestOf(q, seen, {r \in S : K!Relevant(K!Score(q, r.vector))})
  BY <1>4, BestOfTheBest
<1>6. answer'.query = q /\ answer'.from = seen /\ answer'.found = {r \in S : K!Relevant(K!Score(q, r.vector))}
  BY <1>2
<1>7. BestOf(answer'.query, answer'.from, answer'.found)
  BY <1>5, <1>6
<1>8. K!AnswersAreBest'
  BY <1>7, SizeOf DEF BestOf, K!AnswersAreBest
<1>9. QED
  BY <1>3, <1>8 DEF RowsInv

LEMMA RowsStep == ASSUME SchemaInv, IngestInv, RowsInv, [K!Next]_K!vars PROVE RowsInv'
<1>1. ASSUME UNCHANGED <<rows, answer>> PROVE RowsInv'
  BY <1>1 DEF RowsInv, K!AnswersAreBest
<1>2. CASE \E p \in Services : K!StartProgram(p)
  BY <1>1, <1>2 DEF K!StartProgram
<1>3. CASE \E p \in Services, q \in Queries : K!Answer(p, q)
  BY <1>3, BestIsGiven
<1>4. CASE \E f \in Ingested, t \in Texts : K!Edit(f, t)
  BY <1>1, <1>4 DEF K!Edit
<1>5. CASE \E p \in Ingests : (\E f \in Ingested, size \in Sizes : K!StartIngest(p, f, size)) \/ K!Complete(p)
  BY <1>1, <1>5 DEF K!StartIngest, K!Complete
<1>6. CASE \E p \in Ingests : K!Embed(p)
  BY <1>1, <1>6 DEF K!Embed, K!Skips
<1>7. CASE \E p \in Ingests : K!Ingest(p)
  BY <1>7, RowsGrow
<1>8. CASE \E p \in K!Processes : \/ K!Migrated(p) \/ K!MigrateSQLite(p) \/ K!CheckVersion(p)
                                  \/ K!ApplyVersion(p) \/ K!Kill(p)
  BY <1>1, <1>8 DEF K!Migrated, K!MigrateSQLite, K!CheckVersion, K!ApplyVersion, K!Kill
<1>9. CASE UNCHANGED K!vars
  BY <1>1, <1>9 DEF K!vars
<1>10. QED
  BY <1>2, <1>3, <1>4, <1>5, <1>6, <1>7, <1>8, <1>9 DEF K!Next

LEMMA KnowledgeHolds == K!Spec => [](K!ChunksAreWhole /\ K!EveryChunkStored /\ K!AnswersAreBest)
<1>1. RowsInv => K!AnswersAreBest
  BY DEF RowsInv
<1>2. SchemaInv /\ IngestInv => K!ChunksAreWhole /\ K!EveryChunkStored
  BY IngestHolds
<1>3. QED
  BY <1>1, <1>2, SchemaInit, SchemaStep, IngestInit, IngestStep, RowsInit, RowsStep, PTL DEF K!Spec

-----------------------------------------------------------------------------
(* Each part on its own.                                                     *)

LEMMA PartsApart == AssistantSpec => R!Spec /\ M!Spec /\ G!Spec /\ P!Spec /\ A!Spec /\ Spec /\ K!Spec
<1>1. AssistantInit => R!Init /\ M!Init /\ G!Init /\ P!Init /\ A!Init /\ Init /\ K!Init
  BY DEF AssistantInit
<1>2. [AssistantNext]_<<part, vars, aVars, gVars, pVars, rVars, mVars, kVars>> =>
        [R!Next]_R!vars /\ [M!Next]_M!vars /\ [G!Next]_G!vars /\ [P!Next]_P!vars
        /\ [A!Next]_A!vars /\ [Next]_vars /\ [K!Next]_K!vars
  BY DEF AssistantNext, kVars, K!vars, K!schema, aVars, vars, memory, disk, history, A!vars, gVars, pVars, rVars, mVars, R!vars, M!vars, G!vars, G!permissions,
         P!vars, P!files, P!process
<1>3. QED
  BY <1>1, <1>2, PTL DEF AssistantSpec, R!Spec, M!Spec, G!Spec, P!Spec, A!Spec, Spec, K!Spec

\* AnswersFit (Service.buildMessages, ai/service.go:74-110, with
\* Client.CompleteWithTools, ai/client.go:96-99, and Server.Serve,
\* mcpserver/server.go:53-77): a request that met no change of agent is offered
\* exactly the tools of the agent whose persona it is given, however many
\* others are in flight; and the MCP server answers each request it read once,
\* in order and under its number, and stops at no whole line it has not read.
THEOREM AnswersFitTogether == AssistantSpec => []AnswersFit
<1>1. R!ToolsFitThePersona /\ M!AnswersInOrder => AnswersFit
  BY DEF AnswersFit
<1>2. QED
  BY <1>1, PartsApart, AnswersFitting, ServerAnswers, PTL

\* DenialsHold (Manager.LoadFromFiles and checkLocked, permissions.go): a tool
\* the user's settings deny stays denied whatever the project's settings and
\* later rules allow, unless the mode bypasses all; and the three ways to ask
\* the manager give one answer.
THEOREM DenialsStand == AssistantSpec => []DenialsHold
BY PartsApart, DenialsStanding, PTL DEF DenialsHold

\* StartsAndEnds (main.go, main and run, with config.Load, dotenv and
\* setup): the key in use is the one a person saved, or the one the file names
\* or the environment holds, first outer, then .env, then .env.local; and the
\* hooks hear of a session's start and end once, the end when no channel that
\* is waited for serves.  However often the process is started, edited,
\* signalled and killed.
THEOREM ProcessStartsAndEnds == AssistantSpec => []StartsAndEnds
BY PartsApart, StartingAndEnding, PTL DEF StartsAndEnds

\* FilesAreObeyed (the skills of skill/custom_manage.go and selfmod/skills.go,
\* plugin.Manager, and main in main.go): wherever a crash, a failed write or a
\* restart stopped a change, what can be called and what is listed is what the
\* files say, as long as changes of one skill, plugin or agent do not overlap
\* and no copy of a plugin failed half-way.
THEOREM FilesStandObeyed == AssistantSpec => []FilesAreObeyed
BY PartsApart, AgentsSurviving, Cataloguing, PTL DEF FilesAreObeyed

\* CallsAreSound (Registry.Execute, skill/skill.go:82-98, Manager.toolToSkill,
\* mcp/client.go:129-188, and Manager.Fire, hooks/hooks.go:118-150): however calls
\* and changes interleave, a skill that was deleted, whose plugin was removed or
\* whose MCP server was disconnected gives no output, unless changes of it
\* overlap, and neither does a call that took its session before; and a call
\* that Fire lets through was put to every hook in force at that moment, in
\* their order, and none objected, one it stops to those up to the one that did.
THEOREM CallsStaySound == AssistantSpec => CallsAreSound
BY PartsApart, GoneAreSilent, HooksAreHeard, PTL DEF CallsAreSound

\* K!SchemaIsWhole, the part of KnowledgeIsWhole about Migrate of
\* database/sqlite.go and database/postgres.go: however programs and ingest
\* commands race through the migrations, fail and are killed, no version is
\* there before an earlier one, PostgreSQL's are applied once and recorded with
\* it, and whoever serves or, on SQLite, stores finds all of them.
THEOREM SchemaStaysWhole == AssistantSpec => []K!SchemaIsWhole
BY PartsApart, SchemaHolds, PTL

\* KnowledgeIsWhole (ingest of cmd/ingest/main.go, ChunkText of
\* knowledge/documents.go, Search of service.go and sqlite_search.go): the schema is whole; whatever the text and the
\* size asked for, the chunks hold its paragraphs once and in order, and one
\* that is too long owes it to what the code does not count; a command that
\* ended stored every chunk it did not report, once; and a prompt is given the
\* best of the relevant rows, the cut by number before the one by relevance
\* losing nothing.
THEOREM KnowledgeStaysWhole == AssistantSpec => []KnowledgeIsWhole
BY PartsApart, SchemaHolds, KnowledgeHolds, PTL DEF KnowledgeIsWhole

\* TypesOK: the values all seven parts can hold.
THEOREM TypesStay == AssistantSpec => []TypesOK
BY PartsApart, AnswersFitting, ServerAnswers, GuardTypes, StartingAndEnding, AgentsSurviving, Cataloguing,
   SchemaHolds, PTL DEF TypesOK
=============================================================================
