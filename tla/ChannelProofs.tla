--------------------------- MODULE ChannelProofs ---------------------------
(***************************************************************************)
(* Proofs about the channels for every number of turns, deltas and places  *)
(* in a channel, every set of consumers, and every set of notifications:   *)
(* what a user who watches an answer sees, when the session is quiet       *)
(* again, and the order in which WhatsApp's messages are handled.          *)
(***************************************************************************)
EXTENDS MCChannels, Integers, FiniteSetTheorems, WellFoundedInduction, TLAPS

-----------------------------------------------------------------------------
(* Streams: the answer a turn's goroutines pass on.                        *)

\* A channel that holds the chunk which ends the answer, and the deltas in it.
Ended(ch) == ch # << >> /\ ch[Len(ch)].done
Plain(ch) == IF Ended(ch) THEN Len(ch) - 1 ELSE Len(ch)
LastOf(ch) == ch[Len(ch)]

\* The deltas in a channel follow the first n of the answer, in order.
Run(ch, n) == \A i \in 1..Plain(ch) : ch[i] = Delta(n + i)

OnWay(t) == Len(shown[t]) + Plain(stream[t]) + Plain(chunks[t])

\* Where the end of an answer is: not there yet, in the handler's channel, in
\* the CLI's second one, or read.
Future(t) ==
    /\ t > turn
    /\ handler[t] = "none" /\ forward[t] = "none"
    /\ chunks[t] = << >> /\ stream[t] = << >> /\ shown[t] = << >> /\ sent[t] = 0

Producing(t) ==
    /\ handler[t] \in {"check", "answer", "save", "text", "done"}
    /\ ~Ended(chunks[t]) /\ ~Ended(stream[t]) /\ OnWay(t) = sent[t]
    /\ forward[t] = IF consumer = "cli" THEN "run" ELSE "exited"
    /\ handler[t] = "check" \/ (producer = "sync" /\ handler[t] # "done") => sent[t] = 0
    /\ handler[t] \in {"save", "text"} => result[t] = "ok"
    /\ handler[t] = "text" => producer = "sync"
    /\ handler[t] = "done" => result[t] = "ok" \/ (result[t] = "rejected" /\ producer = "sync")

Complete(t) ==
    /\ result[t] = "ok" \/ (result[t] = "rejected" /\ producer = "sync")
    /\ OnWay(t) = sent[t]

Ending(t) ==
    /\ handler[t] \in {"close", "exited"}
    /\ Ended(chunks[t]) /\ ~Ended(stream[t])
    /\ forward[t] = IF consumer = "cli" THEN "run" ELSE "exited"
    /\ \/ LastOf(chunks[t]) = Done /\ Complete(t)
       \/ LastOf(chunks[t]) = Error /\ result[t] = "error"
       \/ /\ LastOf(chunks[t]) = DeltaDone(1)
          /\ result[t] = "rejected" /\ producer = "router" /\ OnWay(t) = 0 /\ sent[t] = 1

Forwarded(t) ==
    /\ handler[t] \in {"close", "exited"} /\ forward[t] = "exited"
    /\ consumer = "cli" /\ chunks[t] = << >> /\ Ended(stream[t])
    /\ \/ LastOf(stream[t]) = Done /\ Complete(t)
       \/ LastOf(stream[t]) = Error /\ result[t] = "error"
       \/ LastOf(stream[t]) = Done /\ result[t] = "rejected" /\ producer = "router"

Consumed(t) ==
    /\ handler[t] \in {"close", "exited"} /\ forward[t] = "exited"
    /\ chunks[t] = << >> /\ stream[t] = << >>
    /\ result[t] = "ok" \/ (result[t] = "rejected" /\ ShowsRefusals) => Len(shown[t]) = sent[t]

\* The user sees the beginning of the answer, the channels hold what follows.
Begins(text) ==
    \A i \in DOMAIN text : text[i] = IF consumer = "rest" /\ i \in MultiLine THEN Cut ELSE i

InSequence(t) ==
    /\ Begins(shown[t])
    /\ Run(stream[t], Len(shown[t]))
    /\ Run(chunks[t], Len(shown[t]) + Plain(stream[t]))
    /\ consumer # "cli" => stream[t] = << >>

TurnInv(t) ==
    /\ InSequence(t)
    /\ Future(t) \/ (t <= turn /\ (Producing(t) \/ Ending(t) \/ Forwarded(t) \/ Consumed(t)))
    /\ Over(t) => Consumed(t)

HandlerLabels == {"none", "check", "answer", "save", "text", "done", "close", "exited"}

StreamTypes ==
    /\ consumer \in Consumers /\ producer \in {"router", "sync"}
    /\ producer = "sync" => consumer = "cli"
    /\ turn \in 0..Turns /\ ui \in {"idle", "streaming", "quit"}
    /\ handler \in [Turn -> HandlerLabels]
    /\ sent \in [Turn -> 0..MaxDeltas]
    /\ result \in [Turn -> {"none", "ok", "rejected", "error"}]
    /\ chunks \in [Turn -> Seq(Chunk)] /\ stream \in [Turn -> Seq(Chunk)]
    /\ \A t \in Turn : Len(chunks[t]) <= Cap /\ Len(stream[t]) <= Cap
    /\ forward \in [Turn -> {"none", "run", "exited"}]
    /\ shown \in [Turn -> Seq(0..MaxDeltas)]

StreamInv == StreamTypes /\ \A t \in Turn : TurnInv(t)

-----------------------------------------------------------------------------
(* Channels of chunks.                                                     *)

LEMMA NoChunks == Plain(<< >>) = 0 /\ ~Ended(<< >>) /\ \A n : Run(<< >>, n)
BY DEF Plain, Ended, Run

LEMMA ChunkFacts ==
    ASSUME NEW n \in 0..MaxDeltas
    PROVE  /\ Delta(n) \in Chunk /\ DeltaDone(n) \in Chunk /\ Done \in Chunk /\ Error \in Chunk
           /\ ~Delta(n).done /\ ~Delta(n).err /\ Delta(n).delta = n
           /\ DeltaDone(n).done /\ ~DeltaDone(n).err /\ DeltaDone(n).delta = n
           /\ Done.done /\ ~Done.err /\ Done.delta = None
           /\ Error.done /\ Error.err /\ Error.delta = None
BY StreamingAssumption DEF Delta, DeltaDone, Done, Error, Chunk, None

LEMMA PlainType == ASSUME NEW ch \in Seq(Chunk) PROVE Plain(ch) \in Nat /\ Plain(ch) <= Len(ch)
BY DEF Plain, Ended

LEMMA AppendLast ==
    ASSUME NEW S, NEW seq \in Seq(S), NEW c \in S
    PROVE  /\ Append(seq, c) \in Seq(S) /\ Append(seq, c) # << >>
           /\ Len(Append(seq, c)) = Len(seq) + 1 /\ Append(seq, c)[Len(seq) + 1] = c
           /\ \A i \in 1..Len(seq) : Append(seq, c)[i] = seq[i]
OBVIOUS

LEMMA NoLength == ASSUME NEW ch \in Seq(Chunk) PROVE Len(ch) \in Nat /\ (ch = << >> <=> Len(ch) = 0)
OBVIOUS

LEMMA AnyHead ==
    ASSUME NEW ch \in Seq(Chunk), ch # << >>
    PROVE  Tail(ch) \in Seq(Chunk) /\ Len(Tail(ch)) <= Len(ch) /\ Head(ch) \in Chunk
OBVIOUS

\* The next delta, and the chunk that ends the answer, are put behind the others.
LEMMA PutDelta ==
    ASSUME NEW ch \in Seq(Chunk), NEW n \in Nat, Run(ch, n), ~Ended(ch),
           NEW m \in 0..MaxDeltas, m = n + Plain(ch) + 1
    PROVE  LET new == Append(ch, Delta(m))
           IN Run(new, n) /\ ~Ended(new) /\ Plain(new) = Plain(ch) + 1
<1> DEFINE new == Append(ch, Delta(m))
<1>1. Delta(m) \in Chunk /\ ~Delta(m).done
  BY ChunkFacts
<1>2. /\ new # << >> /\ Len(new) = Len(ch) + 1 /\ new[Len(ch) + 1] = Delta(m)
      /\ \A i \in 1..Len(ch) : new[i] = ch[i]
  BY <1>1, AppendLast
<1> HIDE DEF new
<1>3. ~Ended(new) /\ Plain(ch) = Len(ch) /\ Plain(new) = Len(ch) + 1
  BY <1>1, <1>2 DEF Ended, Plain
<1>4. Run(new, n)
  <2>1. SUFFICES ASSUME NEW i \in 1..(Len(ch) + 1) PROVE new[i] = Delta(n + i)
    BY <1>3 DEF Run
  <2>2. CASE i = Len(ch) + 1
    BY <1>2, <1>3, <2>2
  <2>3. CASE i \in 1..Len(ch)
    BY <1>2, <1>3, <2>3 DEF Run
  <2>4. QED
    BY <2>1, <2>2, <2>3
<1>5. QED
  BY <1>3, <1>4 DEF new

LEMMA PutEnd ==
    ASSUME NEW ch \in Seq(Chunk), NEW n \in Nat, Run(ch, n), ~Ended(ch),
           NEW c \in Chunk, c.done
    PROVE  LET new == Append(ch, c)
           IN Run(new, n) /\ Ended(new) /\ Plain(new) = Plain(ch) /\ LastOf(new) = c
<1> DEFINE new == Append(ch, c)
<1>1. /\ new # << >> /\ Len(new) = Len(ch) + 1 /\ new[Len(ch) + 1] = c
      /\ \A i \in 1..Len(ch) : new[i] = ch[i]
  BY AppendLast
<1> HIDE DEF new
<1>2. Ended(new) /\ LastOf(new) = c /\ Plain(ch) = Len(ch) /\ Plain(new) = Len(ch)
  BY <1>1 DEF Ended, Plain, LastOf
<1>3. Run(new, n)
  BY <1>1, <1>2 DEF Run
<1>4. QED
  BY <1>2, <1>3 DEF new

\* What is taken out is the next delta, or the chunk that ends the answer with
\* nothing behind it.
LEMMA Take ==
    ASSUME NEW ch \in Seq(Chunk), ch # << >>, NEW n \in Nat, Run(ch, n)
    PROVE  /\ Head(ch) \in Chunk /\ Tail(ch) \in Seq(Chunk) /\ Len(Tail(ch)) <= Len(ch)
           /\ \/ Ended(ch) /\ Plain(ch) = 0 /\ Tail(ch) = << >> /\ Head(ch) = LastOf(ch)
              \/ /\ Head(ch) = Delta(n + 1) /\ Plain(ch) > 0 /\ Plain(Tail(ch)) = Plain(ch) - 1
                 /\ Run(Tail(ch), n + 1) /\ (Ended(Tail(ch)) <=> Ended(ch))
                 /\ Ended(ch) => LastOf(Tail(ch)) = LastOf(ch)
<1> DEFINE first == Head(ch)
           rest == Tail(ch)
<1>1. /\ first \in Chunk /\ first = ch[1] /\ Len(ch) \in Nat \ {0}
      /\ rest \in Seq(Chunk) /\ Len(rest) = Len(ch) - 1
      /\ \A i \in 1..(Len(ch) - 1) : rest[i] = ch[i + 1]
  OBVIOUS
<1>2. SUFFICES /\ \/ Ended(ch) /\ Plain(ch) = 0 /\ rest = << >> /\ first = LastOf(ch)
                  \/ /\ first = Delta(n + 1) /\ Plain(ch) > 0 /\ Plain(rest) = Plain(ch) - 1
                     /\ Run(rest, n + 1) /\ (Ended(rest) <=> Ended(ch))
                     /\ Ended(ch) => LastOf(rest) = LastOf(ch)
  BY <1>1
<1> HIDE DEF first, rest
<1>3. CASE Ended(ch) /\ Len(ch) = 1
  <2>1. rest = << >> /\ Plain(ch) = 0 /\ Len(rest) = 0
    BY <1>1, <1>3, NoLength DEF Plain
  <2>2. QED
    BY <1>1, <1>3, <2>1 DEF LastOf
<1>4. CASE ~(Ended(ch) /\ Len(ch) = 1)
  <2>1. Plain(ch) \in Nat \ {0} /\ Plain(ch) <= Len(ch)
    BY <1>1, <1>4 DEF Plain
  <2>2. first = Delta(n + 1)
    BY <1>1, <2>1 DEF Run
  <2>3. Ended(ch) => Len(ch) > 1
    BY <1>1, <1>4
  <2>4. CASE Len(ch) = 1
    <3>1. rest = << >> /\ ~Ended(ch) /\ Plain(ch) = 1
      BY <1>1, <2>3, <2>4, NoLength DEF Plain
    <3>2. QED
      BY <1>1, <2>1, <2>2, <3>1, NoChunks
  <2>5. CASE Len(ch) > 1
    <3>1. rest # << >> /\ LastOf(rest) = LastOf(ch)
      BY <1>1, <2>5, NoLength DEF LastOf
    <3>2. Ended(rest) <=> Ended(ch)
      BY <1>1, <2>5, <3>1 DEF Ended, LastOf
    <3>3. Plain(rest) = Plain(ch) - 1
      BY <1>1, <2>5, <3>2 DEF Plain
    <3>4. ASSUME NEW i \in 1..Plain(rest) PROVE rest[i] = Delta((n + 1) + i)
      <4>1. i + 1 \in 1..Plain(ch) /\ i \in 1..(Len(ch) - 1) /\ n + (i + 1) = (n + 1) + i
        BY <1>1, <2>1, <3>3, <3>4
      <4>2. ch[i + 1] = Delta(n + (i + 1))
        BY <4>1 DEF Run
      <4>3. QED
        BY <1>1, <4>1, <4>2
    <3>5. Run(rest, n + 1)
      BY <3>4 DEF Run
    <3>6. QED
      BY <1>1, <2>1, <2>2, <3>1, <3>2, <3>3, <3>5
  <2>6. QED
    BY <1>1, <2>4, <2>5
<1>5. QED
  BY <1>3, <1>4

LEMMA ShowNext ==
    ASSUME NEW text \in Seq(0..MaxDeltas), Begins(text),
           NEW d \in 0..MaxDeltas,
           d = IF consumer = "rest" /\ Len(text) + 1 \in MultiLine THEN Cut ELSE Len(text) + 1
    PROVE  /\ Append(text, d) \in Seq(0..MaxDeltas) /\ Begins(Append(text, d))
           /\ Len(Append(text, d)) = Len(text) + 1
<1> DEFINE new == Append(text, d)
<1>1. /\ new \in Seq(0..MaxDeltas) /\ Len(new) = Len(text) + 1 /\ new[Len(text) + 1] = d
      /\ \A i \in 1..Len(text) : new[i] = text[i]
  BY AppendLast
<1> HIDE DEF new
<1>2. ASSUME NEW i \in 1..(Len(text) + 1)
      PROVE  new[i] = IF consumer = "rest" /\ i \in MultiLine THEN Cut ELSE i
  <2>1. CASE i = Len(text) + 1
    BY <1>1, <2>1
  <2>2. CASE i \in 1..Len(text)
    BY <1>1, <2>2 DEF Begins
  <2>3. QED
    BY <1>2, <2>1, <2>2
<1>3. Begins(new)
  BY <1>1, <1>2 DEF Begins
<1>4. QED
  BY <1>1, <1>3 DEF new

-----------------------------------------------------------------------------
(* What a step leaves alone.                                               *)

Same(t) ==
    /\ handler'[t] = handler[t] /\ sent'[t] = sent[t] /\ result'[t] = result[t]
    /\ chunks'[t] = chunks[t] /\ forward'[t] = forward[t] /\ stream'[t] = stream[t]
    /\ shown'[t] = shown[t]

LEMMA SameInv ==
    ASSUME NEW t \in Turn, TurnInv(t), Same(t), UNCHANGED <<consumer, producer, turn>>,
           Over(t)' => Over(t)
    PROVE  TurnInv(t)'
<1>1. InSequence(t)'
  BY DEF TurnInv, Same, InSequence, Begins
<1>2. OnWay(t)' = OnWay(t)
  BY DEF Same, OnWay
<1>3. Future(t) => Future(t)'
  BY DEF Same, Future
<1>4. Producing(t) => Producing(t)'
  BY <1>2 DEF Same, Producing
<1>5. Ending(t) => Ending(t)'
  BY <1>2 DEF Same, Ending, Complete
<1>6. Forwarded(t) => Forwarded(t)'
  BY <1>2 DEF Same, Forwarded, Complete
<1>7. Consumed(t) => Consumed(t)'
  BY DEF Same, Consumed, ShowsRefusals
<1>8. QED
  BY <1>1, <1>3, <1>4, <1>5, <1>6, <1>7 DEF TurnInv

LEMMA InitStreamInv == Init => StreamInv
<1>1. SUFFICES ASSUME Init PROVE StreamInv
  OBVIOUS
<1>2. StreamTypes
  BY <1>1, StreamingAssumption DEF Init, StreamTypes, Turn, HandlerLabels
<1>3. ASSUME NEW t \in Turn PROVE TurnInv(t)
  <2>1. Future(t) /\ ~Over(t)
    BY <1>1, StreamingAssumption DEF Init, Future, Over, Turn
  <2>2. InSequence(t)
    BY <1>1, NoChunks DEF Init, InSequence, Begins
  <2>3. QED
    BY <2>1, <2>2 DEF TurnInv
<1>4. QED
  BY <1>2, <1>3 DEF StreamInv

\* A step of turn t.
Moves(t) ==
    /\ \A u \in Turn : u # t => Same(u)
    /\ UNCHANGED <<consumer, producer, turn>> /\ (ui' = ui \/ t = turn)

LEMMA OwnTurn ==
    ASSUME StreamInv, NEW t \in Turn, Moves(t), StreamTypes', TurnInv(t)'
    PROVE  StreamInv'
<1>1. ASSUME NEW u \in Turn, u # t PROVE TurnInv(u)'
  <2>1. Over(u)' => Over(u)
    BY <1>1 DEF Moves, Over
  <2>2. QED
    BY <1>1, <2>1, SameInv DEF Moves, StreamInv
<1>2. QED
  BY <1>1 DEF StreamInv

LEMMA LaunchInv == ASSUME StreamInv, Launch PROVE StreamInv'
<1>1. /\ turn \in 0..Turns /\ turn < Turns /\ turn' = turn + 1 /\ ui = "idle" /\ ui' = "streaming"
      /\ turn + 1 \in Turn /\ turn' \in 0..Turns
  BY StreamingAssumption DEF Launch, StreamInv, StreamTypes, Turn
<1>2. StreamTypes'
  BY <1>1 DEF Launch, StreamInv, StreamTypes, HandlerLabels, path
<1>3. \A u \in Turn : u # turn + 1 => Same(u)
  BY <1>1 DEF Launch, StreamInv, StreamTypes, Same
<1>4. UNCHANGED <<consumer, producer>>
  BY DEF Launch, path
<1>5. ASSUME NEW u \in Turn, u # turn + 1 PROVE TurnInv(u)'
  <2>1. u \in Nat /\ turn \in Nat
    BY <1>1 DEF Turn
  <2>2. CASE u <= turn
    <3>1. Over(u) /\ Over(u)' /\ u <= turn'
      BY <1>1, <2>1, <2>2 DEF Over
    <3>2. Consumed(u) /\ InSequence(u)
      BY <1>5, <3>1 DEF StreamInv, TurnInv
    <3>3. Consumed(u)' /\ InSequence(u)'
      BY ZenonT(60), <1>3, <1>4, <1>5, <3>2 DEF Same, Consumed, ShowsRefusals, InSequence, Begins, Run, Plain, Ended
    <3>4. QED
      BY <3>1, <3>3 DEF TurnInv
  <2>3. CASE u > turn
    <3>1. Future(u) /\ InSequence(u)
      BY <1>5, <2>1, <2>3 DEF StreamInv, TurnInv
    <3>2. u > turn' /\ ~Over(u)'
      BY <1>1, <1>5, <2>1, <2>3 DEF Over
    <3>3. Future(u)' /\ InSequence(u)'
      BY ZenonT(60), <1>3, <1>4, <1>5, <3>1, <3>2 DEF Same, Future, InSequence, Begins, Run, Plain, Ended
    <3>4. QED
      BY <3>2, <3>3 DEF TurnInv
  <2>4. QED
    BY <2>1, <2>2, <2>3
<1>6. ASSUME NEW t \in Turn, t = turn + 1 PROVE TurnInv(t)'
  <2>1. Future(t) /\ InSequence(t)
    BY <1>1, <1>6 DEF StreamInv, TurnInv
  <2>2. /\ handler'[t] = "check" /\ forward'[t] = IF consumer = "cli" THEN "run" ELSE "exited"
        /\ chunks'[t] = << >> /\ stream'[t] = << >> /\ shown'[t] = << >> /\ sent'[t] = 0
    BY <1>1, <1>6, <2>1 DEF Launch, StreamInv, StreamTypes, Future
  <2>3. InSequence(t)'
    BY <2>2, NoChunks DEF InSequence, Begins
  <2>4. Producing(t)' /\ ~Over(t)'
    BY <1>1, <1>4, <1>6, <2>2, NoChunks DEF Producing, OnWay, Over
  <2>5. QED
    BY <1>1, <1>6, <2>3, <2>4 DEF TurnInv
<1>7. QED
  BY <1>2, <1>5, <1>6 DEF StreamInv

-----------------------------------------------------------------------------
(* The handler goroutine.                                                  *)

LEMMA TurnFacts ==
    ASSUME StreamInv, NEW t \in Turn
    PROVE  /\ StreamTypes /\ TurnInv(t) /\ InSequence(t)
           /\ t \in Nat /\ turn \in Nat /\ sent[t] \in 0..MaxDeltas /\ MaxDeltas \in Nat \ {0}
           /\ sent \in [Turn -> 0..MaxDeltas] /\ result \in [Turn -> {"none", "ok", "rejected", "error"}]
           /\ chunks[t] \in Seq(Chunk) /\ stream[t] \in Seq(Chunk) /\ shown[t] \in Seq(0..MaxDeltas)
           /\ Len(shown[t]) \in Nat /\ Plain(stream[t]) \in Nat /\ Plain(chunks[t]) \in Nat
           /\ Len(shown[t]) + Plain(stream[t]) \in Nat
<1>1. /\ StreamTypes /\ TurnInv(t) /\ InSequence(t) /\ t \in Nat /\ turn \in Nat
      /\ sent \in [Turn -> 0..MaxDeltas] /\ result \in [Turn -> {"none", "ok", "rejected", "error"}]
  BY StreamingAssumption DEF StreamInv, TurnInv, StreamTypes, Turn
<1>2. /\ chunks[t] \in Seq(Chunk) /\ stream[t] \in Seq(Chunk) /\ shown[t] \in Seq(0..MaxDeltas)
      /\ sent[t] \in 0..MaxDeltas /\ MaxDeltas \in Nat \ {0}
  BY <1>1, StreamingAssumption DEF StreamTypes
<1>3. Len(shown[t]) \in Nat /\ Plain(stream[t]) \in Nat /\ Plain(chunks[t]) \in Nat
  BY <1>2, PlainType
<1>4. QED
  BY <1>1, <1>2, <1>3

\* A handler that works on an answer has not sent its end.
LEMMA AtWork ==
    ASSUME StreamInv, NEW t \in Turn, handler[t] \in {"check", "answer", "save", "text", "done"}
    PROVE  t <= turn /\ Producing(t) /\ ~Over(t)
BY TurnFacts DEF TurnInv, Future, Ending, Forwarded, Consumed

LEMMA EmitFacts ==
    ASSUME StreamTypes, NEW t \in Turn, NEW from, NEW c \in Chunk, NEW to \in HandlerLabels,
           Emit(t, from, c, to), sent' \in [Turn -> 0..MaxDeltas],
           result' \in [Turn -> {"none", "ok", "rejected", "error"}],
           \A u \in Turn : u # t => sent'[u] = sent[u] /\ result'[u] = result[u]
    PROVE  /\ Moves(t) /\ StreamTypes'
           /\ handler'[t] = to /\ chunks'[t] = Append(chunks[t], c)
           /\ UNCHANGED <<consumer, producer, turn, ui, forward, stream, shown>>
<1> DEFINE new == Append(chunks[t], c)
<1>1. new \in Seq(Chunk) /\ Len(new) = Len(chunks[t]) + 1 /\ chunks[t] \in Seq(Chunk)
  BY AppendLast DEF StreamTypes
<1>2. Len(new) <= Cap
  BY <1>1, StreamingAssumption DEF Emit, Room
<1>3. chunks' = [chunks EXCEPT ![t] = new]
  BY DEF Emit
<1> HIDE DEF new
<1>4. /\ chunks'[t] = new /\ chunks' \in [Turn -> Seq(Chunk)]
      /\ \A u \in Turn : Len(chunks'[u]) <= Cap
      /\ \A u \in Turn : u # t => chunks'[u] = chunks[u]
  BY <1>1, <1>2, <1>3 DEF StreamTypes
<1>5. UNCHANGED <<consumer, producer, turn, ui, forward, stream, shown>>
  BY DEF Emit, path
<1>6. /\ handler' \in [Turn -> HandlerLabels] /\ handler'[t] = to
      /\ \A u \in Turn : u # t => handler'[u] = handler[u]
  BY DEF Emit, StreamTypes
<1>7. Moves(t)
  BY <1>4, <1>5, <1>6 DEF Moves, Same
<1>8. StreamTypes'
  BY <1>4, <1>5, <1>6 DEF StreamTypes
<1>9. QED
  BY <1>4, <1>5, <1>6, <1>7, <1>8 DEF new

\* A delta and the end of the answer, on their way.
LEMMA EmitDelta ==
    ASSUME StreamInv, NEW t \in Turn, Producing(t), NEW m \in 0..MaxDeltas, m = sent[t] + 1,
           chunks'[t] = Append(chunks[t], Delta(m)), UNCHANGED <<consumer, forward, stream, shown>>
    PROVE  InSequence(t)' /\ ~Ended(chunks'[t]) /\ OnWay(t)' = m
<1> DEFINE n == Len(shown[t]) + Plain(stream[t])
<1>1. n \in Nat /\ m = n + Plain(chunks[t]) + 1
  BY TurnFacts DEF Producing, OnWay
<1>2. Run(chunks[t], n) /\ ~Ended(chunks[t])
  BY TurnFacts DEF InSequence, Producing
<1> HIDE DEF n
<1>3. /\ Run(chunks'[t], n) /\ ~Ended(chunks'[t]) /\ Plain(chunks'[t]) = Plain(chunks[t]) + 1
  BY <1>1, <1>2, TurnFacts, PutDelta
<1>4. Plain(chunks'[t]) = Plain(chunks[t]) + 1 /\ OnWay(t)' = n + Plain(chunks'[t])
  BY <1>3 DEF OnWay, n
<1>5. InSequence(t)'
  BY <1>3, TurnFacts DEF InSequence, Begins, n
<1>6. QED
  BY <1>1, <1>3, <1>4, <1>5, TurnFacts

LEMMA EmitEnd ==
    ASSUME StreamInv, NEW t \in Turn, Producing(t), NEW c \in Chunk, c.done,
           chunks'[t] = Append(chunks[t], c), UNCHANGED <<consumer, forward, stream, shown>>
    PROVE  InSequence(t)' /\ Ended(chunks'[t]) /\ LastOf(chunks'[t]) = c /\ OnWay(t)' = OnWay(t)
<1> DEFINE n == Len(shown[t]) + Plain(stream[t])
<1>1. n \in Nat
  BY TurnFacts
<1>2. /\ Run(chunks'[t], n) /\ Ended(chunks'[t]) /\ Plain(chunks'[t]) = Plain(chunks[t])
      /\ LastOf(chunks'[t]) = c
  BY <1>1, TurnFacts, PutEnd DEF InSequence, Producing
<1>3. QED
  BY <1>1, <1>2, TurnFacts DEF InSequence, Begins, OnWay

LEMMA RejectInv == ASSUME StreamInv, NEW t \in Turn, Reject(t) PROVE StreamInv'
<1>1. 1 \in 0..MaxDeltas /\ DeltaDone(1) \in Chunk /\ Delta(1) \in Chunk /\ DeltaDone(1).done
  BY StreamingAssumption, ChunkFacts
<1>2. handler[t] = "check"
  BY DEF Reject, Emit
<1>3. t <= turn /\ Producing(t) /\ ~Over(t) /\ sent[t] = 0 /\ OnWay(t) = 0
  BY <1>2, AtWork DEF Producing
<1>4. /\ sent' \in [Turn -> 0..MaxDeltas] /\ sent'[t] = 1
      /\ result' \in [Turn -> {"none", "ok", "rejected", "error"}] /\ result'[t] = "rejected"
      /\ \A u \in Turn : u # t => sent'[u] = sent[u] /\ result'[u] = result[u]
  BY <1>1, TurnFacts DEF Reject, StreamTypes
<1>5. CASE producer = "router"
  <2>1. Emit(t, "check", DeltaDone(1), "close")
    BY <1>5 DEF Reject
  <2>2. Moves(t) /\ StreamTypes' /\ handler'[t] = "close"
        /\ chunks'[t] = Append(chunks[t], DeltaDone(1))
        /\ UNCHANGED <<consumer, producer, turn, ui, forward, stream, shown>>
    BY <1>1, <1>4, <2>1, TurnFacts, EmitFacts DEF HandlerLabels
  <2>3. Ending(t)' /\ InSequence(t)'
    BY <1>1, <1>3, <1>4, <1>5, <2>2, EmitEnd DEF Ending, Producing
  <2>4. QED
    BY <1>3, <2>2, <2>3, OwnTurn DEF TurnInv, Over
<1>6. CASE producer # "router"
  <2>1. Emit(t, "check", Delta(1), "done") /\ producer = "sync"
    BY <1>6, TurnFacts DEF Reject, StreamTypes
  <2>2. Moves(t) /\ StreamTypes' /\ handler'[t] = "done"
        /\ chunks'[t] = Append(chunks[t], Delta(1))
        /\ UNCHANGED <<consumer, producer, turn, ui, forward, stream, shown>>
    BY <1>1, <1>4, <2>1, TurnFacts, EmitFacts DEF HandlerLabels
  <2>3. Producing(t)' /\ InSequence(t)'
    <3>1. 1 = sent[t] + 1
      BY <1>3
    <3>2. InSequence(t)' /\ ~Ended(chunks'[t]) /\ OnWay(t)' = 1
      BY <1>1, <1>3, <2>2, <3>1, EmitDelta
    <3>3. QED
      BY <1>3, <1>4, <2>1, <2>2, <3>2 DEF Producing
  <2>4. QED
    BY <1>3, <2>2, <2>3, OwnTurn DEF TurnInv, Over
<1>7. QED
  BY <1>5, <1>6

\* The handler goes on without a chunk.
LEMMA GoesOnInv ==
    ASSUME StreamInv, NEW t \in Turn, NEW to \in HandlerLabels, Producing(t) => Producing(t)',
           handler[t] \in {"check", "answer", "save"},
           handler' = [handler EXCEPT ![t] = to],
           result' \in [Turn -> {"none", "ok", "rejected", "error"}],
           \A u \in Turn : u # t => result'[u] = result[u],
           UNCHANGED <<path, turn, ui, sent, chunks, forward, stream, shown>>
    PROVE  StreamInv'
<1>1. StreamTypes' /\ Moves(t)
  BY TurnFacts DEF StreamTypes, Moves, Same, path
<1>2. t <= turn /\ Producing(t)' /\ ~Over(t)
  BY AtWork
<1>3. InSequence(t)' /\ ~Over(t)'
  BY <1>2, TurnFacts DEF InSequence, Begins, Over, path
<1>4. QED
  BY <1>1, <1>2, <1>3, OwnTurn DEF TurnInv, Moves

LEMMA AcceptInv == ASSUME StreamInv, NEW t \in Turn, Accept(t) PROVE StreamInv'
<1>1. handler'[t] = "answer"
  BY TurnFacts DEF Accept, StreamTypes
<1>2. Producing(t) => Producing(t)'
  BY <1>1 DEF Accept, Producing, OnWay, path
<1>3. QED
  BY <1>2, TurnFacts, GoesOnInv DEF Accept, HandlerLabels, StreamTypes

LEMMA AnsweredInv == ASSUME StreamInv, NEW t \in Turn, Answered(t) PROVE StreamInv'
<1>1. /\ handler'[t] = "save" /\ result'[t] = "ok"
      /\ result' \in [Turn -> {"none", "ok", "rejected", "error"}]
      /\ \A u \in Turn : u # t => result'[u] = result[u]
  BY TurnFacts DEF Answered, StreamTypes
<1>2. Producing(t) => Producing(t)'
  BY <1>1 DEF Answered, Producing, OnWay, path
<1>3. QED
  BY <1>1, <1>2, TurnFacts, GoesOnInv DEF Answered, HandlerLabels

LEMMA SaveInv == ASSUME StreamInv, NEW t \in Turn, Save(t) PROVE StreamInv'
<1> DEFINE to == IF producer = "router" THEN "done" ELSE "text"
<1>1. handler'[t] = to /\ to \in HandlerLabels /\ handler' = [handler EXCEPT ![t] = to]
  BY TurnFacts DEF Save, StreamTypes, HandlerLabels
<1>2. Producing(t) => Producing(t)'
  BY <1>1, TurnFacts DEF Save, Producing, OnWay, path, StreamTypes
<1> HIDE DEF to
<1>3. QED
  BY <1>1, <1>2, TurnFacts, GoesOnInv DEF Save, StreamTypes

LEMMA SendDeltaInv == ASSUME StreamInv, NEW t \in Turn, SendDelta(t) PROVE StreamInv'
<1> DEFINE m == sent[t] + 1
<1>1. Emit(t, "answer", Delta(m), "answer") /\ handler[t] = "answer" /\ producer = "router" /\ m \in 0..MaxDeltas
  BY TurnFacts DEF SendDelta, StreamTypes, Emit
<1>2. t <= turn /\ Producing(t) /\ ~Over(t)
  BY <1>1, AtWork
<1>3. Delta(m) \in Chunk
  BY <1>1, ChunkFacts
<1>4. /\ sent' \in [Turn -> 0..MaxDeltas] /\ sent'[t] = m /\ result' = result
      /\ \A u \in Turn : u # t => sent'[u] = sent[u]
  BY <1>1, TurnFacts DEF SendDelta, StreamTypes
<1> HIDE DEF m
<1>5. /\ Moves(t) /\ StreamTypes' /\ handler'[t] = "answer" /\ chunks'[t] = Append(chunks[t], Delta(m))
      /\ UNCHANGED <<consumer, producer, turn, ui, forward, stream, shown>>
  BY <1>1, <1>3, <1>4, TurnFacts, EmitFacts DEF HandlerLabels
<1>6. InSequence(t)' /\ ~Ended(chunks'[t]) /\ OnWay(t)' = m
  BY <1>1, <1>2, <1>5, EmitDelta DEF m
<1>7. Producing(t)'
  BY <1>1, <1>2, <1>4, <1>5, <1>6 DEF Producing
<1>8. QED
  BY <1>2, <1>5, <1>6, <1>7, OwnTurn DEF TurnInv, Over

LEMMA SendTextInv == ASSUME StreamInv, NEW t \in Turn, SendText(t) PROVE StreamInv'
<1>1. /\ Emit(t, "text", Delta(1), "done") /\ handler[t] = "text"
      /\ 1 \in 0..MaxDeltas /\ 1 = 0 + 1 /\ Delta(1) \in Chunk
  BY StreamingAssumption, ChunkFacts DEF SendText, Emit
<1>2. t <= turn /\ Producing(t) /\ ~Over(t)
  BY <1>1, AtWork
<1>3. CASE producer = "sync"
  <2>1. sent[t] = 0 /\ result[t] = "ok"
    BY <1>1, <1>2, <1>3 DEF Producing
  <2>2. /\ sent' \in [Turn -> 0..MaxDeltas] /\ sent'[t] = 1 /\ result' = result
        /\ \A u \in Turn : u # t => sent'[u] = sent[u]
    BY <1>1, TurnFacts DEF SendText, StreamTypes
  <2>3. /\ Moves(t) /\ StreamTypes' /\ handler'[t] = "done" /\ chunks'[t] = Append(chunks[t], Delta(1))
        /\ UNCHANGED <<consumer, producer, turn, ui, forward, stream, shown>>
    BY <1>1, <2>2, TurnFacts, EmitFacts DEF HandlerLabels
  <2>4. InSequence(t)' /\ ~Ended(chunks'[t]) /\ OnWay(t)' = 1
    BY <1>1, <1>2, <2>1, <2>3, EmitDelta
  <2>5. Producing(t)'
    BY <1>2, <2>1, <2>2, <2>3, <2>4 DEF Producing
  <2>6. QED
    BY <1>2, <2>3, <2>4, <2>5, OwnTurn DEF TurnInv, Over
<1>4. QED
  BY <1>1, <1>2, <1>3 DEF Producing

LEMMA SendEndInv ==
    ASSUME StreamInv, NEW t \in Turn,
           Fail(t) \/ SendDone(t)
    PROVE  StreamInv'
<1> DEFINE c == IF Fail(t) THEN Error ELSE Done
<1>1. /\ c \in Chunk /\ c.done /\ Emit(t, handler[t], c, "close") /\ handler[t] \in {"answer", "done"}
      /\ result'[t] = IF c = Error THEN "error" ELSE result[t]
      /\ result' \in [Turn -> {"none", "ok", "rejected", "error"}] /\ sent' = sent
      /\ \A u \in Turn : u # t => result'[u] = result[u]
      /\ c = Done => handler[t] = "done"
  BY ZenonT(60), StreamingAssumption, TurnFacts, ChunkFacts DEF Fail, SendDone, Emit, StreamTypes
<1>2. c \in {Error, Done}
  OBVIOUS
<1> HIDE DEF c
<1>3. t <= turn /\ Producing(t) /\ ~Over(t)
  BY <1>1, AtWork
<1>4. /\ Moves(t) /\ StreamTypes' /\ handler'[t] = "close" /\ chunks'[t] = Append(chunks[t], c)
      /\ UNCHANGED <<consumer, producer, turn, ui, forward, stream, shown>>
  BY <1>1, TurnFacts, EmitFacts DEF HandlerLabels
<1>5. InSequence(t)' /\ Ended(chunks'[t]) /\ LastOf(chunks'[t]) = c /\ OnWay(t)' = OnWay(t)
  BY <1>1, <1>3, <1>4, EmitEnd
<1>6. Ending(t)'
  BY <1>1, <1>2, <1>3, <1>4, <1>5 DEF Ending, Producing, Complete
<1>7. QED
  BY <1>3, <1>4, <1>5, <1>6, OwnTurn DEF TurnInv, Over

LEMMA CloseInv == ASSUME StreamInv, NEW t \in Turn, Close(t) PROVE StreamInv'
<1>1. StreamTypes' /\ Moves(t) /\ handler'[t] = "exited"
  BY TurnFacts DEF Close, StreamTypes, Moves, Same, path, HandlerLabels
<1>2. /\ handler[t] = "close" /\ Over(t)' = Over(t)
      /\ UNCHANGED <<consumer, producer, turn, ui, sent, result, chunks, forward, stream, shown>>
  BY DEF Close, Over, path
<1>3. InSequence(t)' /\ OnWay(t)' = OnWay(t)
  BY <1>2, TurnFacts DEF InSequence, Begins, OnWay
<1>4. t <= turn /\ (Ending(t) \/ Forwarded(t) \/ Consumed(t)) /\ (Over(t) => Consumed(t))
  BY <1>2, TurnFacts DEF TurnInv, Future, Producing
<1>5. Ending(t) => Ending(t)'
  BY <1>1, <1>2, <1>3 DEF Ending, Complete
<1>6. Forwarded(t) => Forwarded(t)'
  BY <1>1, <1>2, <1>3 DEF Forwarded, Complete
<1>7. Consumed(t) => Consumed(t)'
  BY <1>1, <1>2 DEF Consumed, ShowsRefusals
<1>8. QED
  BY <1>1, <1>2, <1>3, <1>4, <1>5, <1>6, <1>7, OwnTurn DEF TurnInv

-----------------------------------------------------------------------------
(* The loops that show chunks.                                             *)

\* What is left of a channel fits where the channel did.
LEMMA RestType ==
    ASSUME NEW ch \in Seq(Chunk), Len(ch) <= Cap
    PROVE  Rest(ch) \in Seq(Chunk) /\ Len(Rest(ch)) <= Cap /\ Next1(ch) \in Chunk
<1>1. CASE ch = << >>
  BY <1>1, StreamingAssumption, ChunkFacts DEF Rest, Next1
<1>2. CASE ch # << >>
  <2>1. Tail(ch) \in Seq(Chunk) /\ Len(Tail(ch)) <= Len(ch) /\ Head(ch) \in Chunk
    BY <1>2, AnyHead
  <2>2. QED
    BY <1>2, <2>1, StreamingAssumption, NoLength DEF Rest, Next1
<1>3. QED
  BY <1>1, <1>2

\* The loop of a channel takes the next delta of an answer, its end, or finds
\* the channel closed and empty.
LEMMA LoopInv == ASSUME StreamInv, NEW t \in Turn, Loop(t) PROVE StreamInv'
<1> DEFINE ch == chunks[t]
           c == Next1(ch)
           text == shown[t]
<1>1. /\ consumer # "cli" /\ ui = "streaming" /\ t = turn /\ t <= turn /\ producer = "router"
      /\ ch \in Seq(Chunk) /\ Len(ch) <= Cap /\ text \in Seq(0..MaxDeltas)
      /\ stream[t] = << >> /\ Plain(stream[t]) = 0 /\ ~Ended(stream[t])
  BY TurnFacts, NoChunks DEF Loop, StreamTypes, InSequence
<1>2. c \in Chunk /\ c.delta \in 0..MaxDeltas /\ Rest(ch) \in Seq(Chunk) /\ Len(Rest(ch)) <= Cap
  BY <1>1, RestType DEF Chunk
<1>3. /\ chunks' = [chunks EXCEPT ![t] = Rest(ch)]
      /\ UNCHANGED <<consumer, producer, turn, handler, sent, result, forward, stream>>
  BY DEF Loop, Receive, path
<1>4. /\ \/ shown' = shown \/ shown' = [shown EXCEPT ![t] = Append(text, c.delta)]
         \/ shown' = [shown EXCEPT ![t] = Append(text, Cut)]
      /\ ui' \in {"idle", "streaming"}
  BY <1>1, TurnFacts DEF Loop, ShowRest, ShowHeadless, ShowWeb, Show, StreamTypes
<1>5. Append(text, c.delta) \in Seq(0..MaxDeltas) /\ Append(text, Cut) \in Seq(0..MaxDeltas)
  BY <1>1, <1>2, AppendLast, TurnFacts DEF Cut
<1>6. StreamTypes' /\ Moves(t)
  <2>1. shown' \in [Turn -> Seq(0..MaxDeltas)] /\ \A u \in Turn : u # t => shown'[u] = shown[u]
    BY <1>4, <1>5, TurnFacts DEF StreamTypes
  <2>2. /\ chunks' \in [Turn -> Seq(Chunk)] /\ \A u \in Turn : u # t => chunks'[u] = chunks[u]
        /\ \A u \in Turn : Len(chunks'[u]) <= Cap
    BY <1>2, <1>3, TurnFacts DEF StreamTypes
  <2>3. QED
    BY <1>1, <1>3, <1>4, <2>1, <2>2, TurnFacts DEF StreamTypes, Moves, Same
<1>7. chunks'[t] = Rest(ch) /\ (shown'[t] = text \/ shown' # shown)
  BY <1>3, TurnFacts DEF StreamTypes
<1> HIDE DEF ch, c, text
<1>8. Producing(t) \/ Ending(t) \/ Consumed(t)
  BY <1>1, TurnFacts DEF TurnInv, Future, Forwarded
<1>9. CASE ch = << >>
  <2>1. Consumed(t) /\ handler[t] = "exited"
    BY <1>1, <1>8, <1>9, NoChunks DEF Loop, Receive, Ready, Producing, Ending, ch
  <2>2. shown' = shown /\ Rest(ch) = << >>
    BY <1>1, <1>9, ChunkFacts, TurnFacts
       DEF Loop, ShowRest, ShowHeadless, ShowWeb, Next1, Rest, StreamTypes, ch
  <2>3. Consumed(t)' /\ InSequence(t)'
    BY <1>3, <1>7, <1>9, <2>1, <2>2, TurnFacts DEF Consumed, ShowsRefusals, InSequence, Begins, ch
  <2>4. QED
    BY <1>1, <1>3, <1>6, <2>3, OwnTurn DEF TurnInv
<1>10. CASE ch # << >> /\ Ended(ch) /\ Plain(ch) = 0 /\ Rest(ch) = << >> /\ c = LastOf(ch)
  <2>1. Ending(t)
    BY <1>8, <1>10, NoChunks DEF Producing, Consumed, ch
  <2>2. OnWay(t) = Len(text)
    BY <1>1, <1>10, TurnFacts DEF OnWay, ch, text
  <2>3. \/ c = Done /\ Len(text) = sent[t] /\ result[t] = "ok"
        \/ c = Error /\ result[t] = "error"
        \/ c = DeltaDone(1) /\ result[t] = "rejected" /\ Len(text) = 0 /\ sent[t] = 1
    BY <1>1, <1>10, <2>1, <2>2 DEF Ending, Complete, ch
  <2>4. \/ shown' = shown /\ ~(result[t] = "rejected" /\ ShowsRefusals)
        \/ c = DeltaDone(1) /\ consumer # "rest" /\ shown' = [shown EXCEPT ![t] = Append(text, 1)]
    <3>1. c.done /\ (c \in {Done, Error} => c.delta = None) /\ (c = Error => c.err)
      BY <2>3, ChunkFacts, StreamingAssumption
    <3>2. consumer \in {"rest", "webui", "headless"}
      BY <1>1, TurnFacts, StreamingAssumption DEF StreamTypes
    <3>3. shown = [shown EXCEPT ![t] = shown[t]]
      BY TurnFacts DEF StreamTypes
    <3>4. CASE c \in {Done, Error}
      <4>1. shown' = shown
        BY <1>10, <3>1, <3>2, <3>3, <3>4 DEF Loop, ShowRest, ShowHeadless, ShowWeb, Show, c, ch
      <4>2. result[t] # "rejected"
        BY <2>3, <3>4 DEF Done, Error, DeltaDone, None
      <4>3. QED
        BY <4>1, <4>2
    <3>5. CASE c = DeltaDone(1)
      <4>1. c.delta = 1 /\ ~c.err /\ c.delta # None
        BY <3>5 DEF DeltaDone, None
      <4>2. CASE consumer = "rest"
        BY <1>1, <3>1, <4>2 DEF Loop, ShowRest, ShowsRefusals, c, ch
      <4>3. CASE consumer # "rest"
        <5>1. Show(t, c)
          BY <1>10, <3>2, <4>1, <4>3 DEF Loop, ShowHeadless, ShowWeb, c, ch
        <5>2. QED
          BY <4>1, <4>3, <5>1, <3>5 DEF Show, text
      <4>4. QED
        BY <4>2, <4>3
    <3>6. QED
      BY <2>3, <3>4, <3>5
  <2>5. /\ Begins(shown[t])'
        /\ result[t] = "ok" => Len(shown'[t]) = sent[t]
        /\ result[t] = "rejected" /\ ShowsRefusals => Len(shown'[t]) = sent[t]
    <3>1. CASE shown' = shown /\ ~(result[t] = "rejected" /\ ShowsRefusals)
      BY <1>3, <2>3, <3>1, TurnFacts DEF InSequence, Begins, text
    <3>2. CASE c = DeltaDone(1) /\ consumer # "rest" /\ shown' = [shown EXCEPT ![t] = Append(text, 1)]
      <4>1. Len(text) = 0 /\ sent[t] = 1 /\ result[t] = "rejected"
        BY <2>3, <3>2, ChunkFacts DEF Done, Error, DeltaDone, None
      <4>2. Begins(Append(text, 1)) /\ Len(Append(text, 1)) = 1
        BY <3>2, <4>1, TurnFacts, ShowNext DEF InSequence, text
      <4>3. shown'[t] = Append(text, 1)
        BY <3>2, TurnFacts DEF StreamTypes
      <4>4. QED
        BY <1>3, <4>1, <4>2, <4>3 DEF Begins
    <3>3. QED
      BY <2>4, <3>1, <3>2
  <2>6. chunks'[t] = << >> /\ stream'[t] = << >>
    BY <1>1, <1>3, <1>7, <1>10
  <2>7. InSequence(t)'
    BY <2>5, <2>6, NoChunks DEF InSequence
  <2>8. Consumed(t)'
    BY <1>1, <1>3, <2>1, <2>5, <2>6 DEF Consumed, ShowsRefusals, Ending
  <2>9. QED
    BY <1>1, <1>3, <1>6, <2>7, <2>8, OwnTurn DEF TurnInv
<1>11. CASE /\ ch # << >> /\ c = Delta(Len(text) + 1) /\ Plain(ch) > 0 /\ Plain(Rest(ch)) = Plain(ch) - 1
            /\ Run(Rest(ch), Len(text) + 1) /\ (Ended(Rest(ch)) <=> Ended(ch))
            /\ Ended(ch) => LastOf(Rest(ch)) = LastOf(ch)
  <2> DEFINE n == Len(text) + 1
             d == IF consumer = "rest" /\ n \in MultiLine THEN Cut ELSE n
  <2>1. c.delta = n /\ ~c.done /\ ~c.err /\ n \in 0..MaxDeltas /\ n # None
    BY <1>1, <1>2, <1>11, NoLength DEF Delta, None, Chunk
  <2>2. shown' = [shown EXCEPT ![t] = Append(text, d)] /\ ui' = ui
    BY <1>1, <1>11, <2>1, TurnFacts DEF Loop, ShowRest, ShowHeadless, ShowWeb, Show, StreamTypes, c, ch, text
  <2>3. d \in 0..MaxDeltas
    BY <2>1, TurnFacts DEF Cut
  <2>4. Begins(Append(text, d)) /\ Len(Append(text, d)) = n
    BY <1>1, <2>3, TurnFacts, ShowNext DEF InSequence, text
  <2>5. shown'[t] = Append(text, d)
    BY <2>2, TurnFacts DEF StreamTypes
  <2>6. OnWay(t) = Len(text) + 0 + Plain(ch) /\ OnWay(t)' = n + 0 + Plain(Rest(ch))
    BY <1>1, <1>3, <1>7, <2>4, <2>5 DEF OnWay, ch, text
  <2>7. OnWay(t)' = OnWay(t)
    BY SMTT(30), <1>1, <1>11, <2>6, PlainType
  <2>8. InSequence(t)'
    BY <1>1, <1>3, <1>7, <1>11, <2>4, <2>5, NoChunks DEF InSequence, Begins
  <2>9. Producing(t) \/ Ending(t)
    BY <1>8, <1>11 DEF Consumed, ch
  <2>10. Producing(t) => Producing(t)'
    BY <1>3, <1>7, <1>11, <2>7 DEF Producing, ch
  <2>11. Ending(t) => Ending(t)'
    <3>1. SUFFICES ASSUME Ending(t) PROVE Ending(t)'
      OBVIOUS
    <3>2. Plain(ch) # 0 => OnWay(t) # 0
      BY <1>1, <1>2, <2>6, PlainType
    <3>3. QED
      BY <1>3, <1>7, <1>11, <2>7, <3>1, <3>2 DEF Ending, Complete, ch
  <2>12. ~Over(t)'
    BY <1>1, <1>3, <2>2, TurnFacts DEF Over
  <2>13. QED
    BY <1>1, <1>3, <1>6, <2>8, <2>9, <2>10, <2>11, <2>12, OwnTurn DEF TurnInv
<1>12. QED
  <2>1. CASE ch # << >>
    <3>1. Run(ch, Len(text)) /\ Len(text) \in Nat /\ ch \in Seq(Chunk)
      BY <1>1, TurnFacts DEF InSequence, ch, text
    <3>2. c = Head(ch) /\ Rest(ch) = Tail(ch)
      BY <2>1 DEF Rest, Next1, c
    <3>3. QED
      BY <1>10, <1>11, <2>1, <3>1, <3>2, Take
  <2>2. QED
    BY <1>9, <2>1

\* The CLI's forwarder passes on the next delta or the end of the answer, whose
\* delta it drops.
LEMMA ForwardInv == ASSUME StreamInv, NEW t \in Turn, Forward(t) PROVE StreamInv'
<1> DEFINE ch == chunks[t]
           c == Next1(ch)
           n == Len(shown[t]) + Plain(stream[t])
           out == IF c.done THEN [c EXCEPT !.delta = None] ELSE c
<1>1. /\ ch \in Seq(Chunk) /\ Len(ch) <= Cap /\ stream[t] \in Seq(Chunk) /\ Len(stream[t]) < Cap
      /\ forward[t] = "run" /\ Len(stream[t]) \in Nat /\ Cap \in Nat
  BY TurnFacts, NoLength, StreamingAssumption DEF Forward, Room, StreamTypes
<1>2. /\ c \in Chunk /\ Rest(ch) \in Seq(Chunk) /\ Len(Rest(ch)) <= Cap
  BY <1>1, RestType
<1>3. out \in Chunk /\ out.done = c.done /\ (c.done => out.delta = None /\ out.err = c.err)
  BY <1>2, StreamingAssumption DEF Chunk, None
<1>4. /\ chunks' = [chunks EXCEPT ![t] = Rest(ch)]
      /\ stream' = [stream EXCEPT ![t] = Append(stream[t], out)]
      /\ forward' = [forward EXCEPT ![t] = IF c.done THEN "exited" ELSE "run"]
      /\ UNCHANGED <<consumer, producer, turn, ui, handler, sent, result, shown>>
  BY DEF Forward, Receive, path
<1>5. /\ Append(stream[t], out) \in Seq(Chunk) /\ Len(Append(stream[t], out)) <= Cap
  BY <1>1, <1>3, AppendLast
<1>6. (Producing(t) \/ Ending(t)) /\ t <= turn /\ consumer = "cli"
  BY <1>1, TurnFacts DEF TurnInv, Future, Forwarded, Consumed, Producing, Ending
<1>7. Ready(ch, handler[t])
  BY DEF Forward, Receive
<1>8. ch # << >>
  BY <1>6, <1>7, NoChunks DEF Ready, Producing, Ending, ch
<1>9. n \in Nat /\ Run(ch, n) /\ Run(stream[t], Len(shown[t])) /\ ~Ended(stream[t])
  BY <1>6, TurnFacts DEF InSequence, Producing, Ending
<1>10. c = Head(ch) /\ Rest(ch) = Tail(ch)
  BY <1>8 DEF Rest, Next1
<1>11. OnWay(t) = n + Plain(ch)
  BY DEF OnWay
<1>12. ~Over(t)
  BY <1>6 DEF TurnInv, Producing, Ending, Consumed, StreamInv
<1> HIDE DEF ch, c, out
<1>13. StreamTypes' /\ Moves(t)
  <2>1. /\ chunks' \in [Turn -> Seq(Chunk)] /\ stream' \in [Turn -> Seq(Chunk)]
        /\ forward' \in [Turn -> {"none", "run", "exited"}]
        /\ \A u \in Turn : Len(chunks'[u]) <= Cap /\ Len(stream'[u]) <= Cap
        /\ \A u \in Turn : u # t => /\ chunks'[u] = chunks[u] /\ stream'[u] = stream[u]
                                     /\ forward'[u] = forward[u]
    BY <1>2, <1>4, <1>5, TurnFacts DEF StreamTypes
  <2>2. QED
    BY <1>4, <2>1, TurnFacts DEF StreamTypes, Moves, Same
<1>14. /\ chunks'[t] = Rest(ch) /\ stream'[t] = Append(stream[t], out) /\ shown'[t] = shown[t]
       /\ forward'[t] = IF c.done THEN "exited" ELSE "run"
  BY <1>4, TurnFacts DEF StreamTypes
<1>15. ~Over(t)'
  BY <1>4, <1>12 DEF Over
<1>16. CASE Ended(ch) /\ Plain(ch) = 0 /\ Rest(ch) = << >> /\ c = LastOf(ch)
  <2>1. Ending(t) /\ c.done
    BY <1>6, <1>16 DEF Producing, Ended, LastOf, ch
  <2>2. /\ Run(stream'[t], Len(shown[t])) /\ Ended(stream'[t]) /\ Plain(stream'[t]) = Plain(stream[t])
        /\ LastOf(stream'[t]) = out
    BY <1>1, <1>3, <1>9, <1>14, <2>1, PutEnd, TurnFacts
  <2>3. OnWay(t)' = OnWay(t)
    BY <1>11, <1>14, <1>16, <2>2, NoChunks, TurnFacts DEF OnWay, n
  <2>4. \/ c = Done /\ out = Done /\ Complete(t)
        \/ c = Error /\ out = Error /\ result[t] = "error"
        \/ c = DeltaDone(1) /\ out = Done /\ result[t] = "rejected" /\ producer = "router"
    <3>1. ASSUME NEW d, c = DeltaDone(d) PROVE out = Done
      <4>1. out = [[delta |-> d, done |-> TRUE, err |-> FALSE] EXCEPT !.delta = 0]
        BY <2>1, <3>1 DEF out, DeltaDone, None
      <4>2. QED
        BY <4>1 DEF Done, DeltaDone, None
    <3>2. c = Error => out = Error
      BY DEF out, Error, None
    <3>3. QED
      BY <1>16, <2>1, <3>1, <3>2 DEF Ending, Done, ch
  <2>5. Forwarded(t)'
    BY <1>4, <1>6, <1>14, <1>16, <2>1, <2>2, <2>3, <2>4 DEF Forwarded, Ending, Complete
  <2>6. InSequence(t)'
    BY <1>4, <1>6, <1>14, <1>16, <2>2, NoChunks, TurnFacts DEF InSequence, Begins
  <2>7. QED
    BY <1>4, <1>6, <1>13, <1>15, <2>5, <2>6, OwnTurn DEF TurnInv
<1>17. CASE /\ c = Delta(n + 1) /\ Plain(ch) > 0 /\ Plain(Rest(ch)) = Plain(ch) - 1
            /\ Run(Rest(ch), n + 1) /\ (Ended(Rest(ch)) <=> Ended(ch))
            /\ Ended(ch) => LastOf(Rest(ch)) = LastOf(ch)
  <2>1. n + 1 \in 0..MaxDeltas /\ ~c.done /\ out = Delta(n + 1)
    BY <1>2, <1>17 DEF Delta, Chunk, out
  <2>2. n + 1 = Len(shown[t]) + Plain(stream[t]) + 1
    OBVIOUS
  <2>3. /\ Run(stream'[t], Len(shown[t])) /\ ~Ended(stream'[t])
        /\ Plain(stream'[t]) = Plain(stream[t]) + 1
    BY <1>1, <1>9, <1>14, <2>1, <2>2, PutDelta, TurnFacts
  <2>4. Len(shown'[t]) + Plain(stream'[t]) = n + 1
    BY <1>14, <2>2, <2>3, TurnFacts
  <2>5. OnWay(t)' = OnWay(t)
    BY <1>1, <1>9, <1>11, <1>14, <1>17, <2>4, PlainType DEF OnWay
  <2>6. InSequence(t)'
    BY <1>4, <1>6, <1>14, <1>17, <2>3, <2>4, TurnFacts DEF InSequence, Begins
  <2>7. Producing(t) => Producing(t)'
    BY <1>4, <1>6, <1>14, <1>17, <2>1, <2>3, <2>5 DEF Producing, ch
  <2>8. Ending(t) => Ending(t)'
    BY <1>4, <1>6, <1>14, <1>17, <2>1, <2>3, <2>5 DEF Ending, Complete, ch
  <2>9. QED
    BY <1>4, <1>6, <1>13, <1>15, <2>6, <2>7, <2>8, OwnTurn DEF TurnInv
<1>18. QED
  <2>1. Head(ch) = c /\ Tail(ch) = Rest(ch)
    BY <1>10
  <2>2. Run(ch, n) /\ n \in Nat /\ ch \in Seq(Chunk)
    BY <1>1, <1>9
  <2> HIDE DEF n
  <2>3. \/ Ended(ch) /\ Plain(ch) = 0 /\ Rest(ch) = << >> /\ c = LastOf(ch)
        \/ /\ c = Delta(n + 1) /\ Plain(ch) > 0 /\ Plain(Rest(ch)) = Plain(ch) - 1
           /\ Run(Rest(ch), n + 1) /\ (Ended(Rest(ch)) <=> Ended(ch))
           /\ Ended(ch) => LastOf(Rest(ch)) = LastOf(ch)
    BY <1>8, <2>1, <2>2, Take
  <2>4. QED
    BY <1>16, <1>17, <2>3

\* The terminal UI shows the next delta or ends the turn; an error clears what
\* was shown.
LEMMA UpdateInv == ASSUME StreamInv, NEW t \in Turn, Update(t) PROVE StreamInv'
<1> DEFINE ch == stream[t]
           c == Next1(ch)
           text == shown[t]
           new == IF c.err THEN << >> ELSE IF c.delta = None THEN text ELSE Append(text, c.delta)
<1>1. /\ consumer = "cli" /\ ui = "streaming" /\ t = turn /\ t <= turn
      /\ ch \in Seq(Chunk) /\ Len(ch) <= Cap /\ text \in Seq(0..MaxDeltas)
  BY TurnFacts DEF Update, StreamTypes
<1>2. c \in Chunk /\ c.delta \in 0..MaxDeltas /\ Rest(ch) \in Seq(Chunk) /\ Len(Rest(ch)) <= Cap
  BY <1>1, RestType DEF Chunk
<1>3. /\ stream' = [stream EXCEPT ![t] = Rest(ch)]
      /\ shown' = [shown EXCEPT ![t] = new]
      /\ ui' = IF c.done THEN "idle" ELSE "streaming"
      /\ UNCHANGED <<consumer, producer, turn, handler, sent, result, chunks, forward>>
  BY TurnFacts DEF Update, Show, path, StreamTypes
<1>4. new \in Seq(0..MaxDeltas)
  <2>1. Append(text, c.delta) \in Seq(0..MaxDeltas)
    BY <1>1, <1>2, AppendLast
  <2>2. << >> \in Seq(0..MaxDeltas)
    OBVIOUS
  <2> HIDE DEF c, text
  <2>3. QED
    BY <1>1, <2>1, <2>2
<1>5. Ready(ch, forward[t])
  BY DEF Update
<1> HIDE DEF ch, c, text, new
<1>6. StreamTypes' /\ Moves(t)
  <2>1. /\ shown' \in [Turn -> Seq(0..MaxDeltas)] /\ stream' \in [Turn -> Seq(Chunk)]
        /\ \A u \in Turn : Len(stream'[u]) <= Cap
        /\ \A u \in Turn : u # t => shown'[u] = shown[u] /\ stream'[u] = stream[u]
    BY <1>2, <1>3, <1>4, TurnFacts DEF StreamTypes
  <2>2. QED
    BY <1>1, <1>3, <2>1, TurnFacts DEF StreamTypes, Moves, Same
<1>7. stream'[t] = Rest(ch) /\ shown'[t] = new
  BY <1>3, TurnFacts DEF StreamTypes
<1>8. Producing(t) \/ Ending(t) \/ Forwarded(t) \/ Consumed(t)
  BY <1>1, TurnFacts DEF TurnInv, Future
<1>9. CASE ch = << >>
  <2>1. c = Done /\ new = text /\ Rest(ch) = << >>
    BY <1>9, ChunkFacts, StreamingAssumption DEF Next1, Rest, c, new
  <2>2. Consumed(t)
    BY <1>1, <1>5, <1>8, <1>9, NoChunks DEF Ready, Producing, Ending, Forwarded, ch
  <2>3. Consumed(t)' /\ InSequence(t)'
    BY <1>1, <1>3, <1>7, <1>9, <2>1, <2>2, TurnFacts
       DEF Consumed, ShowsRefusals, InSequence, Begins, ch, text
  <2>4. QED
    BY <1>1, <1>3, <1>6, <2>3, OwnTurn DEF TurnInv
<1>10. CASE ch # << >> /\ Ended(ch) /\ Plain(ch) = 0 /\ Rest(ch) = << >> /\ c = LastOf(ch)
  <2>1. Forwarded(t)
    BY <1>8, <1>10, NoChunks DEF Producing, Ending, Consumed, ch
  <2>2. OnWay(t) = Len(text)
    BY <1>1, <1>10, <2>1, TurnFacts, NoChunks DEF OnWay, Forwarded, ch, text
  <2>3. /\ \/ c = Done /\ Complete(t)
           \/ c = Error /\ result[t] = "error"
           \/ c = Done /\ result[t] = "rejected" /\ producer = "router"
        /\ c.delta = None /\ c.err => c = Error
    BY <1>10, <2>1, ChunkFacts, StreamingAssumption DEF Forwarded, ch
  <2>4. \/ new = text
        \/ new = << >> /\ result[t] = "error"
    BY <2>3, ChunkFacts, StreamingAssumption DEF new, Done, Error
  <2>5. /\ result[t] = "ok" => Len(new) = sent[t]
        /\ result[t] = "rejected" /\ ShowsRefusals => Len(new) = sent[t]
    BY <1>1, <2>2, <2>3, <2>4, ChunkFacts, StreamingAssumption
       DEF Complete, ShowsRefusals, Done, Error, new
  <2>6. Begins(shown[t])'
    BY <1>3, <1>7, <2>4, TurnFacts DEF InSequence, Begins, text
  <2>7. chunks'[t] = << >> /\ stream'[t] = << >>
    BY <1>3, <1>7, <1>10, <2>1 DEF Forwarded
  <2>8. InSequence(t)'
    BY <2>6, <2>7, NoChunks DEF InSequence
  <2>9. Consumed(t)'
    BY <1>3, <1>7, <2>1, <2>5, <2>7 DEF Consumed, ShowsRefusals, Forwarded
  <2>10. QED
    BY <1>1, <1>3, <1>6, <2>8, <2>9, OwnTurn DEF TurnInv
<1>11. CASE /\ ch # << >> /\ c = Delta(Len(text) + 1) /\ Plain(ch) > 0 /\ Plain(Rest(ch)) = Plain(ch) - 1
            /\ Run(Rest(ch), Len(text) + 1) /\ (Ended(Rest(ch)) <=> Ended(ch))
            /\ Ended(ch) => LastOf(Rest(ch)) = LastOf(ch)
  <2> DEFINE n == Len(text) + 1
  <2>1. c.delta = n /\ ~c.done /\ ~c.err /\ n \in 0..MaxDeltas /\ n # None
    BY <1>1, <1>2, <1>11 DEF Delta, None, Chunk, text
  <2>2. new = Append(text, n)
    BY <2>1 DEF new
  <2>3. Begins(new) /\ Len(new) = n
    BY <1>1, <2>1, <2>2, TurnFacts, ShowNext DEF InSequence, text
  <2>4. Plain(ch) \in Nat /\ Plain(chunks[t]) \in Nat /\ Len(text) \in Nat
    BY TurnFacts DEF ch, text
  <2>5. Len(text) + Plain(ch) = n + Plain(Rest(ch))
    BY <1>11, <2>4
  <2>6. OnWay(t)' = OnWay(t)
    BY <1>3, <1>7, <2>3, <2>5 DEF OnWay, ch, text
  <2>7. InSequence(t)'
    <3>1. Begins(shown[t])'
      BY <1>3, <1>7, <2>3 DEF Begins
    <3>2. Run(chunks[t], Len(text) + Plain(ch))
      BY TurnFacts DEF InSequence, ch, text
    <3>3. QED
      BY <1>1, <1>3, <1>7, <1>11, <2>3, <2>5, <3>1, <3>2 DEF InSequence
  <2>8. Producing(t) \/ Ending(t) \/ Forwarded(t)
    BY <1>8, <1>11 DEF Consumed, ch
  <2>9. Producing(t) => Producing(t)'
    BY <1>3, <1>7, <1>11, <2>6 DEF Producing, ch
  <2>10. Ending(t) => Ending(t)'
    BY <1>3, <1>7, <1>11, <2>6 DEF Ending, Complete, ch
  <2>11. Forwarded(t) => Forwarded(t)'
    BY <1>3, <1>7, <1>11, <2>6 DEF Forwarded, Complete, ch
  <2>12. ~Over(t)'
    BY <1>1, <1>3, <2>1, TurnFacts DEF Over
  <2>13. QED
    BY <1>1, <1>3, <1>6, <2>7, <2>8, <2>9, <2>10, <2>11, <2>12, OwnTurn DEF TurnInv
<1>12. QED
  <2>1. CASE ch # << >>
    <3>1. Run(ch, Len(text)) /\ Len(text) \in Nat /\ ch \in Seq(Chunk)
      BY <1>1, TurnFacts DEF InSequence, ch, text
    <3>2. c = Head(ch) /\ Rest(ch) = Tail(ch)
      BY <2>1 DEF Rest, Next1, c
    <3>3. QED
      BY <1>10, <1>11, <2>1, <3>1, <3>2, Take
  <2>2. QED
    BY <1>9, <2>1

LEMMA QuitInv == ASSUME StreamInv, Quit PROVE StreamInv'
<1>1. StreamTypes' /\ \A t \in Turn : Same(t)
  BY DEF Quit, StreamInv, StreamTypes, Same, path
<1>2. UNCHANGED <<consumer, producer, turn>> /\ \A t \in Turn : Over(t)' => Over(t)
  BY DEF Quit, path, Over
<1>3. QED
  BY <1>1, <1>2, SameInv DEF StreamInv

LEMMA NextStreamInv == StreamInv /\ [Next]_vars => StreamInv'
<1>1. SUFFICES ASSUME StreamInv, [Next]_vars PROVE StreamInv'
  OBVIOUS
<1>2. CASE Launch
  BY <1>1, <1>2, LaunchInv
<1>3. CASE Quit
  BY <1>1, <1>3, QuitInv
<1>4. ASSUME NEW t \in Turn, Handle(t) PROVE StreamInv'
  BY <1>1, <1>4, RejectInv, AcceptInv, AnsweredInv, SaveInv, SendDeltaInv, SendTextInv, SendEndInv,
     CloseInv DEF Handle
<1>5. ASSUME NEW t \in Turn, Loop(t) \/ Forward(t) \/ Update(t) PROVE StreamInv'
  BY <1>1, <1>5, LoopInv, ForwardInv, UpdateInv
<1>6. CASE UNCHANGED vars
  <2>1. StreamTypes' /\ \A t \in Turn : Same(t)
    BY <1>1, <1>6 DEF vars, path, StreamInv, StreamTypes, Same
  <2>2. UNCHANGED <<consumer, producer, turn>> /\ \A t \in Turn : Over(t)' => Over(t)
    BY <1>6 DEF vars, path, Over
  <2>3. QED
    BY <1>1, <2>1, <2>2, SameInv DEF StreamInv
<1>7. QED
  BY <1>1, <1>2, <1>3, <1>4, <1>5, <1>6 DEF Next, Step

LEMMA SpecStreamInv == Spec => []StreamInv
BY InitStreamInv, NextStreamInv, PTL DEF Spec

-----------------------------------------------------------------------------
\* Whatever the consumer, the speed of its loop and the size of the channels,
\* the user sees the deltas of an answer in order, each once, and all of them
\* when a turn that did not fail is over (Router.StreamHandler, router.go:118-179,
\* streamChatHandler, rest/handlers.go:146-205, and the terminal's Update).
THEOREM AnswersAreShown == Spec => []AnswerShown
<1>1. StreamInv => AnswerShown
  BY DEF StreamInv, TurnInv, InSequence, Begins, Consumed, AnswerShown
<1>2. QED
  BY <1>1, SpecStreamInv, PTL

\* When the loop that shows an answer has ended, the turn's goroutines have
\* done their work on the session.
THEOREM QuietWhenIdle == Spec => []IdleMeansQuiet
<1>1. StreamInv => IdleMeansQuiet
  BY DEF StreamInv, TurnInv, Consumed, IdleMeansQuiet
<1>2. QED
  BY <1>1, SpecStreamInv, PTL

\* Types and bounds of the channels.
THEOREM StreamTypesKept == Spec => []TypeOK
<1>1. StreamInv => TypeOK
  BY DEF StreamInv, StreamTypes, TypeOK, HandlerLabels
<1>2. QED
  BY <1>1, SpecStreamInv, PTL

-----------------------------------------------------------------------------
(* WhatsApp: the notifications handled follow those that arrived.           *)

Gone == Len(arrived) - Len(queue)

\* The queue is the end of what arrived; what the loop works on is its oldest.
QueueIsRest ==
    /\ \A i, j \in DOMAIN arrived : arrived[i] = arrived[j] => i = j
    /\ Len(queue) <= Len(arrived)
    /\ \A i \in DOMAIN queue : queue[i] = arrived[Gone + i]
    /\ at # "poll" => queue # << >> /\ held = queue[1]
    /\ at = "send" => held \in Texts

\* Nothing was handled ahead of the queue's oldest.
DoneInOrder ==
    /\ \A i \in DOMAIN done : \E k \in DOMAIN arrived : k <= Gone + 1 /\ done[i] = arrived[k]
    /\ \A i, j \in DOMAIN done, k, l \in DOMAIN arrived :
          i < j /\ done[i] = arrived[k] /\ done[j] = arrived[l] => k <= l

\* The oldest was handled once for every fault, until it is handled again.
DoneOnce ==
    /\ \A m \in Texts : /\ W!Times(m, done) <= 1 + faults
                        /\ W!Times(m, replies) <= W!Times(m, done)
                        /\ at = "send" /\ held = m => W!Times(m, replies) < W!Times(m, done)
    /\ queue # << >> /\ at \in {"poll", "handle"} => W!Times(queue[1], done) <= faults

PollTypes ==
    /\ queue \in Seq(Messages) /\ arrived \in Seq(Messages)
    /\ at \in {"poll", "handle", "send", "delete"} /\ held \in Messages
    /\ done \in Seq(Texts) /\ replies \in Seq(Texts) /\ faults \in Nat

PollInv == PollTypes /\ QueueIsRest /\ DoneInOrder /\ DoneOnce

\* The instance's cardinality is the library's.
LEMMA SameCardinality == ASSUME NEW S PROVE W!Cardinality(S) = Cardinality(S)
BY DEF W!Cardinality, Cardinality

\* How often a message occurs in a sequence, and in one with another behind.
LEMMA TimesType ==
    ASSUME NEW S, NEW seq \in Seq(S), NEW m
    PROVE  /\ IsFiniteSet({i \in DOMAIN seq : seq[i] = m}) /\ W!Times(m, seq) \in Nat
           /\ (\A i \in DOMAIN seq : seq[i] # m) => W!Times(m, seq) = 0
<1> DEFINE at1 == {i \in DOMAIN seq : seq[i] = m}
<1>1. DOMAIN seq = 1..Len(seq) /\ Len(seq) \in Nat
  OBVIOUS
<1>2. IsFiniteSet(1..Len(seq))
  BY <1>1, FS_Interval
<1>3. IsFiniteSet(at1)
  BY <1>1, <1>2, FS_Subset
<1>4. Cardinality(at1) \in Nat
  BY <1>3, FS_CardinalityType
<1>5. (\A i \in DOMAIN seq : seq[i] # m) => at1 = {}
  OBVIOUS
<1>6. QED
  BY <1>3, <1>4, <1>5, FS_EmptySet, SameCardinality DEF W!Times

LEMMA TimesAppend ==
    ASSUME NEW S, NEW seq \in Seq(S), NEW x \in S, NEW m
    PROVE  W!Times(m, Append(seq, x)) = W!Times(m, seq) + (IF x = m THEN 1 ELSE 0)
<1> DEFINE new == Append(seq, x)
           before == {i \in DOMAIN seq : seq[i] = m}
           after == {i \in DOMAIN new : new[i] = m}
           n == Len(seq) + 1
<1> SUFFICES W!Times(m, new) = W!Times(m, seq) + (IF x = m THEN 1 ELSE 0)
  OBVIOUS
<1>1. /\ DOMAIN seq = 1..Len(seq) /\ Len(seq) \in Nat /\ DOMAIN new = 1..n
      /\ new[n] = x /\ \A i \in 1..Len(seq) : new[i] = seq[i]
  OBVIOUS
<1>2. IsFiniteSet(before) /\ n \notin before /\ Cardinality(before) \in Nat
  <2>1. IsFiniteSet(before)
    BY TimesType
  <2>2. n \notin before
    BY <1>1
  <2>3. QED
    BY <2>1, <2>2, FS_CardinalityType
<1>3. W!Times(m, seq) = Cardinality(before) /\ W!Times(m, new) = Cardinality(after)
  BY SameCardinality DEF W!Times
<1> HIDE DEF new
<1>4. after = IF x = m THEN before \cup {n} ELSE before
  <2>1. DOMAIN new = DOMAIN seq \cup {n}
    BY <1>1
  <2>2. QED
    BY <1>1, <2>1
<1> HIDE DEF before, after, new, n
<1>5. CASE x = m
  <2>1. Cardinality(before \cup {n}) = Cardinality(before) + 1
    BY <1>2, FS_AddElement, Zenon
  <2>2. QED
    BY <1>3, <1>4, <1>5, <2>1
<1>6. CASE x # m
  BY <1>2, <1>3, <1>4, <1>6
<1>7. QED
  BY <1>5, <1>6

\* The notifications by their order of arrival.
LEMMA FirstIs ==
    ASSUME NEW k \in DOMAIN arrived, \A i, j \in DOMAIN arrived : arrived[i] = arrived[j] => i = j
    PROVE  W!First(arrived[k], arrived) = k
<1> DEFINE Is(i) == i \in DOMAIN arrived /\ arrived[i] = arrived[k]
                   /\ \A j \in 1..(i - 1) : arrived[j] # arrived[k]
<1>1. ASSUME NEW i, Is(i) PROVE i = k
  BY <1>1
<1>2. QED
  BY DEF W!First

LEMMA PollInitInv == ASSUME W!Init PROVE PollInv
<1>1. PollTypes /\ QueueIsRest /\ DoneInOrder
  BY DEF W!Init, PollTypes, QueueIsRest, DoneInOrder, Gone
<1>2. \A m : W!Times(m, done) = 0 /\ W!Times(m, replies) = 0
  <2>1. done = << >> /\ replies = << >> /\ << >> \in Seq(Texts) /\ DOMAIN << >> = {}
    BY DEF W!Init
  <2>2. \A m : W!Times(m, << >>) = 0
    BY <2>1, TimesType
  <2>3. QED
    BY <2>1, <2>2
<1>3. DoneOnce
  BY <1>2 DEF W!Init, DoneOnce
<1>4. QED
  BY <1>1, <1>3 DEF PollInv

\* The queue's oldest is the next that arrived.
LEMMA Oldest ==
    ASSUME PollInv
    PROVE  /\ Gone \in Nat /\ Len(queue) \in Nat /\ Len(arrived) \in Nat /\ Len(done) \in Nat
           /\ DOMAIN queue = 1..Len(queue) /\ DOMAIN arrived = 1..Len(arrived)
           /\ DOMAIN done = 1..Len(done)
           /\ Len(arrived) = Gone + Len(queue)
           /\ queue # << >> => /\ Gone + 1 \in DOMAIN arrived /\ queue[1] = arrived[Gone + 1]
                               /\ Head(queue) = queue[1] /\ queue[1] \in Messages
                               /\ Len(queue) > 0
BY DEF PollInv, PollTypes, QueueIsRest, Gone

\* What was never handled: what did not arrive, and what waits behind the oldest.
LEMMA Unhandled ==
    ASSUME PollInv, NEW m, \A k \in DOMAIN arrived : arrived[k] = m => k > Gone + 1
    PROVE  W!Times(m, done) = 0
<1>1. \A i \in DOMAIN done : done[i] # m
  BY Oldest DEF PollInv, DoneInOrder
<1>2. QED
  BY <1>1, TimesType DEF PollInv, PollTypes

LEMMA ArriveInv == ASSUME PollInv, NEW m \in Messages, W!Arrive(m) PROVE PollInv'
<1> DEFINE n == Len(arrived) + 1
           all == Append(arrived, m)
           waiting == Append(queue, m)
<1>1. /\ queue' = waiting /\ arrived' = all /\ UNCHANGED <<at, held, done, replies, faults>>
      /\ \A i \in DOMAIN arrived : arrived[i] # m
  BY DEF W!Arrive, W!Among
<1>2. /\ all \in Seq(Messages) /\ Len(all) = n /\ DOMAIN all = 1..n
      /\ all[n] = m /\ \A i \in 1..Len(arrived) : all[i] = arrived[i]
  BY Oldest, AppendLast DEF PollInv, PollTypes
<1>3. /\ waiting \in Seq(Messages) /\ Len(waiting) = Len(queue) + 1 /\ waiting # << >>
      /\ DOMAIN waiting = 1..Len(waiting)
      /\ waiting[Len(queue) + 1] = m /\ \A i \in 1..Len(queue) : waiting[i] = queue[i]
  BY Oldest, AppendLast DEF PollInv, PollTypes
<1> HIDE DEF all, waiting
<1>4. PollTypes'
  BY <1>1, <1>2, <1>3 DEF PollInv, PollTypes
<1>5. Gone' = Gone
  BY <1>1, <1>2, <1>3, Oldest DEF Gone
<1>6. QueueIsRest'
  <2>1. \A i, j \in DOMAIN all : all[i] = all[j] => i = j
    BY <1>1, <1>2, Oldest DEF PollInv, QueueIsRest
  <2>2. Len(waiting) <= Len(all)
    BY <1>2, <1>3, Oldest
  <2>3. ASSUME NEW i \in DOMAIN waiting PROVE waiting[i] = all[Gone + i]
    <3>1. CASE i \in 1..Len(queue)
      <4>1. waiting[i] = arrived[Gone + i] /\ Gone + i \in 1..Len(arrived)
        BY <1>3, <3>1, Oldest DEF PollInv, QueueIsRest
      <4>2. QED
        BY <1>2, <4>1
    <3>2. CASE i = Len(queue) + 1
      BY <1>2, <1>3, <3>2, Oldest
    <3>3. QED
      BY <1>3, <3>1, <3>2, Oldest
  <2>4. at # "poll" => waiting # << >> /\ held = waiting[1]
    BY SMTT(30), <1>3, Oldest DEF PollInv, QueueIsRest
  <2>5. QED
    BY <1>1, <1>5, <2>1, <2>2, <2>3, <2>4 DEF PollInv, QueueIsRest
<1>7. DoneInOrder'
  <2>1. \A i \in DOMAIN done : \E k \in DOMAIN arrived : k <= Gone + 1 /\ done[i] = all[k]
    BY <1>2, Oldest DEF PollInv, DoneInOrder
  <2>2. \A i \in DOMAIN done, k \in DOMAIN all : done[i] = all[k] => k \in DOMAIN arrived
    BY <1>1, <1>2, Oldest DEF PollInv, DoneInOrder
  <2>3. \A i \in DOMAIN done : \E k \in DOMAIN all : k <= Gone + 1 /\ done[i] = all[k]
    BY <1>2, <2>1, Oldest
  <2>4. \A i, j \in DOMAIN done, k, l \in DOMAIN all :
           i < j /\ done[i] = all[k] /\ done[j] = all[l] => k <= l
    BY ZenonT(60), <1>2, <2>2, Oldest DEF PollInv, DoneInOrder
  <2>5. QED
    BY <1>1, <1>5, <2>3, <2>4 DEF DoneInOrder
<1>8. DoneOnce'
  <2>1. W!Times(m, done) = 0
    BY <1>1, Unhandled
  <2>2. waiting[1] = IF queue = << >> THEN m ELSE queue[1]
    BY <1>3, Oldest DEF PollInv, PollTypes
  <2>3. QED
    BY <1>1, <2>1, <2>2 DEF PollInv, PollTypes, DoneOnce
<1>9. QED
  BY <1>4, <1>6, <1>7, <1>8 DEF PollInv

LEMMA ReceiveInv == ASSUME PollInv, W!Receive PROVE PollInv'
<1>1. /\ UNCHANGED <<queue, arrived, done, replies, faults, Gone>> /\ at = "poll" /\ at' = "handle"
      /\ queue # << >> /\ held' = queue[1]
  BY Oldest DEF W!Receive, Gone
<1>2. PollTypes' /\ QueueIsRest'
  BY <1>1, Oldest DEF PollInv, PollTypes, QueueIsRest
<1>3. DoneInOrder'
  BY <1>1 DEF PollInv, DoneInOrder
<1>4. DoneOnce'
  BY <1>1 DEF PollInv, DoneOnce
<1>5. QED
  BY <1>2, <1>3, <1>4 DEF PollInv

\* Handling the oldest puts it behind what was handled before it.
LEMMA HandleInv == ASSUME PollInv, W!Handle PROVE PollInv'
<1> DEFINE new == Append(done, held)
<1>1. /\ UNCHANGED <<queue, arrived, held, replies, faults, Gone>> /\ at = "handle"
      /\ at' \in {"send", "delete"}
  BY DEF W!Handle, Gone
<1>2. CASE held \in Texts /\ done' = new
  <2>1. /\ new \in Seq(Texts) /\ DOMAIN new = 1..(Len(done) + 1) /\ new[Len(done) + 1] = held
        /\ \A i \in 1..Len(done) : new[i] = done[i]
    BY <1>2, Oldest, AppendLast DEF PollInv, PollTypes
  <2>2. held = arrived[Gone + 1] /\ held = queue[1] /\ queue # << >>
    BY <1>1, Oldest DEF PollInv, QueueIsRest
  <2>3. \A m : W!Times(m, new) = W!Times(m, done) + (IF held = m THEN 1 ELSE 0)
    BY <1>2, TimesAppend DEF PollInv, PollTypes
  <2> HIDE DEF new
  <2>4. PollTypes' /\ QueueIsRest'
    BY <1>1, <1>2, <2>1 DEF PollInv, PollTypes, QueueIsRest
  <2>5. DoneInOrder'
    <3>1. ASSUME NEW i \in DOMAIN new
          PROVE  \E k \in DOMAIN arrived : k <= Gone + 1 /\ new[i] = arrived[k]
      <4>1. CASE i \in 1..Len(done)
        BY <2>1, <4>1, Oldest DEF PollInv, DoneInOrder
      <4>2. CASE i = Len(done) + 1
        <5>1. Gone + 1 \in DOMAIN arrived /\ Gone + 1 <= Gone + 1 /\ new[i] = arrived[Gone + 1]
          BY <2>1, <2>2, <4>2, Oldest
        <5>2. QED
          BY <5>1
      <4>3. QED
        BY <2>1, <4>1, <4>2, Oldest
    <3>2. ASSUME NEW i \in DOMAIN new, NEW j \in DOMAIN new, NEW k \in DOMAIN arrived,
                 NEW l \in DOMAIN arrived, i < j, new[i] = arrived[k], new[j] = arrived[l]
          PROVE  k <= l
      <4>1. i \in 1..Len(done) /\ k <= Gone + 1
        BY <2>1, <3>1, <3>2, Oldest DEF PollInv, QueueIsRest
      <4>2. CASE j = Len(done) + 1
        BY <2>1, <2>2, <3>2, <4>1, <4>2, Oldest DEF PollInv, QueueIsRest
      <4>3. CASE j \in 1..Len(done)
        BY <2>1, <3>2, <4>1, <4>3, Oldest DEF PollInv, DoneInOrder
      <4>4. QED
        BY <2>1, <4>2, <4>3, Oldest
    <3>3. QED
      BY <1>1, <1>2, <3>1, <3>2 DEF DoneInOrder
  <2>6. DoneOnce'
    <3>1. W!Times(held, done) <= faults
      BY <1>1, <2>2 DEF PollInv, DoneOnce
    <3>2. \A m : W!Times(m, done) \in Nat /\ W!Times(m, replies) \in Nat
      BY TimesType DEF PollInv, PollTypes
    <3>3. QED
      BY <1>1, <1>2, <2>3, <3>1, <3>2 DEF PollInv, PollTypes, DoneOnce
  <2>7. QED
    BY <2>4, <2>5, <2>6 DEF PollInv
<1>3. CASE held \notin Texts /\ done' = done /\ at' = "delete"
  BY <1>1, <1>3 DEF PollInv, PollTypes, QueueIsRest, DoneInOrder, DoneOnce
<1>4. QED
  BY <1>2, <1>3 DEF W!Handle

LEMMA SendReplyInv == ASSUME PollInv, W!Send PROVE PollInv'
<1> DEFINE new == Append(replies, held)
<1>1. /\ UNCHANGED <<queue, arrived, held, done, faults, Gone>> /\ at = "send" /\ at' = "delete"
      /\ replies' = new \/ replies' = replies
      /\ held \in Texts
  BY DEF W!Send, Gone, PollInv, QueueIsRest
<1>2. /\ new \in Seq(Texts)
      /\ \A m : /\ W!Times(m, new) = W!Times(m, replies) + (IF held = m THEN 1 ELSE 0)
                /\ W!Times(m, replies) \in Nat /\ W!Times(m, done) \in Nat
  BY ZenonT(60), <1>1, TimesAppend, TimesType, AppendLast DEF PollInv, PollTypes
<1> HIDE DEF new
<1>3. PollTypes' /\ QueueIsRest' /\ DoneInOrder'
  BY <1>1, <1>2 DEF PollInv, PollTypes, QueueIsRest, DoneInOrder
<1>4. \A m \in Texts : W!Times(m, new) <= W!Times(m, done) /\ W!Times(m, replies) <= W!Times(m, done)
  BY <1>1, <1>2 DEF PollInv, DoneOnce
<1>5. DoneOnce'
  BY <1>1, <1>4 DEF PollInv, DoneOnce
<1>6. QED
  BY <1>3, <1>5 DEF PollInv

LEMMA DeleteInv == ASSUME PollInv, W!Delete PROVE PollInv'
<1> DEFINE rest == Tail(queue)
<1>1. /\ UNCHANGED <<arrived, held, done, replies, faults>> /\ at = "delete" /\ at' = "poll"
      /\ queue' = rest /\ queue # << >>
  BY DEF W!Delete, PollInv, QueueIsRest
<1>2. /\ rest \in Seq(Messages) /\ Len(rest) = Len(queue) - 1 /\ DOMAIN rest = 1..Len(rest)
      /\ \A i \in 1..Len(rest) : rest[i] = queue[i + 1]
  BY <1>1 DEF PollInv, PollTypes
<1> HIDE DEF rest
<1>3. Gone' = Gone + 1
  BY <1>1, <1>2, Oldest DEF Gone
<1>4. PollTypes'
  BY <1>1, <1>2 DEF PollInv, PollTypes
<1>5. QueueIsRest'
  <2>1. ASSUME NEW i \in DOMAIN rest PROVE rest[i] = arrived[Gone + 1 + i]
    <3>1. i \in 1..Len(rest) /\ rest[i] = queue[i + 1] /\ i \in Nat
      BY <1>2, <2>1
    <3>2. i + 1 \in 1..Len(queue) /\ DOMAIN queue = 1..Len(queue) /\ Gone \in Nat
      BY <1>2, <3>1, Oldest
    <3>3. Gone + (i + 1) = Gone + 1 + i
      BY <3>1, <3>2
    <3>4. QED
      BY <3>1, <3>2, <3>3 DEF PollInv, QueueIsRest
  <2>2. Len(rest) <= Len(arrived)
    BY <1>2, Oldest
  <2>3. QED
    BY <1>1, <1>3, <2>1, <2>2 DEF PollInv, QueueIsRest
<1>6. DoneInOrder'
  BY <1>1, <1>3, Oldest DEF PollInv, DoneInOrder
<1>7. DoneOnce'
  <2>1. ASSUME rest # << >> PROVE W!Times(rest[1], done) = 0
    <3>1. /\ 1 \in 1..Len(rest) /\ 2 \in DOMAIN queue
          /\ rest[1] = queue[2] /\ Gone + 2 \in DOMAIN arrived
      <4>1. Len(rest) \in Nat /\ Len(rest) # 0
        BY <1>2, <2>1
      <4>2. QED
        BY <1>2, <4>1, Oldest
    <3>2. rest[1] = arrived[Gone + 2]
      BY <3>1 DEF PollInv, QueueIsRest
    <3>3. QED
      BY <3>1, <3>2, Unhandled, Oldest DEF PollInv, QueueIsRest
  <2>2. QED
    BY <1>1, <2>1 DEF PollInv, PollTypes, DoneOnce
<1>8. QED
  BY <1>4, <1>5, <1>6, <1>7 DEF PollInv

\* A failed deletion or a crash has the oldest handled once more.
LEMMA FaultInv == ASSUME PollInv, W!DeleteFails \/ W!Crash PROVE PollInv'
<1>1. /\ UNCHANGED <<queue, arrived, held, done, replies, Gone>> /\ at' = "poll"
      /\ faults' = faults + 1
  BY DEF W!DeleteFails, W!Crash, Gone
<1>2. PollTypes' /\ QueueIsRest' /\ DoneInOrder'
  BY <1>1 DEF PollInv, PollTypes, QueueIsRest, DoneInOrder
<1>3. DoneOnce'
  <2>1. \A m : W!Times(m, done) \in Nat
    BY TimesType DEF PollInv, PollTypes
  <2>2. queue # << >> => W!Times(queue[1], done) <= 1 + faults
    <3>1. CASE queue[1] \in Texts
      BY <3>1 DEF PollInv, DoneOnce
    <3>2. CASE queue[1] \notin Texts
      <4>1. \A i \in DOMAIN done : done[i] \in Texts
        BY DEF PollInv, PollTypes
      <4>2. W!Times(queue[1], done) = 0
        BY <3>2, <4>1, TimesType DEF PollInv, PollTypes
      <4>3. QED
        BY <4>2 DEF PollInv, PollTypes
    <3>3. QED
      BY <3>1, <3>2
  <2>3. QED
    BY <1>1, <2>1, <2>2 DEF PollInv, PollTypes, DoneOnce
<1>4. QED
  BY <1>2, <1>3 DEF PollInv

LEMMA NextPollInv == PollInv /\ [ChannelsNext]_<<channel, vars, wVars, tVars>> => PollInv'
<1>1. SUFFICES ASSUME PollInv, [ChannelsNext]_<<channel, vars, wVars, tVars>> PROVE PollInv'
  OBVIOUS
<1>2. CASE W!Next
  <2>1. ASSUME NEW m \in Messages, W!Arrive(m) PROVE PollInv'
    BY <1>1, <2>1, ArriveInv
  <2>2. ASSUME W!Poll PROVE PollInv'
    BY <1>1, <2>2, ReceiveInv, HandleInv, SendReplyInv, DeleteInv DEF W!Poll
  <2>3. QED
    BY <1>1, <1>2, <2>1, <2>2, FaultInv DEF W!Next
<1>3. CASE UNCHANGED wVars
  <2>1. UNCHANGED <<queue, arrived, at, held, done, replies, faults, Gone>>
    BY <1>3 DEF wVars, Gone
  <2>2. PollTypes' /\ QueueIsRest' /\ DoneInOrder'
    BY <1>1, <2>1 DEF PollInv, PollTypes, QueueIsRest, DoneInOrder
  <2>3. DoneOnce'
    BY <1>1, <2>1 DEF PollInv, DoneOnce
  <2>4. QED
    BY <2>2, <2>3 DEF PollInv
<1>4. QED
  BY <1>1, <1>2, <1>3 DEF ChannelsNext

\* WhatsApp's messages are handled in the order they arrived, redelivered ones
\* included, and each is handled and answered once, and once more at most for
\* every crash and every failed deletion, for any notifications and faults
\* (whatsapp.go's polling loop).
THEOREM MessagesTakeTurns == ChannelsSpec => []InTurn
<1>1. ChannelsInit => PollInv
  BY PollInitInv DEF ChannelsInit
<1>2. PollInv => W!DuplicatesBounded
  BY DEF PollInv, DoneOnce, W!DuplicatesBounded
<1>3. PollInv => W!InOrder
  <2>1. SUFFICES ASSUME PollInv, NEW i \in DOMAIN done, NEW j \in DOMAIN done, i < j
                 PROVE  W!First(done[i], arrived) <= W!First(done[j], arrived)
    BY DEF W!InOrder
  <2>2. PICK k \in DOMAIN arrived : done[i] = arrived[k]
    BY <2>1 DEF PollInv, DoneInOrder
  <2>3. PICK l \in DOMAIN arrived : done[j] = arrived[l]
    BY <2>1 DEF PollInv, DoneInOrder
  <2>4. W!First(done[i], arrived) = k /\ W!First(done[j], arrived) = l
    BY <2>1, <2>2, <2>3, FirstIs DEF PollInv, QueueIsRest
  <2>5. k <= l
    BY <2>1, <2>2, <2>3 DEF PollInv, DoneInOrder
  <2>6. QED
    BY <2>4, <2>5
<1>4. PollInv => InTurn
  BY <1>2, <1>3 DEF InTurn
<1>5. QED
  BY <1>1, <1>4, NextPollInv, PTL DEF ChannelsSpec

-----------------------------------------------------------------------------
(* The terminal: sequences of sequences, and what is read from the file of  *)
(* inputs.                                                                  *)

\* A set of numbers has a least one.
LEMMA Least == ASSUME NEW V \in SUBSET Nat, V # {} PROVE \E x \in V : \A y \in V : x <= y
<1> DEFINE Less == OpToRel(<, Nat)
<1>1. IsWellFoundedOn(Less, Nat)
  BY NatLessThanWellFounded
<1>2. Less = {ss \in Nat \X Nat : ss[1] < ss[2]}
  BY DEF OpToRel
<1>3. \A x, y \in Nat : <<y, x>> \in Less <=> y < x
  BY <1>2
<1> HIDE DEF Less
<1>4. \E x \in V : \A y \in V : ~ (<<y, x>> \in Less)
  BY <1>1, WFMin
<1>5. PICK x \in V : \A y \in V : ~ (<<y, x>> \in Less)
  BY <1>4
<1>6. ASSUME NEW y \in V PROVE x <= y
  <2>1. x \in Nat /\ y \in Nat
    OBVIOUS
  <2>2. ~ (y < x)
    BY <1>3, <1>5, <2>1, Zenon
  <2>3. QED
    BY <2>1, <2>2
<1>7. QED
  BY <1>6


\* The sequences of fs one behind the other, up to the first n of them
Joins(f, n, fs) == f = [i \in 1..n |-> IF i = 1 THEN fs[i] ELSE f[i - 1] \o fs[i]]
EndsWith(s, t) == Len(s) <= Len(t) /\ \A i \in 1..Len(s) : t[Len(t) - Len(s) + i] = s[i]

LEMMA JoinExists == ASSUME NEW fs, NEW n \in Nat PROVE \E f : Joins(f, n, fs)
<1> DEFINE Bad == {k \in Nat : ~ \E f : Joins(f, k, fs)}
<1>1. CASE Bad # {}
  <2>1. PICK m \in Bad : \A k \in Bad : m <= k
    <3>1. Bad \in SUBSET Nat
      OBVIOUS
    <3>2. QED
      BY <1>1, <3>1, Least
  <2>2. m # 0
    <3>1. PICK f : f = [i \in 1..0 |-> 0]
      OBVIOUS
    <3>2. Joins(f, 0, fs)
      BY <3>1 DEF Joins
    <3>3. QED
      BY <2>1, <3>2
  <2>3. m \in Nat /\ m - 1 \in Nat /\ ~ (m <= m - 1)
    BY <2>1, <2>2
  <2>4. PICK g : Joins(g, m - 1, fs)
    BY <2>1, <2>3
  <2>5. PICK f : f = [i \in 1..m |-> IF i = 1 THEN fs[i] ELSE g[i - 1] \o fs[i]]
    OBVIOUS
  <2>6. ASSUME NEW i \in 1..m, i # 1 PROVE f[i - 1] = g[i - 1]
    <3>1. i - 1 \in 1..(m - 1) /\ i - 1 \in 1..m
      BY <2>3, <2>6
    <3>2. f[i - 1] = IF i - 1 = 1 THEN fs[i - 1] ELSE g[i - 1 - 1] \o fs[i - 1]
      BY <2>5, <3>1
    <3>3. g[i - 1] = IF i - 1 = 1 THEN fs[i - 1] ELSE g[i - 1 - 1] \o fs[i - 1]
      BY <2>4, <3>1 DEF Joins
    <3>4. QED
      BY <3>2, <3>3, Zenon
  <2>7. f = [i \in 1..m |-> IF i = 1 THEN fs[i] ELSE f[i - 1] \o fs[i]]
    BY <2>5, <2>6
  <2>8. Joins(f, m, fs)
    BY <2>7 DEF Joins
  <2>9. QED
    BY <2>1, <2>8
<1>2. QED
  BY <1>1

LEMMA Behind ==
    ASSUME NEW S, NEW s \in Seq(S), NEW t \in Seq(S)
    PROVE  s \o t \in Seq(S) /\ EndsWith(t, s \o t)
<1>1. PICK u, m, n : u = s \o t /\ m = Len(s) /\ n = Len(t)
  OBVIOUS
<1>2. m \in Nat /\ n \in Nat /\ u \in Seq(S) /\ Len(u) = m + n
  BY <1>1
<1>3. \A i \in 1..n : u[m + i] = t[i]
  BY <1>1
<1>4. \A i \in 1..n : Len(u) - n + i = m + i
  BY <1>2
<1>5. QED
  BY <1>1, <1>2, <1>3, <1>4 DEF EndsWith

LEMMA FlatIs ==
    ASSUME NEW S, NEW fs \in Seq(Seq(S))
    PROVE  T!FlattenSeq(fs) \in Seq(S) /\ (fs # << >> => EndsWith(fs[Len(fs)], T!FlattenSeq(fs)))
<1>1. CASE fs = << >>
  <2>1. Len(fs) = 0 /\ fs \in Seq(S)
    BY <1>1
  <2>2. T!FlattenSeq(fs) = fs
    BY <2>1 DEF T!FlattenSeq
  <2>3. QED
    BY <1>1, <2>1, <2>2
<1>2. CASE fs # << >>
  <2> DEFINE flat == CHOOSE f : f = [i \in 1..Len(fs) |-> IF i = 1 THEN fs[i] ELSE f[i - 1] \o fs[i]]
  <2>1. PICK n \in Nat : n = Len(fs) /\ n > 0 /\ \A i \in 1..n : fs[i] \in Seq(S)
    BY <1>2
  <2>2. T!FlattenSeq(fs) = flat[n]
    BY <2>1 DEF T!FlattenSeq
  <2>3. Joins(flat, n, fs)
    <3>1. PICK f : f = [i \in 1..Len(fs) |-> IF i = 1 THEN fs[i] ELSE f[i - 1] \o fs[i]]
      <4>1. PICK f : Joins(f, n, fs)
        BY JoinExists
      <4>2. f = [i \in 1..Len(fs) |-> IF i = 1 THEN fs[i] ELSE f[i - 1] \o fs[i]]
        BY <2>1, <4>1 DEF Joins
      <4>3. QED
        BY <4>2
    <3>2. flat = [i \in 1..Len(fs) |-> IF i = 1 THEN fs[i] ELSE flat[i - 1] \o fs[i]]
      BY <3>1
    <3>3. QED
      BY <2>1, <3>2 DEF Joins
  <2> HIDE DEF flat
  <2>4. \A i \in 1..n : flat[i] = IF i = 1 THEN fs[i] ELSE flat[i - 1] \o fs[i]
    BY <2>3 DEF Joins
  <2>5. \A k \in Nat : k \in 1..n => flat[k] \in Seq(S)
    <3> DEFINE Bad == {k \in Nat : k \in 1..n /\ flat[k] \notin Seq(S)}
    <3>1. CASE Bad # {}
      <4>1. PICK m \in Bad : \A k \in Bad : m <= k
        <5>1. Bad \in SUBSET Nat
          OBVIOUS
        <5>2. QED
          BY <3>1, <5>1, Least
      <4>2. CASE m = 1
        BY <2>1, <2>4, <4>1, <4>2
      <4>3. CASE m # 1
        <5>1. m - 1 \in 1..n /\ m - 1 \in Nat /\ ~ (m <= m - 1) /\ m \in 1..n
          BY <4>1, <4>3
        <5>2. flat[m - 1] \in Seq(S)
          BY <4>1, <5>1
        <5>3. flat[m] = flat[m - 1] \o fs[m] /\ fs[m] \in Seq(S)
          BY <2>1, <2>4, <4>3, <5>1
        <5>4. flat[m] \in Seq(S)
          BY <5>2, <5>3, Behind
        <5>5. QED
          BY <4>1, <5>4
      <4>4. QED
        BY <4>2, <4>3
    <3>2. QED
      BY <3>1
  <2>6. flat[n] \in Seq(S)
    BY <2>1, <2>5
  <2>7. EndsWith(fs[n], flat[n])
    <3>1. CASE n = 1
      <4>1. flat[n] = fs[n] /\ fs[n] \in Seq(S)
        BY <2>1, <2>4, <3>1
      <4>2. \A s : s \in Seq(S) => EndsWith(s, s)
        BY DEF EndsWith
      <4>3. QED
        BY <4>1, <4>2
    <3>2. CASE n # 1
      <4>1. n \in 1..n /\ n - 1 \in 1..n /\ n - 1 \in Nat
        BY <2>1, <3>2
      <4>2. flat[n] = flat[n - 1] \o fs[n] /\ fs[n] \in Seq(S) /\ flat[n - 1] \in Seq(S)
        BY <2>1, <2>4, <2>5, <3>2, <4>1
      <4>3. QED
        BY <4>2, Behind
    <3>3. QED
      BY <3>1, <3>2
  <2>8. QED
    BY <2>1, <2>2, <2>6, <2>7
<1>3. QED
  BY <1>1, <1>2

LEMMA SuffixIs ==
    ASSUME NEW S, NEW s \in Seq(S), NEW t \in Seq(S), EndsWith(s, t)
    PROVE  T!IsSuffix(s, t)
<1>1. PICK m, n : m = Len(s) /\ n = Len(t)
  OBVIOUS
<1>2. m \in Nat /\ n \in Nat /\ m <= n /\ \A i \in 1..m : t[n - m + i] = s[i]
  <2>1. m \in Nat /\ n \in Nat
    BY <1>1
  <2>2. QED
    BY <1>1, <2>1 DEF EndsWith
<1>3. PICK q, r : q = [i \in 1..m |-> s[(m - i) + 1]] /\ r = [i \in 1..n |-> t[(n - i) + 1]]
  OBVIOUS
<1>4. T!Reverse(s) = q /\ T!Reverse(t) = r
  BY <1>1, <1>3 DEF T!Reverse
<1>5. q \in Seq(S) /\ r \in Seq(S) /\ Len(q) = m /\ Len(r) = n
  <2>1. \A i \in 1..m : s[(m - i) + 1] \in S
    BY <1>1, <1>2
  <2>2. \A i \in 1..n : t[(n - i) + 1] \in S
    BY <1>1, <1>2
  <2>3. q \in [1..m -> S] /\ r \in [1..n -> S]
    BY <1>3, <2>1, <2>2
  <2>4. QED
    BY <1>2, <2>3
<1>6. \A i \in 1..m : q[i] = r[i]
  <2>1. ASSUME NEW i \in 1..m PROVE q[i] = r[i]
    <3>1. m - i + 1 \in 1..m /\ n - m + (m - i + 1) = (n - i) + 1 /\ i \in 1..n
      BY <1>2
    <3>2. t[(n - i) + 1] = s[m - i + 1]
      BY <1>2, <3>1
    <3>3. QED
      BY <1>3, <3>1, <3>2
  <2>2. QED
    BY <2>1
<1>7. SubSeq(r, 1, m) = [i \in 1..m |-> r[i]]
  BY <1>2, <1>5
<1>8. q = [i \in 1..m |-> r[i]]
  BY <1>3, <1>6
<1>9. T!IsPrefix(q, r)
  BY <1>2, <1>5, <1>7, <1>8 DEF T!IsPrefix
<1>10. QED
  BY <1>4, <1>9 DEF T!IsSuffix

\* Texts of one line: what the lines of a file are
OneLiners == {t \in Typed : LinesOf[t] = <<t>>}

LEMMA Bounds == HistorySize \in Nat \ {0} /\ MaxTyped \in Nat /\ MaxStarts \in Nat
<1>1. T!TerminalAssumption
  BY ChannelsAssumption
<1>2. QED
  BY <1>1, Zenon DEF T!TerminalAssumption

LEMMA TypedLines == ASSUME NEW t \in Typed PROVE LinesOf[t] \in Seq(OneLiners) /\ LinesOf[t] # << >>
<1>1. T!TerminalAssumption
  BY ChannelsAssumption
<1>2. LinesOf[t] \in Seq({s \in Typed : LinesOf[s] = <<s>>}) \ {<< >>}
  BY <1>1, Zenon DEF T!TerminalAssumption
<1>3. QED
  BY <1>2 DEF OneLiners

LEMMA Commands ==
    /\ T!Blank \notin Typed /\ CompletionsOf \in [Typed -> Seq(Typed)]
    /\ "default" \in Named /\ \A t \in Typed : CommandOf[t].name = "agent" => CommandOf[t].arg \in Named \cup {T!Blank}
<1>1. T!TerminalAssumption
  BY ChannelsAssumption
<1>2. QED
  BY <1>1, Zenon DEF T!TerminalAssumption

LEMMA IsSequence == ASSUME NEW S, NEW n \in Nat, NEW f \in [1..n -> S] PROVE f \in Seq(S) /\ Len(f) = n
OBVIOUS

\* The last of the entries are kept.
LEMMA KeptIs ==
    ASSUME NEW S, NEW es \in Seq(S)
    PROVE  /\ T!Kept(es) \in Seq(S) /\ Len(T!Kept(es)) <= HistorySize
           /\ es # << >> => T!Kept(es) # << >> /\ T!Kept(es)[Len(T!Kept(es))] = es[Len(es)]
           /\ \A s \in Seq(S) : EndsWith(s, es) /\ Len(s) <= HistorySize => EndsWith(s, T!Kept(es))
<1>1. PICK n, k : n = Len(es) /\ k = T!Kept(es)
  OBVIOUS
<1>2. n \in Nat /\ HistorySize \in Nat \ {0}
  BY <1>1, Bounds
<1>3. CASE n <= HistorySize
  <2>1. k = es
    BY <1>1, <1>3 DEF T!Kept
  <2>2. QED
    BY <1>1, <1>3, <2>1
<1>4. CASE ~ (n <= HistorySize)
  <2>1. k = SubSeq(es, n - HistorySize + 1, n)
    BY <1>1, <1>4 DEF T!Kept
  <2>2. n - HistorySize \in Nat /\ n - HistorySize + 1 \in 1..n
    BY <1>2, <1>4
  <2>3. /\ k \in Seq(S) /\ Len(k) = HistorySize
        /\ \A i \in 1..HistorySize : k[i] = es[n - HistorySize + i]
    <3>1. k = [i \in 1..HistorySize |-> es[n - HistorySize + i]]
      <4>1. n - (n - HistorySize + 1) + 1 = HistorySize
        BY <1>2
      <4>2. k = [i \in 1..HistorySize |-> es[i + (n - HistorySize + 1) - 1]]
        BY <1>1, <1>2, <2>1, <2>2, <4>1
      <4>3. \A i \in 1..HistorySize : i + (n - HistorySize + 1) - 1 = n - HistorySize + i
        BY <1>2
      <4>4. QED
        BY <4>2, <4>3
    <3>2. \A i \in 1..HistorySize : es[n - HistorySize + i] \in S
      BY <1>1, <1>2, <2>2
    <3>3. k \in [1..HistorySize -> S]
      BY <3>1, <3>2
    <3>4. k \in Seq(S) /\ Len(k) = HistorySize
      BY <1>2, <3>3, IsSequence
    <3>5. QED
      BY <3>1, <3>4
  <2>4. k # << >> /\ k[HistorySize] = es[n]
    <3>1. HistorySize \in 1..HistorySize /\ n - HistorySize + HistorySize = n
      BY <1>2
    <3>2. k[HistorySize] = es[n]
      BY <2>3, <3>1
    <3>3. Len(k) # 0
      BY <1>2, <2>3
    <3>4. QED
      BY <3>2, <3>3
  <2>5. ASSUME NEW s \in Seq(S), EndsWith(s, es), Len(s) <= HistorySize PROVE EndsWith(s, k)
    <3>1. PICK m \in Nat : m = Len(s)
      OBVIOUS
    <3>2. \A i \in 1..m : es[n - m + i] = s[i]
      BY <1>1, <2>5, <3>1 DEF EndsWith
    <3>3. ASSUME NEW i \in 1..m PROVE k[HistorySize - m + i] = s[i]
      <4>1. HistorySize - m + i \in 1..HistorySize /\ n - HistorySize + (HistorySize - m + i) = n - m + i
        BY <1>2, <2>5, <3>1
      <4>2. k[HistorySize - m + i] = es[n - HistorySize + (HistorySize - m + i)]
        BY <2>3, <4>1
      <4>3. QED
        BY <3>2, <4>1, <4>2
    <3>4. QED
      BY <2>3, <2>5, <3>1, <3>3 DEF EndsWith
  <2>6. QED
    BY <1>1, <1>2, <2>3, <2>4, <2>5
<1>5. QED
  BY <1>3, <1>4

\* Whether the file ends with the lines of t, or cannot
Recalled(t, f) == T!IsSuffix(LinesOf[t], T!Load(f)) \/ Len(LinesOf[t]) > HistorySize

LEMMA LoadIs ==
    ASSUME NEW f \in Seq(Typed)
    PROVE  /\ T!Load(f) \in Seq(OneLiners) /\ T!Load(f) \in Seq(Typed) /\ Len(T!Load(f)) <= HistorySize
           /\ f # << >> => Recalled(f[Len(f)], f)
           /\ T!Load(f) # << >> => Recalled(T!Load(f)[Len(T!Load(f))], f)
<1>1. PICK ls : ls = [i \in DOMAIN f |-> LinesOf[f[i]]]
  OBVIOUS
<1>2. PICK flat : flat = T!FlattenSeq(ls)
  OBVIOUS
<1>3. T!Load(f) = T!Kept(flat)
  BY <1>1, <1>2 DEF T!Load
<1>4. /\ ls \in Seq(Seq(OneLiners)) /\ Len(ls) = Len(f)
      /\ f # << >> => ls # << >> /\ ls[Len(ls)] = LinesOf[f[Len(f)]] /\ f[Len(f)] \in Typed
  <2>1. PICK n \in Nat : n = Len(f) /\ DOMAIN f = 1..n /\ \A i \in 1..n : f[i] \in Typed
    OBVIOUS
  <2>2. ls \in [1..n -> Seq(OneLiners)]
    BY <1>1, <2>1, TypedLines
  <2>3. ls \in Seq(Seq(OneLiners)) /\ Len(ls) = n
    BY <2>2, IsSequence
  <2>4. ASSUME f # << >> PROVE ls # << >> /\ ls[n] = LinesOf[f[n]] /\ f[n] \in Typed
    <3>1. n # 0
      BY <2>1, <2>4
    <3>2. n \in 1..n
      BY <2>1, <3>1
    <3>3. QED
      BY <1>1, <2>1, <2>3, <3>1, <3>2
  <2>5. QED
    BY <2>1, <2>3, <2>4
<1>5. flat \in Seq(OneLiners) /\ (f # << >> => EndsWith(LinesOf[f[Len(f)]], flat))
  BY <1>2, <1>4, FlatIs
<1>6. /\ T!Load(f) \in Seq(OneLiners) /\ Len(T!Load(f)) <= HistorySize
      /\ \A s \in Seq(OneLiners) : EndsWith(s, flat) /\ Len(s) <= HistorySize => EndsWith(s, T!Load(f))
  BY <1>3, <1>5, KeptIs
<1>7. ASSUME NEW t \in Typed, EndsWith(LinesOf[t], T!Load(f)) PROVE Recalled(t, f)
  BY <1>6, <1>7, TypedLines, SuffixIs DEF Recalled
<1>8. ASSUME f # << >> PROVE Recalled(f[Len(f)], f)
  <2>1. PICK t \in Typed : t = f[Len(f)] /\ EndsWith(LinesOf[t], flat)
    BY <1>4, <1>5, <1>8
  <2>2. LinesOf[t] \in Seq(OneLiners)
    BY TypedLines
  <2>3. Len(LinesOf[t]) \in Nat /\ HistorySize \in Nat
    BY <2>2, Bounds
  <2>4. CASE Len(LinesOf[t]) <= HistorySize
    BY <1>6, <1>7, <2>1, <2>2, <2>4
  <2>5. CASE ~ (Len(LinesOf[t]) <= HistorySize)
    BY <2>1, <2>3, <2>5 DEF Recalled
  <2>6. QED
    BY <2>4, <2>5
<1>9. ASSUME T!Load(f) # << >> PROVE Recalled(T!Load(f)[Len(T!Load(f))], f)
  <2>1. PICK es, n : es = T!Load(f) /\ n = Len(es)
    OBVIOUS
  <2>2. n \in Nat /\ n # 0 /\ n \in 1..n /\ es[n] \in OneLiners
    BY <1>6, <1>9, <2>1
  <2>3. PICK t \in Typed : t = es[n] /\ LinesOf[t] = <<t>>
    BY <2>2 DEF OneLiners
  <2>4. EndsWith(<<t>>, es)
    <3>1. Len(<<t>>) = 1 /\ \A i \in 1..1 : n - 1 + i = n /\ <<t>>[i] = t
      BY <2>2
    <3>2. QED
      BY <2>1, <2>2, <2>3, <3>1 DEF EndsWith
  <2>5. QED
    BY <1>7, <2>1, <2>3, <2>4
<1>10. T!Load(f) \in Seq(Typed)
  BY <1>6 DEF OneLiners
<1>11. QED
  BY <1>6, <1>8, <1>9, <1>10

-----------------------------------------------------------------------------
(* The terminal's screen, session and history.                              *)

Words == Typed \cup {T!Blank, "text", "none", "error", "usage"}
Pieces == [turn : Nat, n : Nat]
ScreenEntry == [role : {"user", "assistant", "system", "error"}, text : Words, parts : Seq(Pieces)]
Replied == [turn : Nat, parts : Seq(Pieces)]

ScreenTypes ==
    /\ prompt \in {"idle", "streaming", "quit"}
    /\ screen \in Seq(ScreenEntry) /\ buffer \in Seq(Pieces)
    /\ session \in Seq(Replied) /\ disk \in Seq(Replied)
    /\ reply \in [at : {"none", "running", "saved"}, parts : Seq(Pieces)]
    /\ asked \in 0..inputs /\ inputs \in 0..MaxTyped /\ restarts \in 0..MaxStarts
    /\ active \in Named

\* A text is what stands behind the last line break of what is shown.
Ends(all, text) ==
    /\ EndsWith(text, all)
    /\ \A i \in DOMAIN text : text[i].n # 0
    /\ Len(text) < Len(all) => all[Len(all) - Len(text)].n = 0

\* The replies of a session are of one turn after the other, each before turn n.
Rising(se, n) ==
    /\ \A r, q \in DOMAIN se : r < q => se[r].turn < se[q].turn
    /\ \A r \in DOMAIN se : se[r].turn < n

SessionInv ==
    /\ Rising(session, asked + 1) /\ Rising(disk, asked + 1)
    /\ reply.at = "running" => Rising(session, asked) /\ Rising(disk, asked)

\* What streams is the answer under way, which the session may have already.
ReplyInv ==
    /\ prompt = "idle" => reply.at = "none" /\ buffer = << >>
    /\ prompt = "streaming" =>
          /\ reply.at # "none" /\ Ends(buffer, reply.parts) /\ \A i \in DOMAIN buffer : buffer[i].turn = asked
          /\ reply.at = "saved" => /\ session # << >> /\ session[Len(session)].turn = asked
                                   /\ session[Len(session)].parts = reply.parts

\* The answers on a screen are of one turn after the other, each before turn n.
AnswersOn(sc) == {i \in DOMAIN sc : sc[i].role = "assistant"}
TurnAt(sc, a) == sc[a].parts[1].turn
Ordered(sc, n) ==
    /\ \A a, b \in AnswersOn(sc) : a < b => TurnAt(sc, a) < TurnAt(sc, b)
    /\ \A a \in AnswersOn(sc) :
          /\ sc[a].parts # << >> /\ TurnAt(sc, a) < n
          /\ \A i \in DOMAIN sc[a].parts : sc[a].parts[i].turn = TurnAt(sc, a)

\* Answers and replies of the same turns, but for those before the others begin
\* and, if one is pending, the last reply.
Alike(sc, se) ==
    \A a \in AnswersOn(sc), r \in DOMAIN se :
        se[r].turn = TurnAt(sc, a) => Ends(sc[a].parts, se[r].parts)
AllSaved(sc, se) ==
    \A a \in AnswersOn(sc) :
        \/ \E r \in DOMAIN se : se[r].turn = TurnAt(sc, a)
        \/ \A r \in DOMAIN se : TurnAt(sc, a) < se[r].turn
AllShown(sc, se, pending) ==
    \A r \in DOMAIN se :
        \/ se[r].parts = << >>
        \/ \E a \in AnswersOn(sc) : TurnAt(sc, a) = se[r].turn
        \/ \A a \in AnswersOn(sc) : se[r].turn < TurnAt(sc, a)
        \/ pending /\ r = Len(se)
Fits(sc, se, n, pending) == Ordered(sc, n) /\ Alike(sc, se) /\ AllSaved(sc, se) /\ AllShown(sc, se, pending)

ScreenInv ==
    /\ prompt = "idle" => Fits(screen, session, asked + 1, FALSE)
    /\ prompt = "streaming" => Fits(screen, session, asked, reply.at = "saved")

LineTypes ==
    /\ input \in Typed \cup {T!Blank}
    /\ tab \in [index : Nat, matches : Seq(Typed)] /\ tab.index <= Len(tab.matches)
    /\ tab.index # 0 => input = tab.matches[tab.index]

HistoryInv ==
    /\ entries \in Seq(Typed) /\ file \in Seq(Typed) /\ Len(entries) <= HistorySize
    /\ cursor \in 1..(Len(entries) + 1) /\ typed \in Typed \cup {T!Blank} /\ kept \in BOOLEAN
    /\ typed # T!Blank => entries # << >> /\ entries[Len(entries)] = typed
    /\ kept => file = entries \/ entries = T!Load(file)
    /\ kept /\ typed # T!Blank => Recalled(typed, file)

TerminalInv == ScreenTypes /\ SessionInv /\ ReplyInv /\ ScreenInv /\ LineTypes /\ HistoryInv

LEMMA TerminalInit == ASSUME T!Init PROVE TerminalInv
<1>1. /\ prompt = "idle" /\ input = T!Blank /\ tab = [index |-> 0, matches |-> << >>]
      /\ screen = << >> /\ buffer = << >> /\ file = << >> /\ entries = T!Load(file)
      /\ cursor = Len(entries) + 1 /\ active = "default" /\ session = << >> /\ disk = << >>
      /\ reply = [at |-> "none", parts |-> << >>] /\ asked = 0 /\ typed = T!Blank /\ kept = TRUE
      /\ inputs = 0 /\ restarts = 0
  BY DEF T!Init, T!NoTab
<1>2. ScreenTypes
  BY <1>1, Bounds, Commands DEF ScreenTypes
<1>3. ReplyInv
  BY <1>1 DEF ReplyInv
<1>4. SessionInv /\ ScreenInv
  BY <1>1 DEF SessionInv, Rising, ScreenInv, Fits, Ordered, Alike, AllSaved, AllShown, AnswersOn
<1>5. LineTypes
  BY <1>1 DEF LineTypes
<1>6. HistoryInv
  <2>1. file \in Seq(Typed)
    BY <1>1
  <2>2. entries \in Seq(Typed) /\ Len(entries) <= HistorySize /\ Len(entries) \in Nat
    <3>1. T!Load(file) \in Seq(Typed) /\ Len(T!Load(file)) <= HistorySize
      BY <2>1, LoadIs
    <3>2. entries \in Seq(Typed) /\ Len(entries) <= HistorySize
      BY <1>1, <3>1
    <3>3. QED
      BY <3>2
  <2>3. cursor \in 1..(Len(entries) + 1)
    BY <1>1, <2>2
  <2>4. QED
    BY <1>1, <2>1, <2>2, <2>3 DEF HistoryInv
<1>7. QED
  BY <1>2, <1>3, <1>4, <1>5, <1>6 DEF TerminalInv

-----------------------------------------------------------------------------
(* What keeps screen and session together.                                  *)

\* A session's turns are numbers, so one that rises below n does below n + 1.
LEMMA TurnsIn ==
    ASSUME NEW se \in Seq(Replied)
    PROVE  /\ \A r \in DOMAIN se : se[r].turn \in Nat
           /\ \A n \in Nat : Rising(se, n) => Rising(se, n + 1)
<1>1. \A r \in DOMAIN se : se[r] \in Replied
  OBVIOUS
<1>2. \A r \in DOMAIN se : se[r].turn \in Nat
  BY <1>1 DEF Replied
<1>3. ASSUME NEW n \in Nat, Rising(se, n) PROVE \A r \in DOMAIN se : se[r].turn < n + 1
  BY <1>2, <1>3 DEF Rising
<1>4. QED
  BY <1>2, <1>3 DEF Rising

\* An entry that is no answer changes no answer.
LEMMA OtherEntry ==
    ASSUME NEW sc \in Seq(ScreenEntry), NEW e \in ScreenEntry, e.role # "assistant", NEW se, NEW n, NEW pending,
           Fits(sc, se, n, pending)
    PROVE  Append(sc, e) \in Seq(ScreenEntry) /\ Fits(Append(sc, e), se, n, pending)
<1>1. PICK m \in Nat : m = Len(sc) /\ DOMAIN sc = 1..m
  OBVIOUS
<1>2. PICK sc1 : sc1 = Append(sc, e)
  OBVIOUS
<1>3. sc1 \in Seq(ScreenEntry) /\ DOMAIN sc1 = 1..(m + 1) /\ sc1[m + 1] = e /\ \A i \in 1..m : sc1[i] = sc[i]
  BY <1>1, <1>2
<1>4. AnswersOn(sc1) = AnswersOn(sc) /\ \A a \in AnswersOn(sc) : sc1[a] = sc[a]
  BY <1>1, <1>3 DEF AnswersOn
<1>5. \A a \in AnswersOn(sc) : TurnAt(sc1, a) = TurnAt(sc, a)
  BY <1>4 DEF TurnAt
<1>6. Ordered(sc1, n)
  BY <1>4, <1>5 DEF Fits, Ordered
<1>7. Alike(sc1, se) /\ AllSaved(sc1, se) /\ AllShown(sc1, se, pending)
  BY <1>4, <1>5 DEF Fits, Alike, AllSaved, AllShown
<1>8. QED
  BY <1>2, <1>3, <1>6, <1>7 DEF Fits

\* Nothing is said of an empty screen, and of an empty session only that its
\* screen is in order.
LEMMA NothingThere ==
    ASSUME NEW sc, NEW se, NEW n, NEW pending
    PROVE  Fits(<< >>, se, n, pending) /\ (Ordered(sc, n) => Fits(sc, << >>, n, pending))
BY DEF Fits, Ordered, Alike, AllSaved, AllShown, AnswersOn

-----------------------------------------------------------------------------
(* The steps of the terminal.                                               *)

LEMMA ScreenStays ==
    ASSUME ScreenTypes, SessionInv, ReplyInv, ScreenInv,
           UNCHANGED <<prompt, screen, buffer, session, disk, reply, asked, active>>,
           inputs' \in inputs..MaxTyped, UNCHANGED restarts
    PROVE  ScreenTypes' /\ SessionInv' /\ ReplyInv' /\ ScreenInv'
<1>1. ScreenTypes'
  BY DEF ScreenTypes
<1>2. SessionInv' /\ ReplyInv'
  BY DEF SessionInv, ReplyInv
<1>3. ScreenInv'
  BY DEF ScreenInv
<1>4. QED
  BY <1>1, <1>2, <1>3

LEMMA HistoryStays ==
    ASSUME HistoryInv, UNCHANGED <<entries, file, typed, kept>>, cursor' \in 1..(Len(entries) + 1)
    PROVE  HistoryInv'
BY DEF HistoryInv, Recalled

LEMMA KeyInv ==
    ASSUME TerminalInv, UNCHANGED <<prompt, screen, buffer, session, disk, reply, asked, active, inputs, restarts>>,
           UNCHANGED <<entries, file, typed, kept>>, cursor' \in 1..(Len(entries) + 1), LineTypes'
    PROVE  TerminalInv'
<1>1. inputs' \in inputs..MaxTyped
  BY DEF TerminalInv, ScreenTypes
<1>2. QED
  BY <1>1, ScreenStays, HistoryStays DEF TerminalInv

LEMMA TypeInv == ASSUME TerminalInv, NEW t \in Typed, T!Type(t) PROVE TerminalInv'
<1>1. /\ input' = t /\ tab' = [index |-> 0, matches |-> << >>]
      /\ UNCHANGED <<prompt, screen, buffer, session, disk, reply, asked, active, inputs, restarts>>
      /\ UNCHANGED <<entries, cursor, file, typed, kept>>
  BY DEF T!Type, T!SetInput, T!NoTab, T!past, T!talk
<1>2. LineTypes'
  BY <1>1 DEF LineTypes
<1>3. cursor' \in 1..(Len(entries) + 1)
  BY <1>1 DEF TerminalInv, HistoryInv
<1>4. QED
  BY <1>1, <1>2, <1>3, KeyInv

LEMMA TabInv == ASSUME TerminalInv, T!TryTabComplete PROVE TerminalInv'
<1>1. UNCHANGED <<prompt, screen, buffer, session, disk, reply, asked, active, inputs, restarts>>
      /\ UNCHANGED <<entries, cursor, file, typed, kept>>
  BY DEF T!TryTabComplete, T!past, T!talk
<1>2. PICK matches, next :
         /\ matches = IF tab.index = 0 THEN IF input \in Typed THEN CompletionsOf[input] ELSE << >> ELSE tab.matches
         /\ next = IF tab.index = 0 THEN 1 ELSE (tab.index % Len(matches)) + 1
  OBVIOUS
<1>3. IF matches = << >> THEN UNCHANGED <<input, tab>>
      ELSE input' = matches[next] /\ tab' = [index |-> next, matches |-> matches]
  BY <1>2 DEF T!TryTabComplete, T!SetInput, T!line
<1>4. LineTypes'
  <2>1. CASE matches = << >>
    BY <1>3, <2>1 DEF TerminalInv, LineTypes
  <2>2. CASE matches # << >>
    <3>1. matches \in Seq(Typed)
      BY <1>2, <2>2, Commands DEF TerminalInv, LineTypes
    <3>2. PICK n \in Nat : n = Len(matches) /\ n # 0 /\ \A i \in 1..n : matches[i] \in Typed
      BY <2>2, <3>1
    <3>3. next \in 1..n
      <4>1. CASE tab.index = 0
        BY <1>2, <3>2, <4>1
      <4>2. CASE tab.index # 0
        <5>1. tab.index \in Nat
          BY DEF TerminalInv, LineTypes
        <5>2. tab.index % n \in 0..(n - 1)
          BY <3>2, <5>1
        <5>3. QED
          BY <1>2, <3>2, <4>2, <5>2
      <4>3. QED
        BY <4>1, <4>2
    <3>4. input' = matches[next] /\ tab' = [index |-> next, matches |-> matches]
      BY <1>3, <2>2
    <3>5. QED
      BY <3>1, <3>2, <3>3, <3>4 DEF LineTypes
  <2>3. QED
    BY <2>1, <2>2
<1>5. cursor' \in 1..(Len(entries) + 1)
  BY <1>1 DEF TerminalInv, HistoryInv
<1>6. QED
  BY <1>1, <1>4, <1>5, KeyInv

LEMMA UpDownInv == ASSUME TerminalInv, T!Up \/ T!Down PROVE TerminalInv'
<1>1. /\ tab' = [index |-> 0, matches |-> << >>]
      /\ UNCHANGED <<prompt, screen, buffer, session, disk, reply, asked, active, inputs, restarts>>
      /\ UNCHANGED <<entries, file, typed, kept>>
  BY DEF T!Up, T!Down, T!NoTab, T!talk
<1>2. PICK n \in Nat : /\ n = Len(entries) /\ \A i \in 1..n : entries[i] \in Typed
                       /\ cursor \in 1..(n + 1) /\ input \in Typed \cup {T!Blank}
  BY DEF TerminalInv, HistoryInv, LineTypes
<1>3. cursor' \in 1..(n + 1) /\ input' \in Typed \cup {T!Blank}
  <2>1. CASE T!Up
    BY <1>2, <2>1 DEF T!Up, T!SetInput
  <2>2. CASE T!Down
    BY <1>2, <2>2 DEF T!Down, T!SetInput
  <2>3. QED
    BY <2>1, <2>2
<1>4. LineTypes'
  BY <1>1, <1>3 DEF LineTypes
<1>5. QED
  BY <1>1, <1>2, <1>3, <1>4, KeyInv

LEMMA EscInv == ASSUME TerminalInv, T!Esc PROVE TerminalInv'
<1>1. /\ input' = T!Blank /\ tab' = [index |-> 0, matches |-> << >>]
      /\ UNCHANGED <<prompt, screen, buffer, session, disk, reply, asked, active, inputs, restarts>>
      /\ UNCHANGED <<entries, cursor, file, typed, kept>>
  BY DEF T!Esc, T!SetInput, T!NoTab, T!past, T!talk
<1>2. LineTypes'
  BY <1>1 DEF LineTypes
<1>3. cursor' \in 1..(Len(entries) + 1)
  BY <1>1 DEF TerminalInv, HistoryInv
<1>4. QED
  BY <1>1, <1>2, <1>3, KeyInv

LEMMA LineStays == LineTypes /\ UNCHANGED <<input, tab>> => LineTypes'
BY DEF LineTypes

LEMMA HistoryAsItWas == HistoryInv /\ UNCHANGED <<entries, cursor, file, typed, kept>> => HistoryInv'
BY DEF HistoryInv, Recalled

LEMMA CtrlLInv == ASSUME TerminalInv, T!CtrlL PROVE TerminalInv'
<1>1. /\ prompt = "idle" /\ screen' = << >>
      /\ UNCHANGED <<prompt, input, tab, buffer, session, disk, reply, asked, active, inputs, restarts>>
      /\ UNCHANGED <<entries, cursor, file, typed, kept>>
  BY DEF T!CtrlL, T!Idle, T!line, T!past, T!talk
<1>2. ScreenTypes'
  BY <1>1 DEF TerminalInv, ScreenTypes
<1>3. SessionInv' /\ ReplyInv'
  BY <1>1 DEF TerminalInv, SessionInv, ReplyInv
<1>4. ScreenInv'
  BY <1>1, NothingThere DEF ScreenInv
<1>5. QED
  BY <1>1, <1>2, <1>3, <1>4, LineStays, HistoryAsItWas DEF TerminalInv

LEMMA CtrlCInv == ASSUME TerminalInv, T!CtrlC PROVE TerminalInv'
<1>1. /\ prompt' = "quit"
      /\ UNCHANGED <<screen, input, tab, buffer, session, disk, reply, asked, active, inputs, restarts>>
      /\ UNCHANGED <<entries, cursor, file, typed, kept>>
  BY DEF T!CtrlC, T!line, T!past, T!talk
<1>2. ScreenTypes'
  BY <1>1 DEF TerminalInv, ScreenTypes
<1>3. SessionInv' /\ ReplyInv' /\ ScreenInv'
  BY <1>1 DEF TerminalInv, SessionInv, ReplyInv, ScreenInv
<1>4. QED
  BY <1>1, <1>2, <1>3, LineStays, HistoryAsItWas DEF TerminalInv

\* Enter: the text goes to the history, and the line is empty.
LEMMA AcceptedInv ==
    ASSUME TerminalInv, T!Accepted
    PROVE  /\ LineTypes' /\ HistoryInv' /\ prompt = "idle" /\ input \in Typed
           /\ inputs' = inputs + 1 /\ inputs' \in 0..MaxTyped
<1>1. /\ prompt = "idle" /\ input # T!Blank /\ inputs < MaxTyped /\ inputs' = inputs + 1
      /\ input' = T!Blank /\ tab' = [index |-> 0, matches |-> << >>] /\ T!Add(input)
  BY DEF T!Accepted, T!Idle, T!SetInput, T!NoTab
<1>2. input \in Typed /\ input # T!Blank
  BY <1>1 DEF TerminalInv, LineTypes
<1>3. LineTypes'
  BY <1>1 DEF LineTypes
<1>4. inputs' \in 0..MaxTyped
  BY <1>1, Bounds DEF TerminalInv, ScreenTypes
<1>5. HistoryInv'
  <2>1. PICK t \in Typed : t = input /\ t # T!Blank
    BY <1>2
  <2>2. typed' = t /\ cursor' = Len(entries') + 1
    BY <1>1, <2>1 DEF T!Add
  <2>3. CASE entries # << >> /\ entries[Len(entries)] = t
    <3>1. UNCHANGED <<entries, file, kept>>
      BY <1>1, <2>1, <2>3 DEF T!Add, T!Last
    <3>2. kept => Recalled(t, file)
      <4>1. CASE typed # T!Blank
        BY <2>3, <4>1 DEF TerminalInv, HistoryInv
      <4>2. file \in Seq(Typed)
        BY DEF TerminalInv, HistoryInv
      <4>3. CASE file = entries
        BY <2>3, <4>2, <4>3, LoadIs
      <4>4. CASE entries = T!Load(file)
        BY <2>3, <4>2, <4>4, LoadIs
      <4>5. QED
        BY <4>3, <4>4 DEF TerminalInv, HistoryInv
    <3>3. Len(entries) + 1 \in 1..(Len(entries) + 1)
      BY DEF TerminalInv, HistoryInv
    <3>4. QED
      BY <2>2, <2>3, <3>1, <3>2, <3>3 DEF TerminalInv, HistoryInv, Recalled
  <2>4. CASE ~ (entries # << >> /\ entries[Len(entries)] = t)
    <3>1. /\ entries' = T!Kept(Append(entries, t))
          /\ \/ file' = entries' /\ kept' = kept
             \/ file' = file /\ kept' = FALSE
      BY <1>1, <2>1, <2>4 DEF T!Add, T!Last
    <3>2. PICK longer, es : longer = Append(entries, t) /\ es = T!Kept(longer)
      OBVIOUS
    <3>3. longer \in Seq(Typed) /\ longer # << >> /\ longer[Len(longer)] = t
      BY <3>2 DEF TerminalInv, HistoryInv
    <3>4. es \in Seq(Typed) /\ Len(es) <= HistorySize /\ es # << >> /\ es[Len(es)] = t
      BY <3>2, <3>3, KeptIs
    <3>5. entries' = es
      BY <3>1, <3>2
    <3>6. file' \in Seq(Typed) /\ kept' \in BOOLEAN /\ (kept' => file' = es)
      BY <3>1, <3>4, <3>5 DEF TerminalInv, HistoryInv
    <3>7. kept' => Recalled(t, file')
      BY <3>4, <3>6, LoadIs
    <3>8. cursor' \in 1..(Len(es) + 1)
      BY <2>2, <3>4, <3>5
    <3>9. Recalled(typed, file)' = Recalled(t, file')
      BY <2>2 DEF Recalled
    <3>10. QED
      BY <2>1, <2>2, <3>4, <3>5, <3>6, <3>7, <3>8, <3>9 DEF HistoryInv
  <2>5. QED
    BY <2>3, <2>4
<1>6. QED
  BY <1>1, <1>2, <1>3, <1>4, <1>5

\* A command adds a line that is no answer, or empties the screen or the session.
LEMMA CommandDoes ==
    ASSUME TerminalInv, NEW t \in Typed, T!processCommand(CommandOf[t])
    PROVE  /\ active' \in Named
           /\ \E o \in {"text", "none", "error", "usage"} :
                 screen' = Append(screen, T!Says(o)) \/ (screen' = <<T!Says(o)>> /\ session' = << >>)
           /\ session' = session \/ session' = << >>
           /\ disk' = disk \/ disk' = << >>
<1>1. CASE CommandOf[t].name = "clear"
  <2>1. T!handleClear
    BY <1>1 DEF T!processCommand
  <2>2. QED
    BY <2>1 DEF T!handleClear, TerminalInv, ScreenTypes
<1>2. CASE CommandOf[t].name = "agent"
  <2>1. T!handleAgentSwitch(CommandOf[t].arg)
    BY <1>2 DEF T!processCommand
  <2>2. CommandOf[t].arg \in Named \cup {T!Blank}
    BY <1>2, Commands
  <2>3. QED
    BY <2>1, <2>2 DEF T!handleAgentSwitch, TerminalInv, ScreenTypes
<1>3. CASE CommandOf[t].name = "copy"
  <2>1. T!handleCopy
    BY <1>3 DEF T!processCommand
  <2>2. PICK i : i = T!SelectLastInSeq(screen, LAMBDA e : e.role = "assistant")
    OBVIOUS
  <2>3. /\ UNCHANGED <<active, session, disk>>
        /\ screen' = Append(screen, T!Says("text")) \/ screen' = Append(screen, T!Says("none"))
           \/ screen' = Append(screen, T!Says("error"))
    BY <2>1 DEF T!handleCopy
  <2>4. QED
    BY <2>3 DEF TerminalInv, ScreenTypes
<1>4. CASE CommandOf[t].name = "export"
  <2>1. T!handleExport
    BY <1>4 DEF T!processCommand
  <2>2. QED
    BY <2>1 DEF T!handleExport, TerminalInv, ScreenTypes
<1>5. CASE CommandOf[t].name \notin {"clear", "agent", "copy", "export"}
  <2>1. T!handleLook(CommandOf[t])
    BY <1>5 DEF T!processCommand
  <2>2. T!Looks(CommandOf[t]) \subseteq {"text", "none", "error", "usage"}
    BY DEF T!Looks, T!helpText, T!handleAgents, T!handleSkills, T!handleModel, T!handleProject, T!handleContext,
           T!handleMemory, T!handleMemoryList, T!handleMemorySearch, T!handleSession, T!handleRun, T!handleFile,
           T!handleSearch, T!handleGit, T!runShellCmd
  <2>3. QED
    BY <2>1, <2>2 DEF T!handleLook, TerminalInv, ScreenTypes
<1>6. QED
  BY <1>1, <1>2, <1>3, <1>4, <1>5

LEMMA EnterCommandInv == ASSUME TerminalInv, T!EnterCommand PROVE TerminalInv'
<1>1. /\ LineTypes' /\ HistoryInv' /\ prompt = "idle" /\ input \in Typed
      /\ inputs' = inputs + 1 /\ inputs' \in 0..MaxTyped
  BY AcceptedInv DEF T!EnterCommand
<1>2. T!processCommand(CommandOf[input]) /\ UNCHANGED <<prompt, buffer, reply, asked, restarts>>
  BY DEF T!EnterCommand
<1>3. PICK o \in {"text", "none", "error", "usage"} :
         screen' = Append(screen, T!Says(o)) \/ (screen' = <<T!Says(o)>> /\ session' = << >>)
  BY <1>1, <1>2, CommandDoes
<1>4. active' \in Named /\ (session' = session \/ session' = << >>) /\ (disk' = disk \/ disk' = << >>)
  BY <1>1, <1>2, CommandDoes
<1>5. PICK e : e = T!Says(o)
  OBVIOUS
<1>6. e \in ScreenEntry /\ e.role # "assistant"
  BY <1>5 DEF T!Says, T!Entry, ScreenEntry, Words
<1>7. reply.at = "none" /\ ~ (reply.at = "saved")
  BY <1>1 DEF TerminalInv, ReplyInv
<1>8. Fits(screen, session, asked + 1, FALSE) /\ screen \in Seq(ScreenEntry)
  BY <1>1 DEF TerminalInv, ScreenInv, ScreenTypes
<1>9. PICK longer : longer = Append(screen, e)
  OBVIOUS
<1>10. longer \in Seq(ScreenEntry) /\ Fits(longer, session, asked + 1, FALSE)
  BY <1>6, <1>8, <1>9, OtherEntry
<1>11. ScreenTypes'
  <2>1. asked' \in 0..inputs'
    BY <1>1, <1>2 DEF TerminalInv, ScreenTypes
  <2>2. session' \in Seq(Replied) /\ disk' \in Seq(Replied)
    <3>1. session \in Seq(Replied) /\ disk \in Seq(Replied)
      BY DEF TerminalInv, ScreenTypes
    <3>2. << >> \in Seq(Replied)
      OBVIOUS
    <3>3. QED
      BY <1>4, <3>1, <3>2, Zenon
  <2>3. screen' \in Seq(ScreenEntry)
    <3>1. <<e>> \in Seq(ScreenEntry)
      BY <1>6
    <3>2. QED
      BY <1>3, <1>5, <1>9, <1>10, <3>1
  <2>4. QED
    BY <1>1, <1>2, <1>4, <2>1, <2>2, <2>3 DEF TerminalInv, ScreenTypes
<1>12. ReplyInv'
  BY <1>1, <1>2 DEF TerminalInv, ReplyInv
<1>13. SessionInv'
  <2>1. Rising(<< >>, asked + 1)
    BY DEF Rising
  <2>2. Rising(session', asked + 1) /\ Rising(disk', asked + 1)
    BY <1>4, <2>1 DEF TerminalInv, SessionInv
  <2>3. QED
    BY <1>2, <1>7, <2>2 DEF SessionInv
<1>14. ScreenInv'
  <2>1. Fits(screen', session', asked + 1, FALSE)
    <3>1. CASE screen' = longer /\ session' = session
      BY <1>10, <3>1
    <3>2. CASE screen' = longer /\ session' = << >>
      <4>1. Ordered(longer, asked + 1)
        BY <1>10 DEF Fits
      <4>2. QED
        BY <3>2, <4>1, NothingThere
    <3>3. CASE screen' = <<e>> /\ session' = << >>
      <4>1. AnswersOn(<<e>>) = {}
        BY <1>6 DEF AnswersOn
      <4>2. Ordered(<<e>>, asked + 1)
        BY <4>1 DEF Ordered
      <4>3. QED
        BY <3>3, <4>2, NothingThere
    <3>4. QED
      BY <1>3, <1>4, <1>5, <1>9, <3>1, <3>2, <3>3
  <2>2. QED
    BY <1>1, <1>2, <2>1 DEF ScreenInv
<1>15. QED
  BY <1>1, <1>11, <1>12, <1>13, <1>14 DEF TerminalInv

LEMMA EnterQuitInv == ASSUME TerminalInv, T!EnterQuit PROVE TerminalInv'
<1>1. LineTypes' /\ HistoryInv' /\ inputs' = inputs + 1 /\ inputs' \in 0..MaxTyped
  BY AcceptedInv DEF T!EnterQuit
<1>2. prompt' = "quit" /\ UNCHANGED <<screen, buffer, active, session, disk, reply, asked, restarts>>
  BY DEF T!EnterQuit, T!talk
<1>3. ScreenTypes'
  <2>1. asked' \in 0..inputs'
    BY <1>1, <1>2 DEF TerminalInv, ScreenTypes
  <2>2. QED
    BY <1>1, <1>2, <2>1 DEF TerminalInv, ScreenTypes
<1>4. SessionInv' /\ ReplyInv' /\ ScreenInv'
  BY <1>2 DEF TerminalInv, SessionInv, ReplyInv, ScreenInv
<1>5. QED
  BY <1>1, <1>3, <1>4 DEF TerminalInv

LEMMA EnterChatInv == ASSUME TerminalInv, T!EnterChat PROVE TerminalInv'
<1>1. /\ LineTypes' /\ HistoryInv' /\ prompt = "idle" /\ input \in Typed
      /\ inputs' = inputs + 1 /\ inputs' \in 0..MaxTyped
  BY AcceptedInv DEF T!EnterChat
<1>2. PICK e : e = T!Entry("user", input, << >>)
  OBVIOUS
<1>3. /\ screen' = Append(screen, e) /\ prompt' = "streaming" /\ buffer' = << >> /\ asked' = asked + 1
      /\ reply' = [at |-> "running", parts |-> << >>] /\ UNCHANGED <<active, session, disk, restarts>>
  BY <1>2 DEF T!EnterChat, T!ResetBuffer
<1>4. e \in ScreenEntry /\ e.role # "assistant"
  BY <1>1, <1>2 DEF T!Entry, ScreenEntry, Words
<1>5. screen \in Seq(ScreenEntry) /\ Fits(screen, session, asked + 1, FALSE)
  BY <1>1 DEF TerminalInv, ScreenTypes, ScreenInv
<1>6. screen' \in Seq(ScreenEntry) /\ Fits(screen', session, asked + 1, FALSE)
  <2>1. PICK longer : longer = Append(screen, e)
    OBVIOUS
  <2>2. longer \in Seq(ScreenEntry) /\ Fits(longer, session, asked + 1, FALSE)
    BY <1>4, <1>5, <2>1, OtherEntry
  <2>3. QED
    BY <1>3, <2>1, <2>2
<1>7. ScreenTypes'
  <2>1. asked' \in 0..inputs'
    BY <1>1, <1>3 DEF TerminalInv, ScreenTypes
  <2>2. QED
    BY <1>1, <1>3, <1>6, <2>1 DEF TerminalInv, ScreenTypes
<1>8. ReplyInv'
  BY <1>3 DEF ReplyInv, Ends, EndsWith
<1>9. SessionInv'
  <2>1. Rising(session, asked + 1) /\ Rising(disk, asked + 1)
    BY DEF TerminalInv, SessionInv
  <2>2. session \in Seq(Replied) /\ disk \in Seq(Replied) /\ asked + 1 \in Nat
    BY DEF TerminalInv, ScreenTypes
  <2>3. Rising(session, asked + 1 + 1) /\ Rising(disk, asked + 1 + 1)
    BY <2>1, <2>2, TurnsIn
  <2>4. QED
    BY <1>3, <2>1, <2>3 DEF SessionInv
<1>10. ScreenInv'
  <2>1. Fits(screen', session', asked', FALSE)
    BY <1>3, <1>6
  <2>2. QED
    BY <1>3, <2>1 DEF ScreenInv
<1>11. QED
  BY <1>1, <1>7, <1>8, <1>9, <1>10 DEF TerminalInv

\* A piece of the text comes to both.
LEMMA OnePieceMore ==
    ASSUME NEW all \in Seq(Pieces), NEW text \in Seq(Pieces), Ends(all, text), NEW p \in Pieces
    PROVE  /\ p.n # 0 => Ends(Append(all, p), Append(text, p))
           /\ p.n = 0 => Ends(Append(all, p), << >>)
<1>1. PICK m, n : m = Len(all) /\ n = Len(text)
  OBVIOUS
<1>2. /\ m \in Nat /\ n \in Nat /\ n <= m /\ \A i \in 1..n : all[m - n + i] = text[i] /\ text[i].n # 0
      /\ n < m => all[m - n].n = 0
  <2>1. m \in Nat /\ n \in Nat /\ DOMAIN text = 1..n
    BY <1>1
  <2>2. n <= m /\ \A i \in 1..n : all[m - n + i] = text[i]
    BY <1>1 DEF Ends, EndsWith
  <2>3. \A i \in 1..n : text[i].n # 0
    BY <2>1 DEF Ends
  <2>4. n < m => all[m - n].n = 0
    BY <1>1 DEF Ends
  <2>5. QED
    BY <2>1, <2>2, <2>3, <2>4
<1>3. PICK all1, text1 : all1 = Append(all, p) /\ text1 = Append(text, p)
  OBVIOUS
<1>4. /\ Len(all1) = m + 1 /\ all1[m + 1] = p /\ \A i \in 1..m : all1[i] = all[i]
      /\ Len(text1) = n + 1 /\ DOMAIN text1 = 1..(n + 1) /\ text1[n + 1] = p /\ \A i \in 1..n : text1[i] = text[i]
  BY <1>1, <1>2, <1>3
<1>5. ASSUME p.n # 0 PROVE Ends(all1, text1)
  <2>1. PICK m1, n1 : m1 = Len(all1) /\ n1 = Len(text1)
    OBVIOUS
  <2>2. m1 = m + 1 /\ n1 = n + 1 /\ n1 \in Nat /\ m1 \in Nat /\ n1 <= m1 /\ m1 - n1 = m - n
    BY <1>2, <1>4, <2>1
  <2>3. ASSUME NEW i \in 1..n1 PROVE all1[m1 - n1 + i] = text1[i] /\ text1[i].n # 0
    <3>1. CASE i = n1
      <4>1. m1 - n1 + i = m + 1 /\ i = n + 1
        BY <1>2, <2>2, <3>1
      <4>2. QED
        BY <1>4, <1>5, <4>1
    <3>2. CASE i # n1
      <4>1. i \in 1..n /\ m1 - n1 + i = m - n + i /\ m - n + i \in 1..m
        BY <1>2, <2>2, <3>2
      <4>2. QED
        BY <1>2, <1>4, <4>1
    <3>3. QED
      BY <3>1, <3>2
  <2>4. ASSUME n1 < m1 PROVE all1[m1 - n1].n = 0
    <3>1. m1 - n1 = m - n /\ m - n \in 1..m /\ n < m
      BY <1>2, <2>2, <2>4
    <3>2. QED
      BY <1>2, <1>4, <3>1
  <2>5. EndsWith(text1, all1)
    BY <2>1, <2>2, <2>3 DEF EndsWith
  <2>6. \A i \in DOMAIN text1 : text1[i].n # 0
    BY <1>4, <2>2, <2>3
  <2>7. QED
    BY <2>1, <2>4, <2>5, <2>6 DEF Ends
<1>6. ASSUME p.n = 0 PROVE Ends(all1, << >>)
  <2>1. Len(<< >>) = 0 /\ DOMAIN << >> = {} /\ m + 1 - 0 = m + 1
    BY <1>2
  <2>2. QED
    BY <1>2, <1>4, <1>6, <2>1 DEF Ends, EndsWith
<1>7. QED
  BY <1>3, <1>5, <1>6

\* One more piece on the screen, of the text or a line break.
LEMMA PieceInv ==
    ASSUME TerminalInv, NEW p \in Pieces, p.turn = asked, prompt = "streaming", reply.at = "running",
           buffer' = Append(buffer, p), NEW text \in Seq(Pieces),
           reply' = [reply EXCEPT !.parts = text], p.n # 0 => text = Append(reply.parts, p), p.n = 0 => text = << >>,
           UNCHANGED <<prompt, screen, session, disk, asked, input, tab, active, inputs, restarts>>,
           UNCHANGED <<entries, cursor, file, typed, kept>>
    PROVE  TerminalInv'
<1>1. /\ buffer \in Seq(Pieces) /\ reply \in [at : {"none", "running", "saved"}, parts : Seq(Pieces)]
      /\ reply.parts \in Seq(Pieces)
  BY DEF TerminalInv, ScreenTypes
<1>2. reply'.at = "running" /\ reply'.parts = text
  BY <1>1
<1>3. ScreenTypes'
  <2>1. buffer' \in Seq(Pieces)
    BY <1>1
  <2>2. reply' \in [at : {"none", "running", "saved"}, parts : Seq(Pieces)]
    BY <1>1
  <2>3. QED
    BY <2>1, <2>2 DEF TerminalInv, ScreenTypes
<1>4. ReplyInv'
  <2>1. Ends(buffer, reply.parts) /\ \A i \in DOMAIN buffer : buffer[i].turn = asked
    BY DEF TerminalInv, ReplyInv
  <2>2. PICK longer : longer = Append(buffer, p)
    OBVIOUS
  <2>3. Ends(longer, text)
    BY <1>1, <2>1, <2>2, OnePieceMore
  <2>4. \A i \in DOMAIN longer : longer[i].turn = asked
    BY <1>1, <2>1, <2>2
  <2>5. buffer' = longer
    BY <2>2
  <2>6. QED
    BY <1>2, <2>3, <2>4, <2>5 DEF ReplyInv
<1>5. SessionInv'
  BY <1>2 DEF TerminalInv, SessionInv
<1>6. ScreenInv'
  <2>1. Fits(screen, session, asked, reply.at = "saved") /\ (reply.at = "saved") = FALSE
    BY DEF TerminalInv, ScreenInv
  <2>2. (reply'.at = "saved") = FALSE
    BY <1>2
  <2>3. QED
    BY <2>1, <2>2 DEF ScreenInv
<1>7. QED
  BY <1>3, <1>4, <1>5, <1>6, LineStays, HistoryAsItWas DEF TerminalInv

LEMMA DeltaInv == ASSUME TerminalInv, T!Delta PROVE TerminalInv'
<1>1. PICK p : p = [turn |-> asked, n |-> Len(buffer) + 1]
  OBVIOUS
<1>2. PICK text : text = Append(reply.parts, p)
  OBVIOUS
<1>3. /\ prompt = "streaming" /\ reply.at = "running" /\ buffer' = Append(buffer, p)
      /\ reply' = [reply EXCEPT !.parts = text]
      /\ UNCHANGED <<prompt, screen, session, disk, asked, input, tab, active, inputs, restarts>>
      /\ UNCHANGED <<entries, cursor, file, typed, kept>>
  BY <1>1, <1>2 DEF T!Delta, T!Piece, T!streamMsg, T!line, T!past
<1>4. buffer \in Seq(Pieces) /\ reply.parts \in Seq(Pieces) /\ asked \in Nat
  BY DEF TerminalInv, ScreenTypes
<1>5. Len(buffer) + 1 \in Nat /\ Len(buffer) + 1 # 0
  BY <1>4
<1>6. p \in Pieces /\ p.turn = asked /\ p.n # 0
  BY <1>1, <1>4, <1>5 DEF Pieces
<1>7. text \in Seq(Pieces)
  BY <1>2, <1>4, <1>6
<1>8. QED
  BY <1>2, <1>3, <1>6, <1>7, PieceInv

LEMMA ToolRoundInv == ASSUME TerminalInv, T!ToolRound PROVE TerminalInv'
<1>1. PICK p : p = [turn |-> asked, n |-> 0]
  OBVIOUS
<1>2. /\ prompt = "streaming" /\ reply.at = "running" /\ buffer' = Append(buffer, p)
      /\ reply' = [reply EXCEPT !.parts = << >>]
      /\ UNCHANGED <<prompt, screen, session, disk, asked, input, tab, active, inputs, restarts>>
      /\ UNCHANGED <<entries, cursor, file, typed, kept>>
  BY <1>1 DEF T!ToolRound, T!Break, T!Piece, T!streamMsg, T!line, T!past
<1>3. p \in Pieces /\ p.turn = asked /\ p.n = 0
  BY <1>1 DEF TerminalInv, ScreenTypes, Pieces
<1>4. << >> \in Seq(Pieces)
  OBVIOUS
<1>5. QED
  BY <1>2, <1>3, <1>4, PieceInv

\* The reply of the turn under way comes behind the others.
LEMMA RisesOn ==
    ASSUME NEW se \in Seq(Replied), NEW n \in Nat, Rising(se, n), NEW e \in Replied, e.turn = n
    PROVE  Rising(Append(se, e), n + 1) /\ Append(se, e) \in Seq(Replied) /\ Rising(se, n + 1)
<1>1. PICK m \in Nat : m = Len(se) /\ DOMAIN se = 1..m
  OBVIOUS
<1>2. PICK se1 : se1 = Append(se, e)
  OBVIOUS
<1>3. se1 \in Seq(Replied) /\ DOMAIN se1 = 1..(m + 1) /\ se1[m + 1] = e /\ \A i \in 1..m : se1[i] = se[i]
  BY <1>1, <1>2
<1>4. \A i \in 1..m : se[i].turn \in Nat /\ se[i].turn < n
  BY <1>1, TurnsIn DEF Rising
<1>5. \A i \in 1..(m + 1) : se1[i].turn < n + 1
  BY <1>3, <1>4
<1>6. ASSUME NEW i \in 1..(m + 1), NEW j \in 1..(m + 1), i < j PROVE se1[i].turn < se1[j].turn
  <2>1. i \in 1..m
    BY <1>6
  <2>2. CASE j = m + 1
    BY <1>3, <1>4, <2>1, <2>2
  <2>3. CASE j # m + 1
    <3>1. j \in 1..m
      BY <2>3
    <3>2. QED
      BY <1>1, <1>3, <1>6, <2>1, <3>1 DEF Rising
  <2>4. QED
    BY <2>2, <2>3
<1>7. Rising(se1, n + 1)
  BY <1>3, <1>5, <1>6 DEF Rising
<1>8. Rising(se, n + 1)
  BY <1>1, <1>4 DEF Rising
<1>9. QED
  BY <1>2, <1>3, <1>7, <1>8

\* It is pending as long as the screen does not show it.
LEMMA ReplyPends ==
    ASSUME NEW sc, NEW se \in Seq(Replied), NEW n \in Nat, Fits(sc, se, n, FALSE),
           \A a \in AnswersOn(sc) : TurnAt(sc, a) \in Nat,
           NEW e \in Replied, e.turn = n
    PROVE  Fits(sc, Append(se, e), n, TRUE)
<1>1. PICK m \in Nat : m = Len(se) /\ DOMAIN se = 1..m
  OBVIOUS
<1>2. PICK se1 : se1 = Append(se, e)
  OBVIOUS
<1>3. Len(se1) = m + 1 /\ DOMAIN se1 = 1..(m + 1) /\ se1[m + 1] = e /\ \A i \in 1..m : se1[i] = se[i]
  BY <1>1, <1>2
<1>4. \A a \in AnswersOn(sc) : TurnAt(sc, a) \in Nat /\ TurnAt(sc, a) < n /\ TurnAt(sc, a) # n
  BY DEF Fits, Ordered
<1>5. Alike(sc, se1)
  <2>1. ASSUME NEW a \in AnswersOn(sc), NEW r \in 1..(m + 1), se1[r].turn = TurnAt(sc, a)
        PROVE  Ends(sc[a].parts, se1[r].parts)
    <3>1. r # m + 1
      BY <1>3, <1>4, <2>1
    <3>2. r \in 1..m
      BY <3>1
    <3>3. QED
      BY <1>1, <1>3, <2>1, <3>2 DEF Fits, Alike
  <2>2. QED
    BY <1>3, <2>1 DEF Alike
<1>6. AllSaved(sc, se1)
  <2>1. ASSUME NEW a \in AnswersOn(sc)
        PROVE  (\E r \in 1..(m + 1) : se1[r].turn = TurnAt(sc, a)) \/ \A r \in 1..(m + 1) : TurnAt(sc, a) < se1[r].turn
    <3>1. CASE \E r \in 1..m : se[r].turn = TurnAt(sc, a)
      <4>1. PICK r \in 1..m : se[r].turn = TurnAt(sc, a)
        BY <3>1
      <4>2. r \in 1..(m + 1) /\ se1[r].turn = TurnAt(sc, a)
        BY <1>3, <4>1
      <4>3. QED
        BY <4>2
    <3>2. CASE \A r \in 1..m : TurnAt(sc, a) < se[r].turn
      BY <1>3, <1>4, <3>2
    <3>3. QED
      BY <1>1, <3>1, <3>2 DEF Fits, AllSaved
  <2>2. QED
    BY <1>3, <2>1 DEF AllSaved
<1>7. AllShown(sc, se1, TRUE)
  <2>1. ASSUME NEW r \in 1..m
        PROVE  \/ se1[r].parts = << >>
               \/ \E a \in AnswersOn(sc) : TurnAt(sc, a) = se1[r].turn
               \/ \A a \in AnswersOn(sc) : se1[r].turn < TurnAt(sc, a)
    BY <1>1, <1>3 DEF Fits, AllShown
  <2>2. QED
    BY <1>3, <2>1 DEF AllShown
<1>8. QED
  BY <1>2, <1>5, <1>6, <1>7 DEF Fits

\* The turns on a screen are numbers.
LEMMA TurnsAre ==
    ASSUME NEW sc \in Seq(ScreenEntry), NEW n, Ordered(sc, n)
    PROVE  \A a \in AnswersOn(sc) : TurnAt(sc, a) \in Nat
<1>1. SUFFICES ASSUME NEW a \in AnswersOn(sc) PROVE TurnAt(sc, a) \in Nat
  OBVIOUS
<1>2. sc[a] \in ScreenEntry /\ sc[a].parts # << >>
  BY DEF AnswersOn, Ordered
<1>3. PICK ps \in Seq(Pieces) : ps = sc[a].parts
  BY <1>2 DEF ScreenEntry
<1>4. ps # << >> /\ ps[1] \in Pieces
  BY <1>2, <1>3
<1>5. QED
  BY <1>3, <1>4 DEF TurnAt, Pieces

LEMMA SaveReplyInv == ASSUME TerminalInv, T!SaveReply PROVE TerminalInv'
<1>1. PICK e : e = [turn |-> asked, parts |-> reply.parts]
  OBVIOUS
<1>2. /\ prompt # "idle" /\ reply.at = "running" /\ reply' = [reply EXCEPT !.at = "saved"]
      /\ session' = Append(session, e) /\ disk' \in {session', disk}
      /\ UNCHANGED <<prompt, screen, buffer, asked, input, tab, active, inputs, restarts>>
      /\ UNCHANGED <<entries, cursor, file, typed, kept>>
  BY <1>1 DEF T!SaveReply, T!line, T!past
<1>3. /\ reply'.at = "saved" /\ reply'.parts = reply.parts /\ reply.parts \in Seq(Pieces) /\ asked \in Nat
      /\ session \in Seq(Replied) /\ disk \in Seq(Replied)
  BY <1>2 DEF TerminalInv, ScreenTypes
<1>4. e \in Replied /\ e.turn = asked /\ e.parts = reply.parts
  BY <1>1, <1>3 DEF Replied
<1>5. Rising(session, asked) /\ Rising(disk, asked)
  BY <1>2 DEF TerminalInv, SessionInv
<1>6. PICK longer : longer = Append(session, e)
  OBVIOUS
<1>7. longer \in Seq(Replied) /\ Rising(longer, asked + 1) /\ Rising(disk, asked + 1)
  <2>1. longer \in Seq(Replied) /\ Rising(longer, asked + 1)
    BY <1>3, <1>4, <1>5, <1>6, RisesOn
  <2>2. Rising(disk, asked + 1)
    BY <1>3, <1>4, <1>5, RisesOn
  <2>3. QED
    BY <2>1, <2>2
<1>8. session' = longer /\ (disk' = longer \/ disk' = disk)
  BY <1>2, <1>6
<1>9. ScreenTypes'
  <2>1. reply' \in [at : {"none", "running", "saved"}, parts : Seq(Pieces)]
    BY <1>2 DEF TerminalInv, ScreenTypes
  <2>2. session' \in Seq(Replied) /\ disk' \in Seq(Replied)
    BY <1>3, <1>7, <1>8
  <2>3. QED
    BY <1>2, <2>1, <2>2 DEF TerminalInv, ScreenTypes
<1>10. SessionInv'
  <2>1. Rising(session', asked + 1) /\ Rising(disk', asked + 1)
    BY <1>7, <1>8
  <2>2. QED
    BY <1>2, <1>3, <2>1 DEF SessionInv
<1>11. longer # << >> /\ longer[Len(longer)] = e
  BY <1>3, <1>4, <1>6
<1>12. ReplyInv'
  <2>1. session'[Len(session')] = e /\ session' # << >>
    BY <1>8, <1>11
  <2>2. QED
    BY <1>2, <1>3, <1>4, <2>1 DEF TerminalInv, ReplyInv
<1>13. ScreenInv'
  <2>1. CASE prompt = "streaming"
    <3>1. screen \in Seq(ScreenEntry) /\ Fits(screen, session, asked, FALSE)
      <4>1. Fits(screen, session, asked, reply.at = "saved") /\ (reply.at = "saved") = FALSE
        BY <1>2, <2>1 DEF TerminalInv, ScreenInv
      <4>2. QED
        BY <4>1 DEF TerminalInv, ScreenTypes
    <3>2. \A a \in AnswersOn(screen) : TurnAt(screen, a) \in Nat
      BY <3>1, TurnsAre DEF Fits
    <3>3. Fits(screen, longer, asked, TRUE)
      BY <1>3, <1>4, <1>6, <3>1, <3>2, ReplyPends
    <3>4. (reply'.at = "saved") = TRUE
      BY <1>3
    <3>5. QED
      BY <1>2, <1>8, <2>1, <3>3, <3>4 DEF ScreenInv
  <2>2. CASE prompt = "quit"
    BY <1>2, <2>2 DEF ScreenInv
  <2>3. QED
    BY <1>2, <2>1, <2>2 DEF TerminalInv, ScreenTypes
<1>14. QED
  BY <1>2, <1>9, <1>10, <1>12, <1>13, LineStays, HistoryAsItWas DEF TerminalInv

\* The pending reply comes on the screen.
LEMMA ReplyShown ==
    ASSUME NEW sc \in Seq(ScreenEntry), NEW se \in Seq(Replied), NEW n \in Nat,
           Fits(sc, se, n, TRUE), Rising(se, n + 1), NEW e \in ScreenEntry, e.role = "assistant",
           e.parts # << >>, \A i \in DOMAIN e.parts : e.parts[i].turn = n,
           se # << >>, se[Len(se)].turn = n, Ends(e.parts, se[Len(se)].parts)
    PROVE  Fits(Append(sc, e), se, n + 1, FALSE)
<1>1. PICK m \in Nat, k \in Nat : m = Len(sc) /\ DOMAIN sc = 1..m /\ k = Len(se) /\ DOMAIN se = 1..k
  OBVIOUS
<1>2. PICK sc1 : sc1 = Append(sc, e)
  OBVIOUS
<1>3. DOMAIN sc1 = 1..(m + 1) /\ sc1[m + 1] = e /\ \A i \in 1..m : sc1[i] = sc[i]
  BY <1>1, <1>2
<1>4. /\ AnswersOn(sc) \subseteq 1..m /\ AnswersOn(sc1) = AnswersOn(sc) \cup {m + 1}
      /\ \A a \in AnswersOn(sc) : sc1[a] = sc[a]
  BY <1>1, <1>3 DEF AnswersOn
<1>5. \A a \in AnswersOn(sc) : TurnAt(sc1, a) = TurnAt(sc, a) /\ TurnAt(sc, a) \in Nat /\ TurnAt(sc, a) < n
  <2>1. \A a \in AnswersOn(sc) : TurnAt(sc, a) \in Nat
    BY TurnsAre DEF Fits
  <2>2. QED
    BY <1>4, <2>1 DEF Fits, Ordered, TurnAt
<1>6. TurnAt(sc1, m + 1) = n
  <2>1. PICK ps \in Seq(Pieces) : ps = e.parts
    BY DEF ScreenEntry
  <2>2. 1 \in DOMAIN ps
    BY <2>1
  <2>3. QED
    BY <1>3, <2>1, <2>2 DEF TurnAt
<1>7. k \in 1..k /\ se[k].turn = n /\ \A r \in 1..k : se[r].turn \in Nat /\ (r # k => se[r].turn < n)
  <2>1. \A r \in 1..k : se[r].turn \in Nat /\ (r < k => se[r].turn < se[k].turn)
    BY <1>1, TurnsIn DEF Rising
  <2>2. k \in 1..k /\ se[k].turn = n
    BY <1>1
  <2>3. QED
    BY <1>1, <2>1, <2>2
<1>8. Ordered(sc1, n + 1)
  <2>1. ASSUME NEW a \in AnswersOn(sc1), NEW b \in AnswersOn(sc1), a < b PROVE TurnAt(sc1, a) < TurnAt(sc1, b)
    <3>1. a \in AnswersOn(sc)
      BY <1>1, <1>4, <2>1
    <3>2. CASE b = m + 1
      BY <1>5, <1>6, <3>1, <3>2
    <3>3. CASE b \in AnswersOn(sc)
      BY <1>5, <2>1, <3>1, <3>3 DEF Fits, Ordered
    <3>4. QED
      BY <1>4, <3>2, <3>3
  <2>2. ASSUME NEW a \in AnswersOn(sc1)
        PROVE  /\ sc1[a].parts # << >> /\ TurnAt(sc1, a) < n + 1
               /\ \A i \in DOMAIN sc1[a].parts : sc1[a].parts[i].turn = TurnAt(sc1, a)
    <3>1. CASE a = m + 1
      BY <1>3, <1>6, <3>1
    <3>2. CASE a \in AnswersOn(sc)
      BY <1>4, <1>5, <3>2 DEF Fits, Ordered
    <3>3. QED
      BY <1>4, <3>1, <3>2
  <2>3. QED
    BY <2>1, <2>2 DEF Ordered
<1>9. Alike(sc1, se)
  <2>1. ASSUME NEW a \in AnswersOn(sc1), NEW r \in 1..k, se[r].turn = TurnAt(sc1, a)
        PROVE  Ends(sc1[a].parts, se[r].parts)
    <3>1. CASE a = m + 1
      <4>1. r = k
        BY <1>6, <1>7, <2>1, <3>1
      <4>2. QED
        BY <1>1, <1>3, <3>1, <4>1
    <3>2. CASE a \in AnswersOn(sc)
      BY <1>1, <1>4, <1>5, <2>1, <3>2 DEF Fits, Alike
    <3>3. QED
      BY <1>4, <3>1, <3>2
  <2>2. QED
    BY <1>1, <2>1 DEF Alike
<1>10. AllSaved(sc1, se)
  <2>1. ASSUME NEW a \in AnswersOn(sc1)
        PROVE  \/ \E r \in DOMAIN se : se[r].turn = TurnAt(sc1, a)
               \/ \A r \in DOMAIN se : TurnAt(sc1, a) < se[r].turn
    <3>1. CASE a = m + 1
      BY <1>1, <1>6, <1>7, <3>1
    <3>2. CASE a \in AnswersOn(sc)
      BY <1>5, <3>2 DEF Fits, AllSaved
    <3>3. QED
      BY <1>4, <3>1, <3>2
  <2>2. QED
    BY <2>1 DEF AllSaved
<1>11. AllShown(sc1, se, FALSE)
  <2>1. ASSUME NEW r \in 1..k
        PROVE  \/ se[r].parts = << >>
               \/ \E a \in AnswersOn(sc1) : TurnAt(sc1, a) = se[r].turn
               \/ \A a \in AnswersOn(sc1) : se[r].turn < TurnAt(sc1, a)
    <3>1. CASE r = k
      BY <1>4, <1>6, <1>7, <3>1
    <3>2. CASE se[r].parts = << >>
      BY <3>2
    <3>3. CASE \E a \in AnswersOn(sc) : TurnAt(sc, a) = se[r].turn
      BY <1>4, <1>5, <3>3
    <3>4. CASE r # k /\ \A a \in AnswersOn(sc) : se[r].turn < TurnAt(sc, a)
      <4>1. \A a \in AnswersOn(sc) : se[r].turn < TurnAt(sc1, a)
        BY <1>5, <3>4
      <4>2. se[r].turn < TurnAt(sc1, m + 1)
        BY <1>6, <1>7, <3>4
      <4>3. QED
        BY <1>4, <4>1, <4>2
    <3>5. QED
      BY <1>1, <3>1, <3>2, <3>3, <3>4 DEF Fits, AllShown
  <2>2. QED
    BY <1>1, <2>1 DEF AllShown
<1>12. QED
  BY <1>2, <1>8, <1>9, <1>10, <1>11 DEF Fits

\* A pending reply without a text is missed by nobody.
LEMMA NothingPends ==
    ASSUME NEW sc \in Seq(ScreenEntry), NEW se, NEW n \in Nat, NEW pending, Fits(sc, se, n, pending),
           pending => se[Len(se)].parts = << >>
    PROVE  Fits(sc, se, n + 1, FALSE)
<1>1. Ordered(sc, n + 1)
  <2>1. \A a \in AnswersOn(sc) : TurnAt(sc, a) \in Nat
    BY TurnsAre DEF Fits
  <2>2. QED
    BY <2>1 DEF Fits, Ordered
<1>2. AllShown(sc, se, FALSE)
  BY DEF Fits, AllShown
<1>3. QED
  BY <1>1, <1>2 DEF Fits

\* The answer comes on the screen when the session has it, if it has a text.
LEMMA DoneInv == ASSUME TerminalInv, T!Done PROVE TerminalInv'
<1>1. PICK e : e = T!Entry("assistant", T!Blank, buffer)
  OBVIOUS
<1>2. /\ prompt = "streaming" /\ prompt' = "idle"
      /\ reply.at = "saved" \/ (reply.at = "running" /\ buffer = << >>)
      /\ screen' = IF buffer = << >> THEN screen ELSE Append(screen, e)
      /\ buffer' = << >> /\ reply' = [at |-> "none", parts |-> << >>]
      /\ UNCHANGED <<session, disk, asked, input, tab, active, inputs, restarts>>
      /\ UNCHANGED <<entries, cursor, file, typed, kept>>
  BY <1>1 DEF T!Done, T!streamMsg, T!line, T!past, T!ResetBuffer
<1>3. /\ buffer \in Seq(Pieces) /\ screen \in Seq(ScreenEntry) /\ session \in Seq(Replied) /\ asked \in Nat
      /\ Ends(buffer, reply.parts) /\ \A i \in DOMAIN buffer : buffer[i].turn = asked
      /\ reply.at = "saved" => /\ session # << >> /\ session[Len(session)].turn = asked
                               /\ session[Len(session)].parts = reply.parts
      /\ Fits(screen, session, asked, reply.at = "saved") /\ Rising(session, asked + 1)
  BY <1>2 DEF TerminalInv, ReplyInv, ScreenTypes, ScreenInv, SessionInv
<1>4. e \in ScreenEntry /\ e.role = "assistant" /\ e.parts = buffer
  BY <1>1, <1>3 DEF T!Entry, ScreenEntry, Words
<1>5. screen' \in Seq(ScreenEntry)
  BY <1>2, <1>3, <1>4
<1>6. ScreenTypes'
  BY <1>2, <1>5 DEF TerminalInv, ScreenTypes
<1>7. ReplyInv' /\ SessionInv'
  BY <1>2 DEF TerminalInv, ReplyInv, SessionInv
<1>8. Fits(screen', session, asked + 1, FALSE)
  <2>1. CASE buffer = << >>
    <3>1. reply.parts = << >>
      <4>1. Len(reply.parts) <= Len(buffer) /\ reply.parts \in Seq(Pieces)
        BY <1>3 DEF Ends, EndsWith, TerminalInv, ScreenTypes
      <4>2. QED
        BY <2>1, <4>1
    <3>2. PICK pending : pending = (reply.at = "saved")
      OBVIOUS
    <3>3. Fits(screen, session, asked, pending) /\ (pending => session[Len(session)].parts = << >>)
      BY <1>3, <3>1, <3>2
    <3>4. Fits(screen, session, asked + 1, FALSE)
      BY <1>3, <3>3, NothingPends
    <3>5. QED
      BY <1>2, <2>1, <3>4
  <2>2. CASE buffer # << >>
    <3>1. reply.at = "saved" /\ (reply.at = "saved") = TRUE
      BY <1>2, <2>2
    <3>2. Fits(screen, session, asked, TRUE)
      BY <1>3, <3>1
    <3>3. PICK longer : longer = Append(screen, e)
      OBVIOUS
    <3>4. Ends(e.parts, session[Len(session)].parts) /\ session # << >> /\ session[Len(session)].turn = asked
      BY <1>3, <1>4, <3>1
    <3>5. e.parts # << >> /\ \A i \in DOMAIN e.parts : e.parts[i].turn = asked
      BY <1>3, <1>4, <2>2
    <3>6. Fits(longer, session, asked + 1, FALSE)
      BY <1>3, <1>4, <3>2, <3>3, <3>4, <3>5, ReplyShown
    <3>7. QED
      BY <1>2, <2>2, <3>3, <3>6
  <2>3. QED
    BY <2>1, <2>2
<1>9. ScreenInv'
  BY <1>2, <1>8 DEF ScreenInv
<1>10. QED
  BY <1>2, <1>6, <1>7, <1>9, LineStays, HistoryAsItWas DEF TerminalInv

LEMMA ErrorInv == ASSUME TerminalInv, T!Error PROVE TerminalInv'
<1>1. PICK e : e = T!Entry("error", "error", << >>)
  OBVIOUS
<1>2. /\ prompt = "streaming" /\ prompt' = "idle" /\ reply.at = "running"
      /\ screen' = Append(screen, e)
      /\ buffer' = << >> /\ reply' = [at |-> "none", parts |-> << >>]
      /\ UNCHANGED <<session, disk, asked, input, tab, active, inputs, restarts>>
      /\ UNCHANGED <<entries, cursor, file, typed, kept>>
  BY <1>1 DEF T!Error, T!streamMsg, T!line, T!past, T!ResetBuffer
<1>3. e \in ScreenEntry /\ e.role # "assistant"
  BY <1>1 DEF T!Entry, ScreenEntry, Words
<1>4. screen \in Seq(ScreenEntry) /\ asked \in Nat /\ Fits(screen, session, asked, FALSE)
  <2>1. Fits(screen, session, asked, reply.at = "saved") /\ (reply.at = "saved") = FALSE
    BY <1>2 DEF TerminalInv, ScreenInv
  <2>2. screen \in Seq(ScreenEntry) /\ asked \in Nat
    BY DEF TerminalInv, ScreenTypes
  <2>3. QED
    BY <2>1, <2>2
<1>5. PICK longer : longer = Append(screen, e)
  OBVIOUS
<1>6. Fits(screen, session, asked + 1, FALSE)
  BY <1>4, NothingPends
<1>7. longer \in Seq(ScreenEntry) /\ Fits(longer, session, asked + 1, FALSE)
  BY <1>3, <1>4, <1>5, <1>6, OtherEntry
<1>8. ScreenTypes'
  BY <1>2, <1>5, <1>7 DEF TerminalInv, ScreenTypes
<1>9. ReplyInv' /\ SessionInv'
  BY <1>2 DEF TerminalInv, ReplyInv, SessionInv
<1>10. ScreenInv'
  BY <1>2, <1>5, <1>7 DEF ScreenInv
<1>11. QED
  BY <1>2, <1>8, <1>9, <1>10, LineStays, HistoryAsItWas DEF TerminalInv

\* After a restart there is no answer on the screen, and the history is the file's.
LEMMA RestartInv == ASSUME TerminalInv, T!Restart PROVE TerminalInv'
<1>1. /\ prompt' = "idle" /\ input' = T!Blank /\ tab' = [index |-> 0, matches |-> << >>]
      /\ screen' = << >> /\ buffer' = << >> /\ restarts < MaxStarts /\ restarts' = restarts + 1
      /\ entries' = T!Load(file) /\ cursor' = Len(entries') + 1 /\ typed' = T!Blank /\ kept' = TRUE
      /\ active' = "default" /\ session' = disk /\ reply' = [at |-> "none", parts |-> << >>]
      /\ UNCHANGED <<file, disk, asked, inputs>>
  BY DEF T!Restart, T!NoTab
<1>2. ScreenTypes'
  BY <1>1, Bounds, Commands DEF TerminalInv, ScreenTypes
<1>3. ReplyInv' /\ SessionInv'
  BY <1>1 DEF TerminalInv, ReplyInv, SessionInv
<1>4. ScreenInv'
  BY <1>1, NothingThere DEF ScreenInv
<1>5. LineTypes'
  BY <1>1 DEF LineTypes
<1>6. HistoryInv'
  <2>1. file \in Seq(Typed)
    BY DEF TerminalInv, HistoryInv
  <2>2. T!Load(file) \in Seq(Typed) /\ Len(T!Load(file)) <= HistorySize
    BY <2>1, LoadIs
  <2>3. T!Load(file)' = T!Load(file')
    BY DEF T!Load, T!Kept
  <2>4. file' = file
    BY <1>1
  <2>5. PICK es : es = T!Load(file)
    OBVIOUS
  <2>6. entries' = es /\ es \in Seq(Typed) /\ Len(es) <= HistorySize /\ T!Load(file)' = es
    BY <1>1, <2>2, <2>3, <2>4, <2>5
  <2>7. cursor' \in 1..(Len(entries') + 1)
    BY <1>1, <2>6
  <2>8. QED
    BY <1>1, <2>1, <2>4, <2>6, <2>7 DEF HistoryInv
<1>7. QED
  BY <1>2, <1>3, <1>4, <1>5, <1>6 DEF TerminalInv

LEMMA NextTerminalInv == TerminalInv /\ [ChannelsNext]_<<channel, vars, wVars, tVars>> => TerminalInv'
<1> SUFFICES ASSUME TerminalInv, [ChannelsNext]_<<channel, vars, wVars, tVars>> PROVE TerminalInv'
  OBVIOUS
<1>1. CASE T!Next
  <2>1. CASE T!Keys
    BY <2>1, TypeInv, TabInv, UpDownInv, CtrlLInv, EscInv, CtrlCInv DEF T!Keys
  <2>2. CASE T!Enter
    BY <2>2, EnterCommandInv, EnterQuitInv, EnterChatInv DEF T!Enter
  <2>3. QED
    BY <1>1, <2>1, <2>2, DeltaInv, ToolRoundInv, SaveReplyInv, DoneInv, ErrorInv, RestartInv DEF T!Next
<1>2. CASE UNCHANGED tVars
  <2>1. /\ UNCHANGED <<prompt, screen, buffer, session, disk, reply, asked, active, inputs, restarts>>
        /\ UNCHANGED <<input, tab>> /\ UNCHANGED <<entries, cursor, file, typed, kept>>
    BY <1>2 DEF tVars
  <2>2. inputs' \in inputs..MaxTyped
    BY <2>1, Bounds DEF TerminalInv, ScreenTypes
  <2>3. QED
    BY <2>1, <2>2, ScreenStays, LineStays, HistoryAsItWas DEF TerminalInv
<1>3. QED
  BY <1>1, <1>2 DEF ChannelsNext

LEMMA ChannelsTerminalInv == ChannelsSpec => []TerminalInv
<1>1. ChannelsInit => TerminalInv
  BY TerminalInit DEF ChannelsInit
<1>2. QED
  BY <1>1, NextTerminalInv, PTL DEF ChannelsSpec

\* Of each answer the terminal shows, the session keeps what stands behind the
\* last line break, turn for turn; what was typed last is what the up key brings
\* back, now and after a restart; the completion shown is the one that stands
\* in the line.
THEOREM TerminalStaysConsistent == ChannelsSpec => []TerminalConsistent
<1>1. TerminalInv => T!ScreenFollowsSession
  <2>1. SUFFICES ASSUME TerminalInv PROVE T!ScreenFollowsSession
    OBVIOUS
  <2>2. T!Answers = AnswersOn(screen) /\ \A a \in T!Answers : T!TurnOf(a) = TurnAt(screen, a)
    BY DEF T!Answers, T!TurnOf, AnswersOn, TurnAt
  <2>3. \A all \in Seq(Pieces), text \in Seq(Pieces) : Ends(all, text) => T!EndsWith(all, text)
    BY SuffixIs DEF Ends, T!EndsWith
  <2>4. prompt = "streaming" => \A i \in DOMAIN buffer : buffer[i].turn = asked
    BY <2>1 DEF TerminalInv, ReplyInv
  <2>5. ASSUME prompt # "quit"
        PROVE  \E n, pending : Fits(screen, session, n, pending) /\ (pending => reply.at = "saved")
    BY <2>1, <2>5 DEF TerminalInv, ScreenInv, ScreenTypes
  <2>6. ASSUME prompt # "quit", NEW n, NEW pending, Fits(screen, session, n, pending), pending => reply.at = "saved"
        PROVE  /\ \A a, b \in T!Answers : a < b => T!TurnOf(a) < T!TurnOf(b)
               /\ \A r, q \in DOMAIN session : r < q => session[r].turn < session[q].turn
               /\ \A a \in T!Answers :
                    /\ \A i \in DOMAIN screen[a].parts : screen[a].parts[i].turn = T!TurnOf(a)
                    /\ \A r \in DOMAIN session :
                         session[r].turn = T!TurnOf(a) => T!EndsWith(screen[a].parts, session[r].parts)
               /\ \A t \in T!Shown : t \in T!Saved \/ \A s \in T!Saved : t < s
               /\ \A r \in DOMAIN session :
                    \/ session[r].parts = << >> \/ session[r].turn \in T!Shown
                    \/ \A t \in T!Shown : session[r].turn < t
                    \/ reply.at = "saved" /\ r = Len(session)
    <3>1. \A a, b \in T!Answers : a < b => T!TurnOf(a) < T!TurnOf(b)
      BY <2>2, <2>6 DEF Fits, Ordered
    <3>2. \A r, q \in DOMAIN session : r < q => session[r].turn < session[q].turn
      BY <2>1 DEF TerminalInv, SessionInv, Rising
    <3>3. \A a \in T!Answers : \A i \in DOMAIN screen[a].parts : screen[a].parts[i].turn = T!TurnOf(a)
      BY <2>2, <2>6 DEF Fits, Ordered
    <3>4. ASSUME NEW a \in T!Answers, NEW r \in DOMAIN session, session[r].turn = T!TurnOf(a)
          PROVE  T!EndsWith(screen[a].parts, session[r].parts)
      <4>1. Ends(screen[a].parts, session[r].parts)
        BY <2>2, <2>6, <3>4 DEF Fits, Alike
      <4>2. screen[a] \in ScreenEntry /\ session[r] \in Replied
        BY <2>1, <3>4 DEF TerminalInv, ScreenTypes, T!Answers
      <4>3. screen[a].parts \in Seq(Pieces) /\ session[r].parts \in Seq(Pieces)
        BY <4>2 DEF ScreenEntry, Replied
      <4>4. QED
        BY <2>3, <4>1, <4>3
    <3>5. \A t \in T!Shown : t \in T!Saved \/ \A s \in T!Saved : t < s
      <4>1. ASSUME NEW a \in T!Answers
            PROVE  T!TurnOf(a) \in T!Saved \/ \A s \in T!Saved : T!TurnOf(a) < s
        BY <2>2, <2>6 DEF Fits, AllSaved, T!Saved
      <4>2. QED
        BY <4>1 DEF T!Shown
    <3>6. ASSUME NEW r \in DOMAIN session
          PROVE  \/ session[r].parts = << >> \/ session[r].turn \in T!Shown
                 \/ \A t \in T!Shown : session[r].turn < t
                 \/ reply.at = "saved" /\ r = Len(session)
      BY <2>2, <2>6 DEF Fits, AllShown, T!Shown
    <3>7. QED
      BY <3>1, <3>2, <3>3, <3>4, <3>5, <3>6
  <2>7. QED
    BY <2>4, <2>5, <2>6 DEF T!ScreenFollowsSession
<1>2. TerminalInv => T!HistoryIsKept
  BY DEF TerminalInv, HistoryInv, Recalled, T!HistoryIsKept, T!Last
<1>3. TerminalInv => T!CompletionIsShown
  BY DEF TerminalInv, LineTypes, T!CompletionIsShown
<1>4. TerminalInv => TerminalConsistent
  BY <1>1, <1>2, <1>3 DEF TerminalConsistent, T!TerminalConsistent
<1>5. QED
  BY <1>4, ChannelsTerminalInv, PTL

-----------------------------------------------------------------------------
(* Types and bounds of the three channels.                                  *)

LEMMA FaultsStayBounded == ChannelsSpec => [](faults \in 0..MaxFaults)
<1>1. MaxFaults \in Nat
  BY ChannelsAssumption DEF W!WhatsAppAssumption
<1>2. ChannelsInit => faults \in 0..MaxFaults
  BY <1>1 DEF ChannelsInit, W!Init
<1>3. faults \in 0..MaxFaults /\ [ChannelsNext]_<<channel, vars, wVars, tVars>> => (faults \in 0..MaxFaults)'
  <2>1. ASSUME faults \in 0..MaxFaults, W!Next PROVE faults' \in 0..MaxFaults
    BY <1>1, <2>1 DEF W!Next, W!Arrive, W!Poll, W!Receive, W!Handle, W!Send, W!Delete, W!DeleteFails, W!Crash
  <2>2. UNCHANGED wVars => faults' = faults
    BY DEF wVars
  <2>3. QED
    BY <2>1, <2>2 DEF ChannelsNext
<1>4. QED
  BY <1>2, <1>3, PTL DEF ChannelsSpec

LEMMA ChannelsStreamInv == ChannelsSpec => []StreamInv
<1>1. ChannelsInit => StreamInv
  BY InitStreamInv DEF ChannelsInit
<1>2. [ChannelsNext]_<<channel, vars, wVars, tVars>> => [Next]_vars
  BY DEF ChannelsNext
<1>3. QED
  BY <1>1, <1>2, NextStreamInv, PTL DEF ChannelsSpec

LEMMA TerminalTypes == TerminalInv => T!TypeOK
<1>1. SUFFICES ASSUME TerminalInv PROVE T!TypeOK
  OBVIOUS
<1>2. tab.index \in 0..Len(tab.matches)
  BY <1>1 DEF TerminalInv, LineTypes
<1>3. \A i \in DOMAIN screen : screen[i].role \in {"user", "assistant", "system", "error"}
  <2>1. \A i \in DOMAIN screen : screen[i] \in ScreenEntry
    BY <1>1 DEF TerminalInv, ScreenTypes
  <2>2. QED
    BY <2>1 DEF ScreenEntry
<1>4. asked \in 0..MaxTyped
  BY <1>1, Bounds DEF TerminalInv, ScreenTypes
<1>5. QED
  BY <1>1, <1>2, <1>3, <1>4 DEF TerminalInv, ScreenTypes, LineTypes, HistoryInv, T!TypeOK

\* No channel leaves its types and bounds, at any size of the constants.
THEOREM ChannelTypesKept == ChannelsSpec => []TypesOK
<1>1. StreamInv => TypeOK
  BY DEF StreamInv, StreamTypes, TypeOK, HandlerLabels
<1>2. PollInv /\ faults \in 0..MaxFaults => W!TypeOK
  BY DEF PollInv, PollTypes, W!TypeOK
<1>3. ChannelsInit => PollInv
  BY PollInitInv DEF ChannelsInit
<1>4. StreamInv /\ PollInv /\ faults \in 0..MaxFaults /\ TerminalInv => TypesOK
  BY <1>1, <1>2, TerminalTypes DEF TypesOK
<1>5. ChannelsSpec => []PollInv
  BY <1>3, NextPollInv, PTL DEF ChannelsSpec
<1>6. QED
  BY <1>4, <1>5, FaultsStayBounded, ChannelsStreamInv, ChannelsTerminalInv, PTL
=============================================================================
