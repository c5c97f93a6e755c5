---------------------------- MODULE SerialProofs ----------------------------
(***************************************************************************)
(* Proofs about Router's serial channels over a database, where a user's   *)
(* next message waits for the answer to the last one: what is saved moves  *)
(* forward, and an answered exchange is its end.  Where no query fails,    *)
(* the pipeline implements the store of windows: every step of a request,  *)
(* a crash or a /clear is a step of Windows or changes nothing there.      *)
(***************************************************************************)
EXTENDS RouterProofs

Working == {"addUser", "putUser", "history", "answer", "addReply", "putReply",
            "marshal", "write", "log", "unsaved"}

IsSerial(r) == KeyOf[r] \in SerialKeys
RowOf(k) == rows[SlotOf[k]]

\* The window ends with the answer to r.
Ends(r, msgs) ==
    msgs # << >> /\ msgs[Len(msgs)] = [req |-> r, role |-> "assistant"]

\* What holds of a request of a serial channel: it works on the session the
\* store has for its key, which nobody else changes meanwhile.
Alone(r) ==
    /\ pc[r] \in Working => sessions[KeyOf[r]] = ref[r]
    /\ pc[r] \in {"putUser", "putReply", "write"} => slice[r] = heap[ref[r]]
    /\ pc[r] \in {"marshal", "write", "log"} => Ends(r, heap[ref[r]])
    /\ pc[r] = "log" => RowOf(KeyOf[r]) = [owner |-> KeyOf[r], msgs |-> heap[ref[r]]]

\* A request's session object is in the map only once it was installed, so a
\* request that loads into its object changes no session in use.
SInv ==
    /\ \A r \in Requests : pc[r] # "rewrite"
    /\ \A r, q \in InFlight : KeyOf[r] = KeyOf[q] /\ IsSerial(r) => r = q
    /\ \A q \in Requests, k \in Keys :
          sessions[k] = q => pc[q] \notin {"idle", "lookup", "load", "install"}
    /\ \A r \in Requests : IsSerial(r) => Alone(r)

\* msgs continues what is saved for k, unless a session was cleared.
Kept(k, msgs) == clears = 0 /\ RowOf(k) \in Row => Continues(RowOf(k).msgs, msgs)

PInv ==
    /\ \A k \in SerialKeys : sessions[k] # NoSession => Kept(k, heap[sessions[k]])
    /\ \A r \in Requests : IsSerial(r) /\ pc[r] = "install" => Kept(KeyOf[r], heap[r])

-----------------------------------------------------------------------------
(* The window.                                                             *)

\* A window continues itself, and goes on doing so when a message is added.
LEMMA ContinuesItself == ASSUME NEW msgs \in Seq(Message) PROVE Continues(msgs, msgs)
BY DEF Continues

LEMMA AppendFacts ==
    ASSUME NEW seq \in Seq(Message), NEW m \in Message
    PROVE  /\ Append(seq, m) # << >> /\ Len(Append(seq, m)) = Len(seq) + 1
           /\ Append(seq, m)[Len(seq) + 1] = m
           /\ \A i \in 1..Len(seq) : Append(seq, m)[i] = seq[i]
OBVIOUS

LEMMA AddMessageLast ==
    ASSUME NEW msgs \in Seq(Message), NEW m \in Message
    PROVE  AddMessage(msgs, m) # << >> /\ AddMessage(msgs, m)[Len(AddMessage(msgs, m))] = m
<1>1. CASE Len(msgs) >= MaxMessages
  <2>1. msgs # << >>
    BY <1>1, MaxMessagesAssumption
  <2>2. Tail(msgs) \in Seq(Message)
    BY <2>1
  <2>3. AddMessage(msgs, m) = Append(Tail(msgs), m)
    BY <1>1 DEF AddMessage
  <2>4. Append(Tail(msgs), m)[Len(Append(Tail(msgs), m))] = m /\ Append(Tail(msgs), m) # << >>
    BY <2>2, AppendFacts
  <2>5. QED
    BY <2>3, <2>4
<1>2. CASE ~(Len(msgs) >= MaxMessages)
  BY <1>2 DEF AddMessage
<1>3. QED
  BY <1>1, <1>2

LEMMA ContinuesAdded ==
    ASSUME NEW old \in Seq(Message), NEW msgs \in Seq(Message), NEW m \in Message,
           Len(msgs) <= MaxMessages, Continues(old, msgs)
    PROVE  Continues(old, AddMessage(msgs, m))
<1>1. PICK n \in 0..Len(old) :
         /\ Len(old) - n <= Len(msgs)
         /\ \A i \in 1..(Len(old) - n) : msgs[i] = old[n + i]
         /\ n > 0 => Len(msgs) = MaxMessages
  BY DEF Continues
<1>2. CASE Len(msgs) < MaxMessages
  <2>1. n = 0 /\ AddMessage(msgs, m) = Append(msgs, m)
    BY <1>1, <1>2, MaxMessagesAssumption DEF AddMessage
  <2>2. /\ Len(Append(msgs, m)) = Len(msgs) + 1
        /\ \A i \in 1..Len(msgs) : Append(msgs, m)[i] = msgs[i]
    OBVIOUS
  <2>3. QED
    BY <1>1, <2>1, <2>2 DEF Continues
<1>3. CASE Len(msgs) = MaxMessages
  <2>1. msgs # << >>
    BY <1>3, MaxMessagesAssumption
  <2>2. /\ Tail(msgs) \in Seq(Message) /\ Len(Tail(msgs)) = MaxMessages - 1
        /\ \A i \in 1..(MaxMessages - 1) : Tail(msgs)[i] = msgs[i + 1]
    BY <1>3, <2>1
  <2>3. AddMessage(msgs, m) = Append(Tail(msgs), m)
    BY <1>3, MaxMessagesAssumption DEF AddMessage
  <2>4. /\ Len(Append(Tail(msgs), m)) = Len(Tail(msgs)) + 1
        /\ \A i \in 1..Len(Tail(msgs)) : Append(Tail(msgs), m)[i] = Tail(msgs)[i]
    BY <2>2, AppendFacts
  <2>5. /\ Len(AddMessage(msgs, m)) = MaxMessages
        /\ \A i \in 1..(MaxMessages - 1) : AddMessage(msgs, m)[i] = msgs[i + 1]
    BY <2>2, <2>3, <2>4, MaxMessagesAssumption
  <2>6. CASE n = Len(old)
    <3>1. Len(old) \in Nat /\ Len(old) \in 0..Len(old) /\ Len(old) - Len(old) = 0
      OBVIOUS
    <3>2. 1..(Len(old) - Len(old)) = {}
      BY <3>1
    <3>3. Len(old) - Len(old) <= Len(AddMessage(msgs, m)) /\ Len(AddMessage(msgs, m)) = MaxMessages
      BY <2>5, <3>1, MaxMessagesAssumption
    <3>4. \A i \in 1..(Len(old) - Len(old)) : AddMessage(msgs, m)[i] = old[Len(old) + i]
      BY <3>2
    <3>5. QED
      BY <3>1, <3>3, <3>4, Zenon DEF Continues
  <2>7. CASE n < Len(old)
    <3>1. n + 1 \in 0..Len(old) /\ Len(old) - (n + 1) <= Len(AddMessage(msgs, m))
      BY <1>1, <1>3, <2>5, <2>7, MaxMessagesAssumption
    <3>2. ASSUME NEW i \in 1..(Len(old) - (n + 1))
          PROVE  AddMessage(msgs, m)[i] = old[(n + 1) + i]
      <4>1. i + 1 \in 1..(Len(old) - n) /\ i \in 1..(MaxMessages - 1)
        BY <1>1, <1>3, <3>2, MaxMessagesAssumption
      <4>2. msgs[i + 1] = old[n + (i + 1)] /\ n + (i + 1) = (n + 1) + i
        BY <1>1, <4>1
      <4>3. QED
        BY <2>5, <4>1, <4>2
    <3>3. QED
      BY <2>5, <3>1, <3>2 DEF Continues
  <2>8. QED
    BY <2>6, <2>7
<1>4. QED
  BY <1>2, <1>3, MaxMessagesAssumption

-----------------------------------------------------------------------------
(* What a step of one request leaves alone.                                *)

LEMMA WorkFrame ==
    ASSUME IInv, NEW q \in Requests, Work(q)
    PROVE  /\ pc[q] \notin Idle /\ clears' = clears
           /\ \A r \in Requests : r # q =>
                 pc'[r] = pc[r] /\ ref'[r] = ref[r] /\ slice'[r] = slice[r]
           /\ \A k \in Keys : k # KeyOf[q] => sessions'[k] = sessions[k]
           /\ \A s \in Slots : s # SlotOf[KeyOf[q]] => rows'[s] = rows[s]
           /\ \A o \in Objects :
                 \/ heap'[o] = heap[o]
                 \/ pc[q] = "load" /\ o = q
                 \/ pc[q] \in {"putUser", "putReply"} /\ o = ref[q]
<1> USE DEF IInv, TypeOK, Goto, Idle
<1>1. CASE Lookup(q)
  BY <1>1 DEF Lookup
<1>2. CASE Load(q)
  BY <1>2 DEF Load
<1>3. CASE Install(q)
  BY <1>3 DEF Install
<1>4. CASE \E from \in {"addUser", "history", "addReply", "marshal"}, to \in Labels : Read(q, from, to)
  BY <1>4 DEF Read
<1>5. CASE \E from \in {"putUser", "putReply"}, to \in Labels, role \in Roles : Put(q, from, role, to)
  BY <1>5 DEF Put
<1>6. CASE Answer(q) \/ AnswerError(q) \/ LoadError(q) \/ SaveError(q) \/ LogUsage(q)
  BY <1>6 DEF Answer, AnswerError, LoadError, SaveError, LogUsage, Finish
<1>7. CASE Write(q)
  BY <1>7 DEF Write
<1>8. CASE Rewrite(q)
  BY <1>8 DEF Rewrite
<1>9. QED
  BY <1>1, <1>2, <1>3, <1>4, <1>5, <1>6, <1>7, <1>8
     DEF Work, AddUserMessage, GetHistory, AddAssistantMessage, Marshal, Labels, Roles
\* Two keys of a database never share a row.
LEMMA OwnRow ==
    ASSUME LazyLoad, NEW k1 \in Keys, NEW k2 \in Keys, k1 # k2
    PROVE  SlotOf[k1] # SlotOf[k2] /\ SlotOf[k1] \in Slots
BY KeyedRows, RouterAssumption DEF LazyLoad

LEMMA WorkingRef ==
    ASSUME IInv, NEW r \in Requests, pc[r] \in Working
    PROVE  ref[r] \in Objects /\ Owner(ref[r]) = KeyOf[r] /\ KeyOf[r] \in Keys
BY RouterAssumption DEF IInv, TypeOK, Working, Idle

LEMMA RequestOwner == ASSUME NEW r \in Requests PROVE r \in Objects /\ Owner(r) = KeyOf[r]
BY DEF Objects, Owner

\* A step of one request changes neither the session nor the row another
\* request of a serial channel works on.
LEMMA OthersUntouched ==
    ASSUME IInv, SInv, LazyLoad, NEW q \in Requests, Work(q),
           NEW r \in Requests, IsSerial(r), r # q, pc[r] \in Working
    PROVE  /\ pc'[r] = pc[r] /\ ref'[r] = ref[r] /\ slice'[r] = slice[r]
           /\ sessions'[KeyOf[r]] = sessions[KeyOf[r]]
           /\ RowOf(KeyOf[r])' = RowOf(KeyOf[r])
           /\ heap'[ref[r]] = heap[ref[r]]
<1>1. pc[r] \notin Idle /\ pc[q] \notin Idle
  BY WorkFrame DEF Working, Idle
<1>2. KeyOf[r] # KeyOf[q] /\ KeyOf[r] \in Keys /\ KeyOf[q] \in Keys
  BY <1>1, RouterAssumption DEF SInv, InFlight
<1>3. SlotOf[KeyOf[r]] # SlotOf[KeyOf[q]] /\ SlotOf[KeyOf[r]] \in Slots
  BY <1>2, OwnRow
<1>4. ref[r] \in Objects /\ Owner(ref[r]) = KeyOf[r]
  BY WorkingRef
<1>5. ref[r] # q
  BY <1>2, <1>4, RequestOwner
<1>6. pc[q] \in {"putUser", "putReply"} => ref[r] # ref[q]
  BY <1>2, <1>4, WorkingRef DEF Working
<1>7. heap'[ref[r]] = heap[ref[r]]
  BY <1>4, <1>5, <1>6, WorkFrame
<1>8. RowOf(KeyOf[r])' = RowOf(KeyOf[r])
  BY <1>3, WorkFrame DEF RowOf
<1>9. QED
  BY <1>2, <1>7, <1>8, WorkFrame

-----------------------------------------------------------------------------
(* SInv is inductive.                                                      *)

\* A request's own step keeps Alone.
LEMMA OwnAlone ==
    ASSUME IInv, SInv, LazyLoad, NEW q \in Requests, Work(q), IsSerial(q)
    PROVE  Alone(q)'
<1> USE DEF Goto, Working
<1>1. pc \in [Requests -> Labels] /\ ref \in [Requests -> Objects \cup {NoSession}]
      /\ slice \in [Requests -> Seq(Message)] /\ heap \in [Objects -> Seq(Message)]
      /\ rows \in [Slots -> Row \cup {NoRow, Torn}]
      /\ sessions \in [Keys -> Objects \cup {NoSession}]
  BY DEF IInv, TypeOK
<1>2. Alone(q) /\ KeyOf[q] \in Keys /\ SlotOf[KeyOf[q]] \in Slots
  BY RouterAssumption DEF SInv
<1>3. CASE Lookup(q)
  BY <1>1, <1>2, <1>3 DEF Lookup, Alone
<1>4. CASE Load(q)
  BY <1>1, <1>2, <1>4 DEF Load, Alone
<1>5. CASE Install(q)
  BY <1>1, <1>2, <1>5 DEF Install, Alone
<1>6. ASSUME NEW from \in {"addUser", "history", "addReply", "marshal"},
             NEW to \in {"putUser", "answer", "putReply", "write"},
             to = "write" => from = "marshal", Read(q, from, to)
      PROVE  Alone(q)'
  BY <1>1, <1>2, <1>6 DEF Read, Alone, Ends
<1>7. ASSUME Put(q, "putUser", "user", "history") PROVE Alone(q)'
  BY <1>1, <1>2, <1>7 DEF Put, Alone
<1>8. ASSUME Put(q, "putReply", "assistant", "marshal") PROVE Alone(q)'
  <2>1. [req |-> q, role |-> "assistant"] \in Message
    BY DEF Message, Roles
  <2>2. ref[q] \in Objects
    BY <1>8, WorkingRef DEF Put
  <2>3. Ends(q, AddMessage(slice[q], [req |-> q, role |-> "assistant"]))
    BY <1>1, <2>1, AddMessageLast DEF Ends
  <2>4. heap'[ref[q]] = AddMessage(slice[q], [req |-> q, role |-> "assistant"])
    BY <1>1, <1>8, <2>2 DEF Put
  <2>5. Ends(q, heap'[ref'[q]])
    BY <1>8, <2>3, <2>4 DEF Put
  <2>6. sessions'[KeyOf[q]] = ref'[q] /\ pc'[q] = "marshal"
    BY <1>1, <1>2, <1>8 DEF Put, Alone
  <2>7. QED
    BY <2>5, <2>6 DEF Alone, Ends
<1>9. CASE Answer(q) \/ AnswerError(q) \/ LoadError(q) \/ SaveError(q) \/ LogUsage(q)
  <2>1. pc[q] # "rewrite"
    BY DEF SInv
  <2>2. UNCHANGED <<sessions, ref>> /\ pc'[q] \in {"addReply", "done", "unsaved"}
    BY <1>1, <1>9 DEF Answer, AnswerError, LoadError, SaveError, LogUsage, Finish
  <2>3. pc'[q] # "done" => pc[q] \in {"answer", "write"}
    BY <1>1, <1>9, <2>1 DEF Answer, AnswerError, LoadError, SaveError, LogUsage, Finish
  <2>4. QED
    BY <1>2, <2>2, <2>3 DEF Alone, Working
<1>10. CASE Write(q)
  <2>1. Backend # "yaml"
    BY DEF LazyLoad
  <2>2. rows' = [rows EXCEPT ![SlotOf[KeyOf[q]]] = [owner |-> KeyOf[q], msgs |-> slice[q]]]
    BY <1>10, <2>1 DEF Write
  <2>3. RowOf(KeyOf[q])' = [owner |-> KeyOf[q], msgs |-> slice[q]]
    BY <1>1, <1>2, <2>2 DEF RowOf
  <2>4. pc[q] = "write" /\ pc'[q] = "log" /\ UNCHANGED <<sessions, heap, ref, slice>>
    BY <1>1, <1>10, <2>1 DEF Write
  <2>5. QED
    BY <1>2, <2>3, <2>4 DEF Alone, Ends
<1>11. CASE Rewrite(q)
  BY <1>11 DEF Rewrite, SInv
<1>12. Backend # "memory"
  BY DEF LazyLoad
<1>13. QED
  BY <1>3, <1>4, <1>5, <1>6, <1>7, <1>8, <1>9, <1>10, <1>11, <1>12
     DEF Work, AddUserMessage, GetHistory, AddAssistantMessage, Marshal

LEMMA WorkMoves ==
    ASSUME IInv, SInv, LazyLoad, NEW q \in Requests, Work(q)
    PROVE  /\ pc'[q] \notin {"rewrite", "idle", "lookup"}
           /\ pc'[q] \in {"load", "install"} => pc[q] \in {"lookup", "load"}
           /\ \/ sessions' = sessions
              \/ sessions' = [sessions EXCEPT ![KeyOf[q]] = q] /\ pc'[q] = "addUser"
<1> USE DEF Goto, IInv, TypeOK
<1>1. CASE Lookup(q)
  BY <1>1 DEF Lookup
<1>2. CASE Load(q)
  BY <1>2 DEF Load
<1>3. CASE Install(q)
  BY <1>3 DEF Install
<1>4. ASSUME NEW from \in Labels, NEW to \in {"putUser", "answer", "putReply", "write", "log"},
             Read(q, from, to)
      PROVE  pc'[q] = to /\ sessions' = sessions
  BY <1>4 DEF Read
<1>5. ASSUME NEW from \in Labels, NEW role \in Roles, NEW to \in {"history", "marshal"},
             Put(q, from, role, to)
      PROVE  pc'[q] = to /\ sessions' = sessions
  BY <1>5 DEF Put
<1>6. CASE Answer(q) \/ AnswerError(q) \/ LoadError(q) \/ SaveError(q) \/ LogUsage(q)
  BY <1>6 DEF Answer, AnswerError, LoadError, SaveError, LogUsage, Finish
<1>7. CASE Write(q)
  BY <1>7 DEF Write, LazyLoad
<1>8. CASE Rewrite(q)
  BY <1>8 DEF Rewrite
<1>9. CASE AddUserMessage(q) \/ GetHistory(q) \/ AddAssistantMessage(q) \/ Marshal(q)
  BY <1>4, <1>5, <1>9 DEF AddUserMessage, GetHistory, AddAssistantMessage, Marshal, Labels, Roles
<1>10. QED
  BY <1>1, <1>2, <1>3, <1>6, <1>7, <1>8, <1>9 DEF Work

LEMMA WorkSInv ==
    ASSUME IInv, SInv, LazyLoad, NEW q \in Requests, Work(q) PROVE SInv'
<1>1. \A r \in Requests : pc'[r] # "rewrite"
  BY WorkMoves, WorkFrame DEF SInv
<1>2. \A r \in Requests : pc'[r] \notin Idle => pc[r] \notin Idle
  BY WorkFrame
<1>3. \A r, o \in InFlight' : KeyOf[r] = KeyOf[o] /\ IsSerial(r) => r = o
  BY <1>2 DEF SInv, InFlight
<1>4. \A o \in Requests, k \in Keys :
         sessions'[k] = o => pc'[o] \notin {"idle", "lookup", "load", "install"}
  <2>1. SUFFICES ASSUME NEW o \in Requests, NEW k \in Keys, sessions'[k] = o
                 PROVE  pc'[o] \notin {"idle", "lookup", "load", "install"}
    OBVIOUS
  <2>2. CASE sessions[k] = o
    BY <2>2, WorkMoves, WorkFrame DEF SInv
  <2>3. CASE sessions[k] # o
    BY <2>1, <2>3, WorkMoves DEF IInv, TypeOK
  <2>4. QED
    BY <2>2, <2>3
<1>5. \A r \in Requests : IsSerial(r) => Alone(r)'
  <2>1. SUFFICES ASSUME NEW r \in Requests, IsSerial(r), r # q PROVE Alone(r)'
    BY OwnAlone
  <2>2. CASE pc[r] \in Working
    <3>1. Alone(r)
      BY <2>1 DEF SInv
    <3>2. QED
      BY <2>1, <2>2, <3>1, OthersUntouched DEF Alone, Ends
  <2>3. CASE pc[r] \notin Working
    BY <2>1, <2>3, WorkFrame DEF Alone, Working
  <2>4. QED
    BY <2>2, <2>3
<1>6. QED
  BY <1>1, <1>3, <1>4, <1>5 DEF SInv, IsSerial

LEMMA ReceiveSInv ==
    ASSUME IInv, SInv, NEW q \in Requests, Receive(q) PROVE SInv'
<1>1. /\ pc'[q] \in {"done", "lookup"} /\ pc[q] = "idle"
      /\ \A r \in Requests : r # q => pc'[r] = pc[r]
      /\ UNCHANGED <<sessions, heap, rows, ref, slice>>
      /\ KeyOf[q] \in SerialKeys => \A r \in InFlight : KeyOf[r] # KeyOf[q]
  BY DEF Receive, Finish, Goto, IInv, TypeOK
<1>2. \A r, o \in InFlight' : KeyOf[r] = KeyOf[o] /\ IsSerial(r) => r = o
  BY <1>1 DEF SInv, InFlight, IsSerial
<1>3. \A r \in Requests : IsSerial(r) => Alone(r)'
  BY <1>1 DEF SInv, Alone, Ends, Working, RowOf
<1>4. QED
  BY <1>1, <1>2, <1>3 DEF SInv, IsSerial

LEMMA ClearSInv ==
    ASSUME IInv, SInv, LazyLoad, NEW k \in Keys, ClearSession(k) PROVE SInv'
<1> DEFINE obj == IF sessions[k] = NoSession THEN k ELSE sessions[k]
<1>1. obj \in Objects /\ Owner(obj) = k
  BY RouterAssumption DEF IInv, TypeOK, Objects, Owner
<1>2. /\ sessions' = [sessions EXCEPT ![k] = obj] /\ heap' = [heap EXCEPT ![obj] = << >>]
      /\ \A s \in Slots : s # SlotOf[k] => rows'[s] = rows[s]
      /\ \A r \in InFlight : KeyOf[r] # k
      /\ UNCHANGED <<pc, ref, slice>>
  BY DEF ClearSession, IInv, TypeOK
<1> HIDE DEF obj
<1>3. \A o \in Requests : \A j \in Keys : sessions'[j] = o => sessions[j] = o
  BY <1>2, RouterAssumption DEF obj, IInv, TypeOK
<1>4. ASSUME NEW r \in Requests, IsSerial(r) PROVE Alone(r)'
  <2>1. CASE pc[r] \in Working
    <3>1. r \in InFlight
      BY <2>1 DEF InFlight, Working, Idle
    <3>2. KeyOf[r] # k /\ KeyOf[r] \in Keys /\ ref[r] \in Objects /\ Owner(ref[r]) = KeyOf[r]
      BY <1>2, <2>1, <3>1, WorkingRef
    <3>3. heap'[ref[r]] = heap[ref[r]] /\ sessions'[KeyOf[r]] = sessions[KeyOf[r]]
      BY <1>1, <1>2, <3>2 DEF IInv, TypeOK
    <3>4. RowOf(KeyOf[r])' = RowOf(KeyOf[r])
      BY <1>2, <3>2, OwnRow DEF RowOf
    <3>5. Alone(r)
      BY <1>4 DEF SInv
    <3>6. QED
      BY <1>2, <3>3, <3>4, <3>5 DEF Alone, Ends
  <2>2. CASE pc[r] \notin Working
    BY <1>2, <2>2 DEF Alone, Working
  <2>3. QED
    BY <2>1, <2>2
<1>5. \A r, q \in InFlight' : KeyOf[r] = KeyOf[q] /\ IsSerial(r) => r = q
  BY <1>2 DEF SInv, InFlight
<1>6. \A r \in Requests : pc'[r] # "rewrite"
  BY <1>2 DEF SInv
<1>7. \A q \in Requests, j \in Keys :
         sessions'[j] = q => pc'[q] \notin {"idle", "lookup", "load", "install"}
  BY <1>2, <1>3 DEF SInv
<1>8. QED
  BY <1>4, <1>5, <1>6, <1>7 DEF SInv, IsSerial

LEMMA CrashSInv == ASSUME IInv, SInv, Crash PROVE SInv'
<1>1. \A r \in Requests : pc'[r] \in Idle
  BY DEF Crash, Idle
<1>2. InFlight' = {}
  BY <1>1 DEF InFlight
<1>3. \A q \in Requests, k \in Keys : sessions'[k] # q
  BY RouterAssumption DEF Crash
<1>4. \A r \in Requests : Alone(r)'
  BY <1>1 DEF Alone, Working, Idle
<1>5. \A r \in Requests : pc'[r] # "rewrite"
  BY <1>1 DEF Idle
<1>6. QED
  BY <1>2, <1>3, <1>4, <1>5 DEF SInv, IsSerial

LEMMA InitSInv == Init => SInv
BY RouterAssumption DEF Init, SInv, InFlight, Idle, Alone, Working

LEMMA NextSInv == LazyLoad /\ IInv /\ SInv /\ [Next]_vars => SInv'
<1>1. SUFFICES ASSUME LazyLoad, IInv, SInv, [Next]_vars PROVE SInv'
  OBVIOUS
<1>2. CASE \E r \in Requests : Receive(r) \/ Work(r)
  BY <1>1, <1>2, ReceiveSInv, WorkSInv
<1>3. CASE \E k \in Keys : ClearSession(k)
  BY <1>1, <1>3, ClearSInv
<1>4. CASE Crash
  BY <1>1, <1>4, CrashSInv
<1>5. CASE UNCHANGED vars
  BY <1>1, <1>5 DEF vars, SInv, Alone, Ends, RowOf, InFlight, IsSerial
<1>6. QED
  BY <1>1, <1>2, <1>3, <1>4, <1>5 DEF Next

LEMMA LazyForEver == LazyLoad => []LazyLoad
<1>1. LazyLoad => LazyLoad'
  BY DEF LazyLoad
<1>2. QED
  BY <1>1, PTL

LEMMA SpecSInv == LazyLoad /\ Spec => []SInv
BY InitSInv, NextSInv, SpecIInv, LazyForEver, PTL DEF Spec

-----------------------------------------------------------------------------
\* router.go:98-113: over a database, a request of a serial channel that is
\* answered, its save not having failed, leaves its exchange at the end of the
\* saved window, for every number of concurrent users, crashes and clears.
THEOREM ExchangeSaved == LazyLoad /\ Spec => AnsweredIsSaved
<1> DEFINE Saved ==
        \A r \in Requests :
          KeyOf[r] \in SerialKeys /\ pc[r] = "log" /\ pc'[r] = "done" =>
             LET row == rows[SlotOf[KeyOf[r]]]
             IN row \in Row /\ row.msgs # << >>
                /\ row.msgs[Len(row.msgs)] = [req |-> r, role |-> "assistant"]
<1>1. IInv /\ SInv => Saved
  <2>1. SUFFICES ASSUME IInv, SInv, NEW r \in Requests, IsSerial(r), pc[r] = "log"
                 PROVE  /\ RowOf(KeyOf[r]) \in Row /\ RowOf(KeyOf[r]).msgs # << >>
                        /\ Ends(r, RowOf(KeyOf[r]).msgs)
    BY DEF IsSerial, RowOf, Ends
  <2>2. RowOf(KeyOf[r]) = [owner |-> KeyOf[r], msgs |-> heap[ref[r]]] /\ Ends(r, heap[ref[r]])
    BY <2>1 DEF SInv, Alone
  <2>3. ref[r] \in Objects /\ KeyOf[r] \in Keys
    BY <2>1, WorkingRef DEF Working
  <2>4. heap[ref[r]] \in Seq(Message)
    BY <2>1, <2>3 DEF IInv, TypeOK
  <2>5. QED
    BY <2>2, <2>3, <2>4 DEF Row, Ends
<1>2. QED
  BY <1>1, SpecIInv, SpecSInv, PTL DEF AnsweredIsSaved

-----------------------------------------------------------------------------
(* PInv is inductive where no query fails.                                 *)

LEMMA RowType ==
    ASSUME IInv, LazyLoad, NEW k \in Keys, RowOf(k) \in Row
    PROVE  RowOf(k).msgs \in Seq(Message) /\ RowOf(k).owner = k /\ SlotOf[k] \in Slots
<1>1. SlotOf[k] \in Slots
  BY RouterAssumption
<1>2. RowOf(k).owner \in Keys /\ RowOf(k).msgs \in Seq(Message) /\ SlotOf[RowOf(k).owner] = SlotOf[k]
  BY <1>1 DEF Row, RowOf, IInv
<1>3. QED
  BY <1>1, <1>2, OwnRow

\* A request's own step, and the session of its key.
LEMMA OwnKept ==
    ASSUME IInv, SInv, PInv, LazyLoad, "load" \notin Faults,
           NEW q \in Requests, Work(q), IsSerial(q)
    PROVE  /\ sessions'[KeyOf[q]] # NoSession => Kept(KeyOf[q], heap[sessions[KeyOf[q]]])'
           /\ pc'[q] = "install" => Kept(KeyOf[q], heap[q])'
<1> USE DEF Goto
<1> DEFINE k == KeyOf[q]
<1>1. pc \in [Requests -> Labels] /\ ref \in [Requests -> Objects \cup {NoSession}]
      /\ slice \in [Requests -> Seq(Message)] /\ heap \in [Objects -> Seq(Message)]
      /\ rows \in [Slots -> Row \cup {NoRow, Torn}]
      /\ sessions \in [Keys -> Objects \cup {NoSession}]
  BY DEF IInv, TypeOK
<1>2. k \in Keys /\ k \in SerialKeys /\ SlotOf[k] \in Slots /\ Alone(q)
  BY RouterAssumption DEF SInv, IsSerial
<1>3. /\ sessions[k] # NoSession => Kept(k, heap[sessions[k]])
      /\ pc[q] = "install" => Kept(k, heap[q])
  BY <1>2 DEF PInv, IsSerial
<1>4. ASSUME UNCHANGED <<sessions, heap, rows, clears>>, pc'[q] # "install"
      PROVE  /\ sessions'[k] # NoSession => Kept(k, heap[sessions[k]])'
             /\ pc'[q] = "install" => Kept(k, heap[q])'
  BY <1>3, <1>4 DEF Kept, RowOf
<1>5. CASE Load(q)
  <2>1. sessions[k] # q
    BY <1>2, <1>5 DEF SInv, Load
  <2>2. sessions'[k] # NoSession => Kept(k, heap[sessions[k]])'
    BY <1>1, <1>2, <1>3, <1>5, <2>1 DEF Load, Kept, RowOf
  <2>3. Kept(k, heap[q])'
    <3>1. SUFFICES ASSUME RowOf(k) \in Row PROVE Continues(RowOf(k).msgs, heap'[q])
      BY <1>5 DEF Kept, RowOf, Load
    <3>2. q \in Objects /\ heap'[q] = RowOf(k).msgs
      BY <1>1, <1>5, <3>1, RequestOwner DEF Load, RowOf
    <3>3. QED
      BY <1>2, <3>1, <3>2, RowType, ContinuesItself
  <2>4. QED
    BY <2>2, <2>3
<1>6. CASE Install(q)
  BY <1>1, <1>2, <1>3, <1>6 DEF Install, Kept, RowOf
<1>7. ASSUME NEW from \in {"putUser", "putReply"}, NEW role \in Roles,
             NEW to \in {"history", "marshal"}, Put(q, from, role, to)
      PROVE  /\ sessions'[k] # NoSession => Kept(k, heap[sessions[k]])'
             /\ pc'[q] = "install" => Kept(k, heap[q])'
  <2> DEFINE m == [req |-> q, role |-> role]
  <2>1. m \in Message
    BY DEF Message
  <2>2. ref[q] \in Objects /\ sessions[k] = ref[q] /\ slice[q] = heap[ref[q]]
    BY <1>2, <1>7, WorkingRef DEF Put, Alone, Working
  <2>3. Len(slice[q]) <= MaxMessages /\ slice[q] \in Seq(Message)
    BY DEF IInv, WindowOf
  <2>4. heap'[ref[q]] = AddMessage(slice[q], m) /\ UNCHANGED <<sessions, rows, clears>>
    BY <1>1, <1>7, <2>2 DEF Put
  <2>5. pc'[q] # "install"
    BY <1>1, <1>7 DEF Put
  <2>6. Kept(k, slice[q])
    BY <1>3, <2>2, RouterAssumption DEF Objects
  <2>7. Kept(k, heap[sessions[k]])'
    BY <1>2, <2>1, <2>2, <2>3, <2>4, <2>6, RowType, ContinuesAdded DEF Kept, RowOf
  <2>8. QED
    BY <2>5, <2>7
<1>8. CASE Write(q)
  <2>1. Backend # "yaml"
    BY DEF LazyLoad
  <2>2. RowOf(k)' = [owner |-> k, msgs |-> slice[q]] /\ UNCHANGED <<sessions, heap>>
    BY <1>1, <1>2, <1>8, <2>1 DEF Write, RowOf
  <2>3. sessions[k] = ref[q] /\ slice[q] = heap[ref[q]] /\ pc'[q] = "log"
    BY <1>1, <1>2, <1>8, <2>1 DEF Write, Alone, Working
  <2>4. Kept(k, heap[sessions[k]])'
    BY <1>1, <2>2, <2>3, ContinuesItself DEF Kept
  <2>5. QED
    BY <2>3, <2>4
<1>9. CASE Rewrite(q)
  BY <1>9 DEF Rewrite, SInv
<1>10. CASE Lookup(q)
  BY <1>1, <1>4, <1>10 DEF Lookup
<1>11. CASE Answer(q) \/ AnswerError(q) \/ LoadError(q) \/ SaveError(q) \/ LogUsage(q)
  BY <1>1, <1>4, <1>11 DEF Answer, AnswerError, LoadError, SaveError, LogUsage, Finish
<1>12. ASSUME NEW from \in Labels, NEW to \in {"putUser", "answer", "putReply", "write", "log"},
              Read(q, from, to)
       PROVE  UNCHANGED <<sessions, heap, rows, clears>> /\ pc'[q] # "install"
  BY <1>1, <1>12 DEF Read
<1>13. CASE AddUserMessage(q) \/ GetHistory(q) \/ AddAssistantMessage(q) \/ Marshal(q)
  BY <1>4, <1>7, <1>12, <1>13
     DEF AddUserMessage, GetHistory, AddAssistantMessage, Marshal, Labels, Roles
<1>14. QED
  BY <1>5, <1>6, <1>8, <1>9, <1>10, <1>11, <1>13 DEF Work

LEMMA WorkPInv ==
    ASSUME IInv, SInv, PInv, LazyLoad, "load" \notin Faults, NEW q \in Requests, Work(q)
    PROVE  PInv'
<1>1. KeyOf[q] \in Keys /\ pc[q] \notin Idle /\ SerialKeys \subseteq Keys
  BY WorkFrame, RouterAssumption
<1>2. \A o \in Objects : Owner(o) # KeyOf[q] => heap'[o] = heap[o]
  BY WorkFrame, RequestOwner, WorkingRef DEF Working
<1>3. ASSUME NEW k \in Keys, k # KeyOf[q] PROVE RowOf(k)' = RowOf(k)
  BY <1>1, <1>3, OwnRow, WorkFrame DEF RowOf
<1>4. ASSUME NEW k \in SerialKeys, sessions'[k] # NoSession PROVE Kept(k, heap[sessions[k]])'
  <2>1. CASE k = KeyOf[q]
    BY <1>4, <2>1, OwnKept DEF IsSerial
  <2>2. CASE k # KeyOf[q]
    <3>1. sessions'[k] = sessions[k] /\ RowOf(k)' = RowOf(k) /\ clears' = clears
      BY <1>1, <1>3, <2>2, WorkFrame
    <3>2. sessions[k] \in Objects /\ Owner(sessions[k]) = k
      BY <1>1, <1>4, <3>1 DEF IInv, TypeOK
    <3>3. heap'[sessions[k]] = heap[sessions[k]]
      BY <1>2, <2>2, <3>2
    <3>4. QED
      BY <1>4, <3>1, <3>3 DEF PInv, Kept
  <2>3. QED
    BY <2>1, <2>2
<1>5. ASSUME NEW r \in Requests, IsSerial(r), pc'[r] = "install" PROVE Kept(KeyOf[r], heap[r])'
  <2>1. CASE r = q
    BY <1>5, <2>1, OwnKept
  <2>2. CASE r # q
    <3>1. pc[r] = "install" /\ clears' = clears
      BY <1>5, <2>2, WorkFrame
    <3>2. KeyOf[r] # KeyOf[q] /\ KeyOf[r] \in Keys
      BY <1>1, <1>5, <2>2, <3>1, RouterAssumption DEF SInv, InFlight, Idle
    <3>3. heap'[r] = heap[r] /\ RowOf(KeyOf[r])' = RowOf(KeyOf[r])
      BY <1>2, <1>3, <3>2, RequestOwner
    <3>4. QED
      BY <1>5, <3>1, <3>3 DEF PInv, Kept
  <2>3. QED
    BY <2>1, <2>2
<1>6. QED
  BY <1>4, <1>5 DEF PInv, IsSerial

LEMMA ReceivePInv == ASSUME IInv, PInv, NEW q \in Requests, Receive(q) PROVE PInv'
<1>1. /\ UNCHANGED <<sessions, heap, rows, clears>>
      /\ \A r \in Requests : pc'[r] = "install" => pc[r] = "install"
  BY DEF Receive, Finish, Goto, IInv, TypeOK
<1>2. QED
  BY <1>1 DEF PInv, Kept, RowOf, IsSerial

LEMMA ClearPInv == ASSUME IInv, NEW k \in Keys, ClearSession(k) PROVE PInv'
<1>1. clears' # 0
  BY RouterAssumption DEF ClearSession, IInv, TypeOK
<1>2. QED
  BY <1>1 DEF PInv, Kept

LEMMA CrashPInv == ASSUME IInv, LazyLoad, Crash PROVE PInv'
<1>1. \A r \in Requests : pc'[r] # "install"
  BY DEF Crash, Idle
<1>2. ASSUME NEW k \in SerialKeys, sessions'[k] # NoSession PROVE Kept(k, heap[sessions[k]])'
  <2>1. k \in Keys /\ k \in Objects /\ Loaded(k) /\ sessions'[k] = k
    BY <1>2, RouterAssumption DEF Crash, Objects
  <2>2. heap'[k] = LoadedMsgs(k) /\ rows' = rows
    BY <2>1 DEF Crash
  <2> DEFINE s == CHOOSE t \in Stored(k) : TRUE
  <2>3. s \in Stored(k)
    BY <2>1 DEF Loaded
  <2>4. LoadedMsgs(k) = rows[s].msgs
    BY DEF LoadedMsgs
  <2> HIDE DEF s
  <2>5. s \in Slots /\ rows[s] \in Row /\ rows[s].owner = k
    BY <2>3 DEF Stored
  <2>6. s = SlotOf[k]
    BY <2>5 DEF IInv
  <2>7. heap'[sessions'[k]] = RowOf(k).msgs /\ RowOf(k)' = RowOf(k) /\ RowOf(k) \in Row
    BY <2>1, <2>2, <2>4, <2>5, <2>6 DEF RowOf
  <2>8. QED
    BY <2>1, <2>7, RowType, ContinuesItself DEF Kept
<1>3. QED
  BY <1>1, <1>2 DEF PInv

LEMMA InitPInv == Init => PInv
BY RouterAssumption DEF Init, PInv

LEMMA NextPInv ==
    LazyLoad /\ "load" \notin Faults /\ IInv /\ SInv /\ PInv /\ [Next]_vars => PInv'
<1>1. SUFFICES ASSUME LazyLoad, "load" \notin Faults, IInv, SInv, PInv, [Next]_vars PROVE PInv'
  OBVIOUS
<1>2. CASE \E r \in Requests : Receive(r) \/ Work(r)
  BY <1>1, <1>2, ReceivePInv, WorkPInv
<1>3. CASE \E k \in Keys : ClearSession(k)
  BY <1>1, <1>3, ClearPInv
<1>4. CASE Crash
  BY <1>1, <1>4, CrashPInv
<1>5. CASE UNCHANGED vars
  BY <1>1, <1>5 DEF vars, PInv, Kept, RowOf, IsSerial
<1>6. QED
  BY <1>1, <1>2, <1>3, <1>4, <1>5 DEF Next

\* No query of the database fails.
Loads == LazyLoad /\ "load" \notin Faults

LEMMA LoadsForEver == Loads => []Loads
<1>1. Loads => Loads'
  BY DEF Loads, LazyLoad
<1>2. QED
  BY <1>1, PTL

LEMMA SpecPInv == Loads /\ Spec => []PInv
<1>1. Loads /\ IInv /\ SInv /\ PInv /\ [Next]_vars => PInv'
  BY NextPInv DEF Loads
<1>2. Loads => LazyLoad
  BY DEF Loads
<1>3. QED
  BY <1>1, <1>2, InitPInv, SpecIInv, SpecSInv, LoadsForEver, PTL DEF Spec

-----------------------------------------------------------------------------
\* Over a database whose queries do not fail, each save of a session of a
\* serial channel continues the window saved before, across failed saves,
\* crashes and reloads, until a session is cleared (store.go:67-124).
THEOREM SavedAdvances == Loads /\ Spec => PersistedAdvances
<1> DEFINE Advances ==
        \A k \in SerialKeys :
          LET old == rows[SlotOf[k]]
              new == rows'[SlotOf[k]]
          IN old \in Row /\ new \in Row /\ clears' = 0 => Continues(old.msgs, new.msgs)
<1>1. ASSUME LazyLoad, IInv, SInv, PInv, [Next]_vars PROVE Advances
  <2>1. SUFFICES ASSUME NEW k \in SerialKeys, RowOf(k) \in Row, RowOf(k)' \in Row, clears' = 0
                 PROVE  Continues(RowOf(k).msgs, RowOf(k)'.msgs)
    BY DEF RowOf
  <2>2. k \in Keys /\ RowOf(k).msgs \in Seq(Message) /\ SlotOf[k] \in Slots
    BY <1>1, <2>1, RowType, RouterAssumption
  <2>3. CASE RowOf(k)' = RowOf(k)
    BY <2>2, <2>3, ContinuesItself
  <2>4. ASSUME NEW q \in Requests, Work(q) PROVE Continues(RowOf(k).msgs, RowOf(k)'.msgs)
    <3>1. CASE ~Write(q) /\ ~Rewrite(q)
      <4>1. rows' = rows
        BY <2>4, <3>1 DEF Work, Lookup, Load, Install, AddUserMessage, GetHistory, Answer, AnswerError, LoadError,
             AddAssistantMessage, Marshal, SaveError, LogUsage, Read, Put
      <4>2. QED
        BY <2>3, <4>1 DEF RowOf
    <3>2. ~Rewrite(q)
      BY <1>1 DEF Rewrite, SInv
    <3>3. CASE Write(q) /\ k # KeyOf[q]
      BY <1>1, <2>2, <2>3, <2>4, <3>3, OwnRow, WorkFrame, RouterAssumption DEF RowOf
    <3>4. CASE Write(q) /\ k = KeyOf[q]
      <4>1. /\ sessions[k] = ref[q] /\ slice[q] = heap[ref[q]] /\ clears = 0
            /\ ref[q] \in Objects
        BY <1>1, <2>1, <2>4, <3>4, WorkFrame, WorkingRef DEF SInv, Alone, IsSerial, Write, Working
      <4>2. RowOf(k)'.msgs = slice[q]
        BY <1>1, <2>2, <3>4 DEF Write, RowOf, LazyLoad, IInv, TypeOK
      <4>3. Kept(k, heap[sessions[k]])
        BY <1>1, <2>1, <4>1, RouterAssumption DEF PInv, Objects
      <4>4. QED
        BY <2>1, <4>1, <4>2, <4>3 DEF Kept
    <3>5. QED
      BY <3>1, <3>2, <3>3, <3>4
  <2>5. ASSUME NEW q \in Requests, Receive(q) PROVE RowOf(k)' = RowOf(k)
    BY <2>5 DEF Receive, RowOf
  <2>6. \A j \in Keys : ~ClearSession(j)
    BY <1>1, <2>1, RouterAssumption DEF ClearSession, IInv, TypeOK
  <2>7. CASE Crash \/ UNCHANGED vars
    BY <2>3, <2>7 DEF Crash, vars, RowOf
  <2>8. QED
    BY <1>1, <2>3, <2>4, <2>5, <2>6, <2>7 DEF Next
<1>2. Loads => LazyLoad
  BY DEF Loads
<1>3. LazyLoad /\ IInv /\ SInv /\ PInv /\ [Next]_vars => [Advances]_vars
  BY <1>1
<1>4. QED
  BY <1>2, <1>3, SpecIInv, SpecSInv, SpecPInv, LazyForEver, PTL DEF Spec, PersistedAdvances

-----------------------------------------------------------------------------
(* The refinement.                                                          *)

\* A request that found no session in the map is the one that will put it
\* there, and what it loaded is still what is saved.
RInv ==
    \A r \in SerialRequests :
        /\ pc[r] \in {"load", "install"} => sessions[KeyOf[r]] = NoSession
        /\ pc[r] = "install" => heap[r] = SavedMsgs(KeyOf[r])

Inv == Loads /\ IInv /\ SInv /\ RInv

LEMMA SerialFacts ==
    ASSUME NEW r \in SerialRequests
    PROVE  r \in Requests /\ KeyOf[r] \in SerialKeys /\ KeyOf[r] \in Keys /\ IsSerial(r)
BY RouterAssumption DEF SerialRequests, IsSerial

-----------------------------------------------------------------------------
(* The steps of Windows, by what they do to a window, a saved copy and a   *)
(* turn.                                                                   *)

SameTurns == \A r \in SerialRequests : Turn(r)' = Turn(r)
OtherTurns(r) == \A q \in SerialRequests : q # r => Turn(q)' = Turn(q)
SameSaved == \A k \in SerialKeys : SavedMsgs(k)' = SavedMsgs(k)
SameWindows == \A k \in SerialKeys : WindowMsgs(k)' = WindowMsgs(k)

LEMMA Stutters ==
    ASSUME SameTurns, SameSaved, SameWindows PROVE UNCHANGED W!vars
BY DEF SameTurns, SameSaved, SameWindows, W!vars

\* The question, and the answer, enter the window of the user.
Enters(r, role) ==
    /\ WindowMsgs(KeyOf[r])' = AddMessage(WindowMsgs(KeyOf[r]), [req |-> r, role |-> role])
    /\ \A k \in SerialKeys : k # KeyOf[r] => WindowMsgs(k)' = WindowMsgs(k)

LEMMA EntersStep ==
    ASSUME NEW r \in SerialRequests, NEW role, Enters(r, role) PROVE W!Enter(r, role)
BY SerialFacts DEF Enters, W!Enter, W!AddMessage, AddMessage

LEMMA AskStep ==
    ASSUME NEW r \in SerialRequests, Turn(r) = "new", Turn(r)' = "asked", OtherTurns(r),
           \A q \in SerialRequests : KeyOf[q] = KeyOf[r] => Turn(q) \notin {"asked", "answered"},
           Enters(r, "user"), SameSaved
    PROVE  W!Ask(r)
<1>1. W!Open(KeyOf[r]) = {}
  BY DEF W!Open
<1>2. W!Enter(r, "user")
  BY EntersStep
<1>3. QED
  BY <1>1, <1>2 DEF W!Ask, OtherTurns, SameSaved

LEMMA ReplyStep ==
    ASSUME NEW r \in SerialRequests, Turn(r) = "asked", Turn(r)' = "answered", OtherTurns(r),
           Enters(r, "assistant"), SameSaved
    PROVE  W!Reply(r)
<1>1. W!Enter(r, "assistant")
  BY EntersStep
<1>2. QED
  BY <1>1 DEF W!Reply, OtherTurns, SameSaved

LEMMA SaveStep ==
    ASSUME NEW r \in SerialRequests, Turn(r) = "answered", SameTurns, SameWindows,
           SavedMsgs(KeyOf[r])' = WindowMsgs(KeyOf[r]),
           \A k \in SerialKeys : k # KeyOf[r] => SavedMsgs(k)' = SavedMsgs(k)
    PROVE  W!Save(r)
BY SerialFacts DEF W!Save, SameTurns, SameWindows

LEMMA EndStep ==
    ASSUME NEW r \in SerialRequests, Turn(r) # "over", Turn(r)' = "over", OtherTurns(r),
           SameSaved, SameWindows
    PROVE  W!End(r)
BY DEF W!End, OtherTurns, SameSaved, SameWindows

LEMMA ClearStep ==
    ASSUME NEW k \in SerialKeys, SameTurns,
           \A q \in SerialRequests : KeyOf[q] = k => Turn(q) \notin {"asked", "answered"},
           WindowMsgs(k)' = << >>, SavedMsgs(k)' \in {SavedMsgs(k), << >>},
           \A j \in SerialKeys : j # k => /\ WindowMsgs(j)' = WindowMsgs(j)
                                          /\ SavedMsgs(j)' = SavedMsgs(j)
    PROVE  W!Clear(k)
<1>1. W!Open(k) = {}
  BY DEF W!Open
<1>2. QED
  BY <1>1 DEF W!Clear, SameTurns

LEMMA RestartStep ==
    ASSUME \A k \in SerialKeys : WindowMsgs(k)' = SavedMsgs(k), SameSaved,
           \A r \in SerialRequests : \/ Turn(r)' = "over"
                                     \/ Turn(r)' = "new" /\ Turn(r) = "new"
    PROVE  W!Restart
<1> DEFINE lost == {r \in SerialRequests : Turn(r) = "new" /\ Turn(r)' = "over"}
<1>1. lost \in SUBSET {r \in SerialRequests : Turn(r) = "new"}
  OBVIOUS
<1>2. [r \in SerialRequests |-> Turn(r)'] =
        [r \in SerialRequests |-> IF Turn(r) = "new" /\ r \notin lost THEN "new" ELSE "over"]
  OBVIOUS
<1>3. QED
  BY <1>1, <1>2 DEF W!Restart, SameSaved

-----------------------------------------------------------------------------
(* The steps of the pipeline.                                              *)

LEMMA InitWindows == Init => W!Init
<1>1. SUFFICES ASSUME Init PROVE W!Init
  OBVIOUS
<1>2. \A k \in SerialKeys : k \in Keys /\ SlotOf[k] \in Slots
  BY RouterAssumption
<1>3. \A k \in SerialKeys : SavedMsgs(k) = << >> /\ WindowMsgs(k) = << >>
  BY <1>1, <1>2, RouterAssumption DEF Init, SavedMsgs, WindowMsgs, Row
<1>4. \A r \in SerialRequests : Turn(r) = "new"
  BY <1>1, SerialFacts DEF Init, Turn
<1>5. QED
  BY <1>3, <1>4 DEF W!Init, W!Empty

LEMMA InitRInv == Init => RInv
BY SerialFacts DEF Init, RInv

\* What a step of one request does to other users.
LEMMA OtherUsers ==
    ASSUME Inv, NEW q \in Requests, Work(q), NEW k \in SerialKeys, k # KeyOf[q]
    PROVE  WindowMsgs(k)' = WindowMsgs(k) /\ SavedMsgs(k)' = SavedMsgs(k)
<1>1. k \in Keys /\ KeyOf[q] \in Keys /\ LazyLoad /\ IInv
  BY RouterAssumption DEF Inv, Loads
<1>2. rows'[SlotOf[k]] = rows[SlotOf[k]]
  BY <1>1, OwnRow, WorkFrame
<1>3. SavedMsgs(k)' = SavedMsgs(k)
  BY <1>2 DEF SavedMsgs, Row
<1>4. sessions'[k] = sessions[k]
  BY <1>1, WorkFrame
<1>5. ASSUME sessions[k] # NoSession PROVE heap'[sessions[k]] = heap[sessions[k]]
  <2>1. sessions[k] \in Objects /\ Owner(sessions[k]) = k
    BY <1>1, <1>5 DEF IInv, TypeOK
  <2>2. sessions[k] # q
    BY <2>1, RequestOwner
  <2>3. pc[q] \in {"putUser", "putReply"} => sessions[k] # ref[q]
    BY <1>1, <2>1, WorkingRef DEF Working
  <2>4. QED
    BY <1>1, <2>1, <2>2, <2>3, WorkFrame
<1>6. QED
  BY <1>3, <1>4, <1>5 DEF WindowMsgs

LEMMA OtherRequests ==
    ASSUME Inv, NEW q \in Requests, Work(q), NEW r \in SerialRequests, r # q
    PROVE  Turn(r)' = Turn(r)
BY SerialFacts, WorkFrame DEF Inv, Turn

\* The other requests of a serial channel are not under way.
LEMMA NoneOpen ==
    ASSUME Inv, NEW q \in SerialRequests, pc[q] \notin Idle, NEW r \in SerialRequests,
           r # q, KeyOf[r] = KeyOf[q]
    PROVE  pc[r] \in Idle
BY SerialFacts DEF Inv, SInv, InFlight

\* A request of another channel.
LEMMA OtherChannel ==
    ASSUME Inv, NEW q \in Requests, Work(q), q \notin SerialRequests
    PROVE  UNCHANGED W!vars
<1>1. KeyOf[q] \notin SerialKeys
  BY DEF SerialRequests
<1>2. SameTurns
  BY OtherRequests DEF SameTurns
<1>3. SameWindows /\ SameSaved
  BY <1>1, OtherUsers DEF SameWindows, SameSaved
<1>4. QED
  BY <1>2, <1>3, Stutters

LEMMA Labelled ==
    ASSUME Inv
    PROVE  /\ pc \in [Requests -> Labels] /\ ref \in [Requests -> Objects \cup {NoSession}]
           /\ slice \in [Requests -> Seq(Message)] /\ heap \in [Objects -> Seq(Message)]
           /\ rows \in [Slots -> Row \cup {NoRow, Torn}]
           /\ sessions \in [Keys -> Objects \cup {NoSession}]
           /\ LazyLoad /\ IInv /\ SInv /\ RInv /\ "load" \notin Faults
BY DEF Inv, Loads, IInv, TypeOK

\* The window of the request's user, while it is worked on.
LEMMA OwnWindow ==
    ASSUME Inv, NEW q \in SerialRequests, pc[q] \in Working
    PROVE  /\ WindowMsgs(KeyOf[q]) = heap[ref[q]] /\ sessions[KeyOf[q]] = ref[q]
           /\ ref[q] \in Objects /\ ref[q] # NoSession
<1>1. q \in Requests /\ IsSerial(q)
  BY SerialFacts
<1>2. ref[q] \in Objects /\ sessions[KeyOf[q]] = ref[q]
  BY <1>1, Labelled, WorkingRef DEF SInv, Alone
<1>3. ref[q] # NoSession
  BY <1>2, RouterAssumption DEF Objects
<1>4. QED
  BY <1>2, <1>3 DEF WindowMsgs

\* Looking for the session, loading it and putting it into the map.
LEMMA GetStep ==
    ASSUME Inv, NEW q \in SerialRequests, Work(q), Lookup(q) \/ Load(q) \/ Install(q)
    PROVE  UNCHANGED W!vars /\ RInv'
<1> DEFINE k == KeyOf[q]
<1>1. q \in Requests /\ k \in SerialKeys /\ k \in Keys /\ SlotOf[k] \in Slots /\ q \in Objects /\ q # NoSession
  BY SerialFacts, RouterAssumption DEF Objects
<1>2. pc[q] \in {"lookup", "load", "install"} /\ pc'[q] \in {"load", "install", "addUser"}
  BY <1>1, Labelled DEF Lookup, Load, Install, Goto
<1>3. SameTurns
  BY <1>1, <1>2, OtherRequests DEF SameTurns, Turn
<1>4. rows' = rows
  BY DEF Lookup, Load, Install
<1>5. SameSaved
  BY <1>4 DEF SameSaved, SavedMsgs, Row
<1>6. WindowMsgs(k)' = WindowMsgs(k)
  <2>1. SavedMsgs(k)' = SavedMsgs(k)
    BY <1>1, <1>5 DEF SameSaved
  <2>2. CASE Lookup(q)
    BY <2>1, <2>2 DEF Lookup, WindowMsgs
  <2>3. CASE Load(q)
    <3>1. sessions' = sessions /\ sessions[k] = NoSession
      BY <1>1, <2>3, Labelled DEF Load, RInv
    <3>2. QED
      BY <2>1, <3>1 DEF WindowMsgs
  <2>4. CASE Install(q)
    <3>1. sessions[k] = NoSession /\ heap[q] = SavedMsgs(k)
      BY <2>4, Labelled DEF Install, RInv
    <3>2. sessions'[k] = q /\ heap' = heap
      BY <1>1, <2>4, Labelled DEF Install
    <3>3. QED
      BY <1>1, <3>1, <3>2 DEF WindowMsgs
  <2>5. QED
    BY <2>2, <2>3, <2>4
<1>7. SameWindows
  BY <1>1, <1>6, OtherUsers DEF SameWindows
<1>8. ASSUME NEW r \in SerialRequests, pc'[r] \in {"load", "install"}
      PROVE  /\ sessions'[KeyOf[r]] = NoSession
             /\ pc'[r] = "install" => heap'[r] = SavedMsgs(KeyOf[r])'
  <2>1. CASE r = q
    <3>1. CASE Lookup(q)
      BY <1>1, <1>8, <2>1, <3>1, Labelled DEF Lookup, Goto
    <3>2. CASE Load(q)
      <4>1. sessions' = sessions /\ sessions[k] = NoSession
        BY <1>1, <3>2, Labelled DEF Load, RInv
      <4>2. heap'[q] = SavedMsgs(k)
        BY <1>1, <3>2, Labelled DEF Load, SavedMsgs
      <4>3. QED
        BY <1>1, <1>5, <2>1, <4>1, <4>2 DEF SameSaved
    <3>3. CASE Install(q)
      BY <1>1, <1>8, <2>1, <3>3, Labelled DEF Install, Goto
    <3>4. QED
      BY <3>1, <3>2, <3>3
  <2>2. CASE r # q
    <3>1. r \in Requests /\ KeyOf[r] \in Keys /\ KeyOf[r] \in SerialKeys /\ r \in Objects
      BY SerialFacts DEF Objects
    <3>2. pc[r] = pc'[r]
      BY <1>1, <2>2, <3>1, Labelled, WorkFrame
    <3>3. KeyOf[r] # k
      BY <1>2, <1>8, <2>2, <3>2, NoneOpen DEF Idle
    <3>4. sessions'[KeyOf[r]] = sessions[KeyOf[r]]
      BY <1>1, <3>1, <3>3, Labelled, WorkFrame
    <3>5. heap'[r] = heap[r]
      BY <1>1, <1>2, <2>2, <3>1, Labelled, WorkFrame
    <3>6. QED
      BY <1>5, <1>8, <3>1, <3>2, <3>4, <3>5, Labelled DEF RInv, SameSaved
  <2>3. QED
    BY <2>1, <2>2
<1>9. QED
  BY <1>3, <1>5, <1>7, <1>8, Stutters DEF RInv

\* Every other step of a request leaves what was found and loaded alone.
LEMMA KeepsRInv ==
    ASSUME Inv, NEW q \in Requests, Work(q), q \in SerialRequests => pc[q] \in Working \/ pc'[q] = "done"
    PROVE  RInv'
<1>1. SUFFICES ASSUME NEW r \in SerialRequests, pc'[r] \in {"load", "install"}
               PROVE  /\ sessions'[KeyOf[r]] = NoSession
                      /\ pc'[r] = "install" => heap'[r] = SavedMsgs(KeyOf[r])'
  BY DEF RInv
<1>2. r \in Requests /\ KeyOf[r] \in Keys /\ KeyOf[r] \in SerialKeys
  BY SerialFacts
<1>3. r # q
  BY <1>1, Labelled, WorkMoves DEF Working
<1>4. pc[r] = pc'[r] /\ pc[q] \notin Idle
  BY <1>2, <1>3, Labelled, WorkFrame
<1>5. KeyOf[r] # KeyOf[q]
  <2>1. CASE q \in SerialRequests
    BY <1>1, <1>3, <1>4, <2>1, NoneOpen DEF Idle
  <2>2. CASE q \notin SerialRequests
    BY <1>2, <2>2 DEF SerialRequests
  <2>3. QED
    BY <2>1, <2>2
<1>6. sessions'[KeyOf[r]] = sessions[KeyOf[r]]
  BY <1>2, <1>5, Labelled, WorkFrame
<1>7. heap'[r] = heap[r]
  <2>1. r \in Objects /\ Owner(r) = KeyOf[r]
    BY <1>2, RequestOwner
  <2>2. pc[q] \in {"putUser", "putReply"} => r # ref[q]
    BY <1>5, <2>1, Labelled, WorkingRef DEF Working
  <2>3. QED
    BY <1>3, <2>1, <2>2, Labelled, WorkFrame
<1>8. SavedMsgs(KeyOf[r])' = SavedMsgs(KeyOf[r])
  BY <1>2, <1>5, OtherUsers
<1>9. QED
  BY <1>1, <1>4, <1>6, <1>7, <1>8, Labelled DEF RInv

\* A step that changes no session and no row moves at most the request's turn.
LEMMA QuietStep ==
    ASSUME Inv, NEW q \in SerialRequests, Work(q), UNCHANGED <<sessions, heap, rows>>
    PROVE  /\ SameWindows /\ SameSaved /\ OtherTurns(q)
           /\ Turn(q)' = Turn(q) => UNCHANGED W!vars
<1>1. SameWindows /\ SameSaved
  BY DEF SameWindows, SameSaved, WindowMsgs, SavedMsgs, Row
<1>2. OtherTurns(q)
  BY SerialFacts, OtherRequests DEF OtherTurns
<1>3. Turn(q)' = Turn(q) => SameTurns
  BY <1>2 DEF OtherTurns, SameTurns
<1>4. QED
  BY <1>1, <1>2, <1>3, Stutters

\* Reading the window before an append, for the AI service or to save it.
LEMMA ReadStep ==
    ASSUME Inv, NEW q \in SerialRequests, Work(q),
           \/ Read(q, "addUser", "putUser") \/ GetHistory(q)
           \/ Read(q, "addReply", "putReply") \/ Marshal(q)
    PROVE  UNCHANGED W!vars
<1>1. q \in Requests
  BY SerialFacts
<1>2. UNCHANGED <<sessions, heap, rows>>
  BY DEF Read, GetHistory, Marshal
<1>3. Turn(q)' = Turn(q)
  BY <1>1, Labelled DEF Read, GetHistory, Marshal, Goto, Turn
<1>4. QED
  BY <1>2, <1>3, QuietStep

\* The write that ends an append: what the request read is still the window.
LEMMA PutEnters ==
    ASSUME Inv, NEW q \in SerialRequests, Work(q), NEW role \in Roles,
           NEW from \in {"putUser", "putReply"}, NEW to \in {"history", "marshal"},
           Put(q, from, role, to)
    PROVE  Enters(q, role) /\ SameSaved /\ OtherTurns(q) /\ pc'[q] = to
<1> DEFINE k == KeyOf[q]
<1>1. q \in Requests /\ k \in Keys /\ IsSerial(q) /\ pc[q] = from /\ pc'[q] = to
  BY SerialFacts, Labelled DEF Put, Goto
<1>2. WindowMsgs(k) = heap[ref[q]] /\ sessions[k] = ref[q] /\ ref[q] \in Objects /\ ref[q] # NoSession
  BY <1>1, OwnWindow DEF Working
<1>3. slice[q] = heap[ref[q]]
  BY <1>1, Labelled DEF SInv, Alone
<1>4. heap'[ref[q]] = AddMessage(slice[q], [req |-> q, role |-> role]) /\ sessions' = sessions /\ rows' = rows
  BY <1>2, Labelled DEF Put
<1>5. WindowMsgs(k)' = AddMessage(WindowMsgs(k), [req |-> q, role |-> role])
  BY <1>2, <1>3, <1>4 DEF WindowMsgs
<1>6. SameSaved
  BY <1>4 DEF SameSaved, SavedMsgs, Row
<1>7. OtherTurns(q)
  BY <1>1, OtherRequests DEF OtherTurns
<1>8. QED
  BY <1>1, <1>5, <1>6, <1>7, OtherUsers DEF Enters

LEMMA PutUserStep ==
    ASSUME Inv, NEW q \in SerialRequests, Work(q), Put(q, "putUser", "user", "history")
    PROVE  W!Ask(q)
<1>1. q \in Requests /\ pc[q] = "putUser"
  BY SerialFacts DEF Put
<1>2. Enters(q, "user") /\ SameSaved /\ OtherTurns(q) /\ pc'[q] = "history"
  BY PutEnters DEF Roles
<1>3. Turn(q) = "new" /\ Turn(q)' = "asked"
  BY <1>1, <1>2 DEF Turn
<1>4. ASSUME NEW r \in SerialRequests, KeyOf[r] = KeyOf[q] PROVE Turn(r) \notin {"asked", "answered"}
  <2>1. CASE r = q
    BY <1>3, <2>1
  <2>2. CASE r # q
    BY <1>1, <1>4, <2>2, NoneOpen DEF Idle, Turn
  <2>3. QED
    BY <2>1, <2>2
<1>5. QED
  BY <1>2, <1>3, <1>4, AskStep

LEMMA PutReplyStep ==
    ASSUME Inv, NEW q \in SerialRequests, Work(q), Put(q, "putReply", "assistant", "marshal")
    PROVE  W!Reply(q)
<1>1. pc[q] = "putReply"
  BY DEF Put
<1>2. Enters(q, "assistant") /\ SameSaved /\ OtherTurns(q) /\ pc'[q] = "marshal"
  BY PutEnters DEF Roles
<1>3. Turn(q) = "asked" /\ Turn(q)' = "answered"
  BY <1>1, <1>2 DEF Turn
<1>4. QED
  BY <1>2, <1>3, ReplyStep

\* The row that replaces the saved one holds the whole window.
LEMMA WriteStep ==
    ASSUME Inv, NEW q \in SerialRequests, Work(q), Write(q)
    PROVE  W!Save(q)
<1> DEFINE k == KeyOf[q]
<1>1. /\ q \in Requests /\ IsSerial(q) /\ k \in Keys /\ k \in SerialKeys /\ SlotOf[k] \in Slots
      /\ pc[q] = "write" /\ Backend # "yaml"
  BY SerialFacts, RouterAssumption, Labelled DEF Write, LazyLoad
<1>2. /\ pc'[q] = "log" /\ UNCHANGED <<sessions, heap>>
      /\ rows'[SlotOf[k]] = [owner |-> k, msgs |-> slice[q]]
  BY <1>1, Labelled DEF Write, Goto
<1>3. WindowMsgs(k) = heap[ref[q]] /\ ref[q] # NoSession /\ sessions[k] = ref[q]
  BY <1>1, OwnWindow DEF Working
<1>4. slice[q] = heap[ref[q]] /\ slice[q] \in Seq(Message)
  BY <1>1, Labelled DEF SInv, Alone
<1>5. [owner |-> k, msgs |-> slice[q]] \in Row
  BY <1>1, <1>4 DEF Row
<1>6. SavedMsgs(k)' = WindowMsgs(k)
  BY <1>2, <1>3, <1>4, <1>5 DEF SavedMsgs, Row
<1>7. WindowMsgs(k)' = WindowMsgs(k)
  BY <1>2, <1>3 DEF WindowMsgs
<1>8. SameWindows
  BY <1>1, <1>7, OtherUsers DEF SameWindows
<1>9. \A j \in SerialKeys : j # k => SavedMsgs(j)' = SavedMsgs(j)
  BY <1>1, OtherUsers
<1>10. SameTurns /\ Turn(q) = "answered"
  BY <1>1, <1>2, OtherRequests DEF SameTurns, Turn
<1>11. QED
  BY <1>6, <1>8, <1>9, <1>10, SaveStep

\* The AI service, a failing save, and the end of a request.
LEMMA MoveStep ==
    ASSUME Inv, NEW q \in SerialRequests, Work(q),
           Answer(q) \/ AnswerError(q) \/ LoadError(q) \/ SaveError(q) \/ LogUsage(q)
    PROVE  W!End(q) \/ UNCHANGED W!vars
<1>1. q \in Requests /\ pc[q] # "rewrite"
  BY SerialFacts, Labelled DEF SInv
<1>2. UNCHANGED <<sessions, heap, rows>>
  BY DEF Answer, AnswerError, LoadError, SaveError, LogUsage
<1>3. CASE Answer(q) \/ SaveError(q)
  <2>1. Turn(q)' = Turn(q)
    BY <1>1, <1>3, Labelled DEF Answer, SaveError, Goto, Turn
  <2>2. QED
    BY <1>2, <2>1, QuietStep
<1>4. CASE AnswerError(q) \/ LoadError(q) \/ LogUsage(q)
  <2>1. Turn(q) # "over" /\ Turn(q)' = "over"
    BY <1>1, <1>4, Labelled DEF AnswerError, LoadError, LogUsage, Finish, Goto, Turn
  <2>2. QED
    BY <1>2, <2>1, QuietStep, EndStep
<1>5. QED
  BY <1>3, <1>4

LEMMA WorkStep ==
    ASSUME Inv, NEW q \in Requests, Work(q)
    PROVE  [W!Next]_(W!vars) /\ RInv'
<1>1. CASE q \notin SerialRequests
  BY <1>1, OtherChannel, KeepsRInv
<1>2. CASE q \in SerialRequests
  <2>1. CASE Lookup(q) \/ Load(q) \/ Install(q)
    BY <1>2, <2>1, GetStep
  <2>2. CASE ~(Lookup(q) \/ Load(q) \/ Install(q))
    <3>1. \/ Read(q, "addUser", "putUser") \/ GetHistory(q)
          \/ Read(q, "addReply", "putReply") \/ Marshal(q)
          \/ Put(q, "putUser", "user", "history")
          \/ Put(q, "putReply", "assistant", "marshal")
          \/ Write(q)
          \/ Answer(q) \/ AnswerError(q) \/ LoadError(q) \/ SaveError(q) \/ LogUsage(q)
      BY <2>2, Labelled DEF Work, AddUserMessage, AddAssistantMessage, Rewrite, SInv
    <3>2. W!Ask(q) \/ W!Reply(q) \/ W!Save(q) \/ W!End(q) \/ UNCHANGED W!vars
      BY <1>2, <3>1, ReadStep, PutUserStep, PutReplyStep, WriteStep, MoveStep
    <3>3. pc[q] \in Working \/ pc'[q] = "done"
      BY <3>1, Labelled
         DEF Read, GetHistory, Marshal, Put, Write, Answer, AnswerError, LoadError, SaveError, LogUsage,
             Working, SInv, Finish, Goto
    <3>4. QED
      BY <1>2, <3>2, <3>3, KeepsRInv DEF W!Next
  <2>3. QED
    BY <2>1, <2>2
<1>3. QED
  BY <1>1, <1>2

LEMMA ReceiveStep ==
    ASSUME Inv, NEW q \in Requests, Receive(q)
    PROVE  [W!Next]_(W!vars) /\ RInv'
<1>1. /\ pc[q] = "idle" /\ pc'[q] \in {"done", "lookup"}
      /\ \A r \in Requests : r # q => pc'[r] = pc[r]
      /\ UNCHANGED <<sessions, heap, rows>>
  BY Labelled DEF Receive, Finish, Goto
<1>2. SameWindows /\ SameSaved
  BY <1>1 DEF SameWindows, SameSaved, WindowMsgs, SavedMsgs, Row
<1>3. OtherTurns(q)
  BY <1>1, SerialFacts DEF OtherTurns, Turn
<1>4. Turn(q) = "new" /\ Turn(q)' \in {"new", "over"}
  BY <1>1 DEF Turn
<1>5. ASSUME q \in SerialRequests, Turn(q)' = "over" PROVE [W!Next]_(W!vars)
  BY <1>2, <1>3, <1>4, <1>5, EndStep DEF W!Next
<1>6. ASSUME ~(q \in SerialRequests /\ Turn(q)' = "over") PROVE [W!Next]_(W!vars)
  <2>1. SameTurns
    BY <1>3, <1>4, <1>6 DEF OtherTurns, SameTurns
  <2>2. QED
    BY <1>2, <2>1, Stutters
<1>7. ASSUME NEW r \in SerialRequests, pc'[r] \in {"load", "install"}
      PROVE  /\ sessions'[KeyOf[r]] = NoSession
             /\ pc'[r] = "install" => heap'[r] = SavedMsgs(KeyOf[r])'
  <2>1. r \in Requests /\ r # q /\ pc'[r] = pc[r] /\ KeyOf[r] \in SerialKeys
    BY <1>1, <1>7, SerialFacts
  <2>2. QED
    BY <1>1, <1>2, <1>7, <2>1, Labelled DEF RInv, SameSaved
<1>8. RInv'
  BY <1>7 DEF RInv
<1>9. QED
  BY <1>5, <1>6, <1>8

\* /clear empties the window, of the session in the map or of a new one, and
\* may fail to save it.
LEMMA ClearSessionStep ==
    ASSUME Inv, NEW k \in Keys, ClearSession(k)
    PROVE  [W!Next]_(W!vars) /\ RInv'
<1> DEFINE obj == IF sessions[k] = NoSession THEN k ELSE sessions[k]
           row == [owner |-> k, msgs |-> << >>]
<1>1. obj \in Objects /\ obj # NoSession /\ Owner(obj) = k
  BY RouterAssumption, Labelled DEF IInv, Objects, Owner
<1>2. /\ k \in SerialKeys /\ \A q \in InFlight : KeyOf[q] # k
      /\ sessions' = [sessions EXCEPT ![k] = obj] /\ heap' = [heap EXCEPT ![obj] = << >>]
      /\ rows' = [rows EXCEPT ![SlotOf[k]] = row] \/ UNCHANGED rows
      /\ pc' = pc
  BY Labelled DEF ClearSession, LazyLoad
<1>3. SlotOf[k] \in Slots /\ row \in Row /\ row.msgs = << >>
  BY RouterAssumption DEF Row
<1> HIDE DEF obj, row
<1>4. SavedMsgs(k)' \in {SavedMsgs(k), << >>}
  <2>1. CASE UNCHANGED rows
    BY <2>1 DEF SavedMsgs, Row
  <2>2. CASE rows' = [rows EXCEPT ![SlotOf[k]] = row]
    <3>1. rows'[SlotOf[k]] = row
      BY <1>3, <2>2, Labelled
    <3>2. QED
      BY <1>3, <3>1 DEF SavedMsgs, Row
  <2>3. QED
    BY <1>2, <2>1, <2>2
<1>5. WindowMsgs(k)' = << >>
  <2>1. sessions'[k] = obj /\ heap'[obj] = << >>
    BY <1>1, <1>2, Labelled
  <2>2. QED
    BY <1>1, <2>1 DEF WindowMsgs
<1>6. ASSUME NEW j \in SerialKeys, j # k
      PROVE  WindowMsgs(j)' = WindowMsgs(j) /\ SavedMsgs(j)' = SavedMsgs(j)
  <2>1. j \in Keys /\ SlotOf[j] # SlotOf[k] /\ SlotOf[j] \in Slots
    BY <1>6, RouterAssumption, Labelled, OwnRow
  <2>2. rows'[SlotOf[j]] = rows[SlotOf[j]]
    BY <1>2, <2>1, Labelled
  <2>3. SavedMsgs(j)' = SavedMsgs(j)
    BY <2>2 DEF SavedMsgs, Row
  <2>4. sessions'[j] = sessions[j]
    BY <1>2, <1>6, <2>1, Labelled
  <2>5. ASSUME sessions[j] # NoSession PROVE heap'[sessions[j]] = heap[sessions[j]]
    <3>1. sessions[j] \in Objects /\ Owner(sessions[j]) = j
      BY <2>1, <2>5, Labelled DEF IInv
    <3>2. QED
      BY <1>1, <1>2, <1>6, <3>1, Labelled
  <2>6. QED
    BY <2>3, <2>4, <2>5 DEF WindowMsgs
<1>7. SameTurns
  BY <1>2 DEF SameTurns, Turn
<1>8. \A q \in SerialRequests : KeyOf[q] = k => Turn(q) \notin {"asked", "answered"}
  BY <1>2, SerialFacts DEF InFlight, Idle, Turn
<1>9. W!Clear(k)
  BY <1>2, <1>4, <1>5, <1>6, <1>7, <1>8, ClearStep
<1>10. ASSUME NEW r \in SerialRequests, pc'[r] \in {"load", "install"}
       PROVE  /\ sessions'[KeyOf[r]] = NoSession
              /\ pc'[r] = "install" => heap'[r] = SavedMsgs(KeyOf[r])'
  <2>1. r \in Requests /\ KeyOf[r] \in Keys /\ KeyOf[r] \in SerialKeys /\ r \in Objects /\ Owner(r) = KeyOf[r]
    BY SerialFacts, RequestOwner
  <2>2. KeyOf[r] # k
    BY <1>2, <1>10, <2>1 DEF InFlight, Idle
  <2>3. heap'[r] = heap[r] /\ sessions'[KeyOf[r]] = sessions[KeyOf[r]]
    BY <1>1, <1>2, <2>1, <2>2, Labelled
  <2>4. QED
    BY <1>2, <1>6, <1>10, <2>1, <2>2, <2>3, Labelled DEF RInv
<1>11. QED
  BY <1>2, <1>9, <1>10 DEF RInv, W!Next

\* The store is built again from the rows, at once or when a key is asked for.
LEMMA CrashStep ==
    ASSUME Inv, Crash
    PROVE  [W!Next]_(W!vars) /\ RInv'
<1>1. \A r \in Requests : pc'[r] = IF pc[r] \in Idle THEN pc[r] ELSE "crashed"
  BY DEF Crash
<1>2. RInv'
  BY <1>1, SerialFacts DEF RInv, Idle
<1>3. SameSaved
  BY DEF Crash, SameSaved, SavedMsgs, Row
<1>4. \A r \in SerialRequests : Turn(r)' = "over" \/ (Turn(r)' = "new" /\ Turn(r) = "new")
  BY <1>1, SerialFacts DEF Turn, Idle
<1>5. ASSUME NEW k \in SerialKeys PROVE WindowMsgs(k)' = SavedMsgs(k)
  <2>1. k \in Keys /\ k \in Objects /\ k # NoSession
    BY RouterAssumption DEF Objects
  <2>2. sessions'[k] = IF Loaded(k) THEN k ELSE NoSession
    BY <2>1 DEF Crash
  <2>3. CASE Loaded(k)
    <3> DEFINE s == CHOOSE t \in Stored(k) : TRUE
    <3>1. s \in Stored(k)
      BY <2>3 DEF Loaded
    <3>2. LoadedMsgs(k) = rows[s].msgs
      BY DEF LoadedMsgs
    <3> HIDE DEF s
    <3>3. s \in Slots /\ rows[s] \in Row /\ rows[s].owner = k
      BY <3>1 DEF Stored
    <3>4. s = SlotOf[k]
      BY <3>3, Labelled DEF IInv
    <3>5. heap'[k] = LoadedMsgs(k)
      BY <2>1, <2>3 DEF Crash
    <3>6. QED
      BY <2>1, <2>2, <2>3, <3>2, <3>3, <3>4, <3>5 DEF WindowMsgs, SavedMsgs
  <2>4. CASE ~Loaded(k)
    BY <1>3, <2>2, <2>4 DEF WindowMsgs, SameSaved
  <2>5. QED
    BY <2>3, <2>4
<1>6. W!Restart
  BY <1>3, <1>4, <1>5, RestartStep
<1>7. QED
  BY <1>2, <1>6 DEF W!Next

LEMMA NextWindows == Inv /\ [Next]_vars => [W!Next]_(W!vars) /\ RInv'
<1>1. SUFFICES ASSUME Inv, [Next]_vars PROVE [W!Next]_(W!vars) /\ RInv'
  OBVIOUS
<1>2. CASE \E r \in Requests : Receive(r) \/ Work(r)
  BY <1>1, <1>2, ReceiveStep, WorkStep
<1>3. CASE \E k \in Keys : ClearSession(k)
  BY <1>1, <1>3, ClearSessionStep
<1>4. CASE Crash
  BY <1>1, <1>4, CrashStep
<1>5. CASE UNCHANGED vars
  <2>1. UNCHANGED <<sessions, heap, rows, pc>>
    BY <1>5 DEF vars
  <2>2. SameTurns /\ SameSaved /\ SameWindows
    BY <2>1 DEF SameTurns, SameSaved, SameWindows, Turn, WindowMsgs, SavedMsgs, Row
  <2>3. RInv'
    BY <1>1, <2>1, <2>2, SerialFacts DEF Inv, RInv, SameSaved
  <2>4. QED
    BY <2>2, <2>3, Stutters
<1>6. QED
  BY <1>1, <1>2, <1>3, <1>4, <1>5 DEF Next

LEMMA SpecRInv == Loads /\ Spec => []RInv
<1>1. Loads /\ IInv /\ SInv /\ RInv /\ [Next]_vars => RInv'
  BY NextWindows DEF Inv
<1>2. Loads => LazyLoad
  BY DEF Loads
<1>3. QED
  BY <1>1, <1>2, InitRInv, SpecIInv, SpecSInv, LoadsForEver, PTL DEF Spec

-----------------------------------------------------------------------------
\* The pipeline implements the store of windows (router.go:68-113,
\* store.go:67-124): for users whose channel sends one message at a time, over
\* a database whose queries do not fail, the unlocked reads and writes of any
\* number of requests, failing saves, /clear, crashes and reloads show nothing
\* but questions and answers that enter a window whole, once and in turn,
\* and a copy that is that window.
THEOREM RouterImplementsWindows == Loads /\ Spec => KeepsWindows
<1>1. Loads /\ IInv /\ SInv /\ RInv /\ [Next]_vars => [W!Next]_(W!vars)
  BY NextWindows DEF Inv
<1>2. Loads => LazyLoad
  BY DEF Loads
<1>3. QED
  BY <1>1, <1>2, InitWindows, SpecIInv, SpecSInv, SpecRInv, LoadsForEver, PTL
     DEF Spec, KeepsWindows, W!Spec
=============================================================================
