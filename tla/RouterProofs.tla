---------------------------- MODULE RouterProofs ----------------------------
(***************************************************************************)
(* Proofs about Router for every number of requests, keys and slots, every *)
(* backend, every fault and every window size.                             *)
(***************************************************************************)
EXTENDS Router, TLAPS

-----------------------------------------------------------------------------
(* The window.                                                             *)

\* AddMessage keeps a message sequence and its bound.
LEMMA AddMessageType ==
    ASSUME NEW msgs \in Seq(Message), NEW m \in Message
    PROVE  /\ AddMessage(msgs, m) \in Seq(Message)
           /\ Len(msgs) <= MaxMessages => Len(AddMessage(msgs, m)) <= MaxMessages
<1>1. CASE Len(msgs) >= MaxMessages
  <2>1. msgs # << >>
    BY <1>1, MaxMessagesAssumption
  <2>2. Tail(msgs) \in Seq(Message) /\ Len(Tail(msgs)) = Len(msgs) - 1
    BY <2>1
  <2>3. QED
    BY <1>1, <2>2, MaxMessagesAssumption DEF AddMessage
<1>2. CASE ~(Len(msgs) >= MaxMessages)
  BY <1>2, MaxMessagesAssumption DEF AddMessage
<1>3. QED
  BY <1>1, <1>2

\* Every message of AddMessage's result is the new one or was there before.
LEMMA AddMessageElements ==
    ASSUME NEW msgs \in Seq(Message), NEW m \in Message,
           NEW i \in DOMAIN AddMessage(msgs, m)
    PROVE  AddMessage(msgs, m)[i] = m \/ \E j \in DOMAIN msgs : AddMessage(msgs, m)[i] = msgs[j]
<1>1. CASE Len(msgs) >= MaxMessages
  <2>1. msgs # << >>
    BY <1>1, MaxMessagesAssumption
  <2>2. /\ Tail(msgs) \in Seq(Message) /\ Len(Tail(msgs)) = Len(msgs) - 1
        /\ \A j \in 1..(Len(msgs) - 1) : Tail(msgs)[j] = msgs[j + 1]
    BY <2>1
  <2>3. AddMessage(msgs, m) = Append(Tail(msgs), m)
    BY <1>1 DEF AddMessage
  <2>4. i \in 1..Len(msgs)
    BY <2>2, <2>3
  <2>5. CASE i = Len(msgs)
    BY <2>2, <2>3, <2>5
  <2>6. CASE i # Len(msgs)
    <3>1. i \in 1..(Len(msgs) - 1) /\ i + 1 \in DOMAIN msgs
      BY <2>4, <2>6
    <3>2. AddMessage(msgs, m)[i] = msgs[i + 1]
      BY <3>1, <2>2, <2>3
    <3>3. QED
      BY <3>1, <3>2
  <2>7. QED
    BY <2>5, <2>6
<1>2. CASE ~(Len(msgs) >= MaxMessages)
  <2>1. AddMessage(msgs, m) = Append(msgs, m)
    BY <1>2 DEF AddMessage
  <2>2. i \in 1..(Len(msgs) + 1)
    BY <2>1
  <2>3. CASE i = Len(msgs) + 1
    BY <2>1, <2>3
  <2>4. CASE i # Len(msgs) + 1
    <3>1. i \in DOMAIN msgs
      BY <2>2, <2>4
    <3>2. QED
      BY <2>1, <3>1
  <2>5. QED
    BY <2>3, <2>4
<1>3. QED
  BY <1>1, <1>2

-----------------------------------------------------------------------------
(* The inductive invariant.                                                *)

\* What a slice of messages may be: a bounded window with messages of key k.
WindowOf(k, msgs) ==
    /\ msgs \in Seq(Message)
    /\ Len(msgs) <= MaxMessages
    /\ Only(k, msgs)

\* Every map entry and every reference names an object of its own key, every
\* object, slice and row holds a bounded window of its own key, and a keyed
\* row holds the session of the key that addresses it.
IInv ==
    /\ TypeOK
    /\ \A k \in Keys : sessions[k] # NoSession => Owner(sessions[k]) = k
    /\ \A r \in Requests : ref[r] # NoSession => Owner(ref[r]) = KeyOf[r]
    /\ \A r \in Requests : pc[r] \notin Idle \cup {"lookup", "load", "install"} => ref[r] # NoSession
    /\ \A o \in Objects : WindowOf(Owner(o), heap[o])
    /\ \A r \in Requests : WindowOf(KeyOf[r], slice[r])
    /\ \A s \in Slots : rows[s] \in Row =>
          /\ WindowOf(rows[s].owner, rows[s].msgs)
          /\ SlotOf[rows[s].owner] = s

LEMMA EmptyWindow == ASSUME NEW k PROVE WindowOf(k, << >>)
BY MaxMessagesAssumption DEF WindowOf, Only

LEMMA OwnerType == ASSUME NEW o \in Objects PROVE Owner(o) \in Keys
BY RouterAssumption DEF Owner, Objects

LEMMA InitIInv == Init => IInv
<1> SUFFICES ASSUME Init PROVE IInv
  OBVIOUS
<1>1. TypeOK
  BY RouterAssumption DEF Init, TypeOK, Labels, Idle, Replies, Objects
<1>2. \A o \in Objects : WindowOf(Owner(o), heap[o])
  BY EmptyWindow DEF Init
<1>3. \A r \in Requests : WindowOf(KeyOf[r], slice[r])
  BY EmptyWindow DEF Init
<1>4. \A s \in Slots : rows[s] \notin Row
  BY RouterAssumption DEF Init, Row
<1>5. QED
  BY <1>1, <1>2, <1>3, <1>4 DEF Init, IInv, Idle

LEMMA ReceiveIInv ==
    ASSUME IInv, NEW r \in Requests, Receive(r) PROVE IInv'
<1>1. TypeOK'
  BY DEF IInv, TypeOK, Receive, Finish, Goto, Labels, Idle, Replies
<1>2. QED
  BY <1>1 DEF IInv, TypeOK, Receive, Finish, Goto, Idle

LEMMA LookupIInv ==
    ASSUME IInv, NEW r \in Requests, Lookup(r) PROVE IInv'
<1> DEFINE found == sessions[KeyOf[r]]
           to == IF found # NoSession THEN "addUser" ELSE "load"
<1>1. KeyOf[r] \in Keys
  BY RouterAssumption
<1>2. found \in Objects \cup {NoSession} /\ (found # NoSession => Owner(found) = KeyOf[r])
  BY <1>1 DEF IInv, TypeOK
<1>3. /\ ref' = IF found # NoSession THEN [ref EXCEPT ![r] = found] ELSE ref
      /\ pc' = [pc EXCEPT ![r] = to]
      /\ UNCHANGED <<sessions, heap, rows, slice, reply, crashes, clears>>
  BY DEF Lookup, Goto
<1>4. to \in Labels /\ (to = "addUser" => found # NoSession)
  BY DEF Labels
<1>5. to # "addUser" => to = "load"
  OBVIOUS
<1> HIDE DEF found, to
<1>6. pc' \in [Requests -> Labels]
  BY <1>3, <1>4 DEF IInv, TypeOK
<1>7. ref' \in [Requests -> Objects \cup {NoSession}]
  BY <1>2, <1>3 DEF IInv, TypeOK
<1>8. TypeOK'
  BY <1>3, <1>6, <1>7 DEF IInv, TypeOK
<1>9. QED
  BY <1>2, <1>3, <1>4, <1>5, <1>8 DEF IInv, TypeOK, Idle

LEMMA LoadIInv ==
    ASSUME IInv, NEW r \in Requests, Load(r) PROVE IInv'
<1>1. /\ KeyOf[r] \in Keys /\ SlotOf[KeyOf[r]] \in Slots
      /\ r \in Objects /\ Owner(r) = KeyOf[r]
  BY RouterAssumption DEF Objects, Owner
<1> DEFINE row == rows[SlotOf[KeyOf[r]]]
           loaded == heap'[r]
<1>2. heap' = [heap EXCEPT ![r] = loaded]
  BY <1>1 DEF Load, IInv, TypeOK
<1>3. WindowOf(KeyOf[r], loaded)
  <2>1. CASE LazyLoad /\ row \in Row /\ loaded = row.msgs
    <3>1. WindowOf(row.owner, row.msgs) /\ SlotOf[row.owner] = SlotOf[KeyOf[r]]
      BY <1>1, <2>1 DEF IInv
    <3>2. row.owner \in Keys
      BY <2>1 DEF Row
    <3>3. row.owner = KeyOf[r]
      BY <1>1, <2>1, <3>1, <3>2, KeyedRows DEF LazyLoad
    <3>4. QED
      BY <2>1, <3>1, <3>3
  <2>2. CASE loaded = << >>
    BY <2>2, EmptyWindow
  <2>3. QED
    BY <1>1, <2>1, <2>2 DEF Load, IInv, TypeOK
<1>4. loaded \in Seq(Message)
  BY <1>3 DEF WindowOf
<1> HIDE DEF loaded
<1>5. TypeOK'
  BY <1>1, <1>2, <1>4 DEF IInv, TypeOK, Load, Goto, Labels, Idle
<1>6. \A o \in Objects : WindowOf(Owner(o), heap'[o])
  BY <1>1, <1>2, <1>3 DEF IInv, TypeOK
<1>7. QED
  BY <1>5, <1>6 DEF IInv, TypeOK, Load, Goto, Idle

LEMMA InstallIInv ==
    ASSUME IInv, NEW r \in Requests, Install(r) PROVE IInv'
<1>1. KeyOf[r] \in Keys /\ r \in Objects /\ Owner(r) = KeyOf[r]
  BY RouterAssumption DEF Objects, Owner
<1>2. TypeOK'
  BY <1>1 DEF IInv, TypeOK, Install, Goto, Labels, Idle
<1>3. QED
  BY <1>1, <1>2, RouterAssumption DEF IInv, TypeOK, Install, Goto, Idle, Objects

LEMMA ReadIInv ==
    ASSUME IInv, NEW r \in Requests, NEW from \in Labels, NEW to \in Labels,
           from \notin Idle \cup {"lookup", "load", "install"}, Read(r, from, to)
    PROVE IInv'
<1>1. ref[r] # NoSession /\ ref[r] \in Objects /\ Owner(ref[r]) = KeyOf[r]
  BY DEF IInv, TypeOK, Read
<1>2. WindowOf(KeyOf[r], heap[ref[r]])
  BY <1>1 DEF IInv
<1>3. TypeOK'
  BY <1>1, <1>2 DEF IInv, TypeOK, Read, Goto, WindowOf
<1>4. QED
  BY <1>1, <1>2, <1>3 DEF IInv, TypeOK, Read, Goto

LEMMA PutIInv ==
    ASSUME IInv, NEW r \in Requests, NEW from \in Labels, NEW to \in Labels, NEW role \in Roles,
           from \notin Idle \cup {"lookup", "load", "install"}, Put(r, from, role, to)
    PROVE IInv'
<1> DEFINE m == [req |-> r, role |-> role]
           new == AddMessage(slice[r], m)
<1>1. ref[r] # NoSession /\ ref[r] \in Objects /\ Owner(ref[r]) = KeyOf[r]
  BY DEF IInv, TypeOK, Put
<1>2. m \in Message
  BY DEF Message
<1>3. slice[r] \in Seq(Message) /\ Len(slice[r]) <= MaxMessages /\ Only(KeyOf[r], slice[r])
  BY DEF IInv, WindowOf
<1>4. new \in Seq(Message) /\ Len(new) <= MaxMessages
  BY <1>2, <1>3, AddMessageType
<1>5. Only(KeyOf[r], new)
  <2> SUFFICES ASSUME NEW i \in DOMAIN new PROVE KeyOf[new[i].req] = KeyOf[r]
    BY DEF Only
  <2>1. new[i] = m \/ \E j \in DOMAIN slice[r] : new[i] = slice[r][j]
    BY <1>2, <1>3, AddMessageElements
  <2>2. m.req = r
    OBVIOUS
  <2> HIDE DEF new, m
  <2>3. QED
    BY <1>3, <2>1, <2>2 DEF Only
<1>6. WindowOf(KeyOf[r], new)
  BY <1>4, <1>5 DEF WindowOf
<1>7. heap' = [heap EXCEPT ![ref[r]] = new]
  BY DEF Put
<1> HIDE DEF new
<1>8. TypeOK'
  BY <1>1, <1>4, <1>7 DEF IInv, TypeOK, Put, Goto
<1>9. \A o \in Objects : WindowOf(Owner(o), heap'[o])
  BY <1>1, <1>6, <1>7 DEF IInv, TypeOK
<1>10. QED
  BY <1>1, <1>8, <1>9 DEF IInv, TypeOK, Put, Goto

\* Both ways to save: the slice of r becomes the row of its key.
LEMMA SaveIInv ==
    ASSUME IInv, NEW r \in Requests, pc[r] \in {"write", "rewrite"},
           rows' = [rows EXCEPT ![SlotOf[KeyOf[r]]] = [owner |-> KeyOf[r], msgs |-> slice[r]]],
           Goto(r, "log"),
           UNCHANGED <<sessions, heap, ref, slice, reply, crashes, clears>>
    PROVE IInv'
<1> DEFINE row == [owner |-> KeyOf[r], msgs |-> slice[r]]
<1>1. KeyOf[r] \in Keys /\ SlotOf[KeyOf[r]] \in Slots
  BY RouterAssumption
<1>2. WindowOf(KeyOf[r], slice[r]) /\ slice[r] \in Seq(Message)
  BY DEF IInv, WindowOf
<1>3. row \in Row /\ row.owner = KeyOf[r] /\ row.msgs = slice[r]
  BY <1>1, <1>2 DEF Row
<1> HIDE DEF row
<1>4. rows' = [rows EXCEPT ![SlotOf[KeyOf[r]]] = row]
  BY DEF row
<1>5. TypeOK'
  BY <1>1, <1>3, <1>4 DEF IInv, TypeOK, Goto, Labels
<1>6. \A s \in Slots : rows'[s] \in Row =>
        WindowOf(rows'[s].owner, rows'[s].msgs) /\ SlotOf[rows'[s].owner] = s
  BY <1>1, <1>2, <1>3, <1>4 DEF IInv, TypeOK
<1>7. ref[r] # NoSession
  BY DEF IInv, Idle
<1>8. QED
  BY <1>5, <1>6, <1>7 DEF IInv, TypeOK, Goto, Idle

LEMMA WriteIInv ==
    ASSUME IInv, NEW r \in Requests, Write(r) PROVE IInv'
<1>1. CASE Backend = "yaml"
  <2>1. KeyOf[r] \in Keys /\ SlotOf[KeyOf[r]] \in Slots /\ Torn \notin Row
    BY RouterAssumption DEF Row
  <2>2. TypeOK'
    BY <1>1, <2>1 DEF IInv, TypeOK, Write, Goto, Labels
  <2>3. QED
    BY <1>1, <2>1, <2>2 DEF IInv, TypeOK, Write, Goto, Idle
<1>2. CASE Backend # "yaml"
  BY <1>2, SaveIInv DEF Write
<1>3. QED
  BY <1>1, <1>2

LEMMA RewriteIInv ==
    ASSUME IInv, NEW r \in Requests, Rewrite(r) PROVE IInv'
BY SaveIInv DEF Rewrite

LEMMA FinishIInv ==
    ASSUME IInv, NEW r \in Requests, NEW text \in Replies, Finish(r, text),
           UNCHANGED <<sessions, heap, rows, ref, slice, crashes, clears>>
    PROVE IInv'
<1>1. TypeOK'
  BY DEF IInv, TypeOK, Finish, Goto, Labels, Idle
<1>2. QED
  BY <1>1 DEF IInv, TypeOK, Finish, Goto, Idle

LEMMA MoveIInv ==
    ASSUME IInv, NEW r \in Requests, NEW to \in Labels, Goto(r, to),
           pc[r] \notin Idle \cup {"lookup", "load", "install"},
           UNCHANGED <<sessions, heap, rows, ref, slice, reply, crashes, clears>>
    PROVE IInv'
<1>1. TypeOK'
  BY DEF IInv, TypeOK, Goto
<1>2. QED
  BY <1>1 DEF IInv, TypeOK, Goto

LEMMA WorkIInv ==
    ASSUME IInv, NEW r \in Requests, Work(r) PROVE IInv'
<1> USE DEF Labels, Idle, Roles, Replies
<1>1. CASE Lookup(r)
  BY <1>1, LookupIInv
<1>2. CASE Load(r)
  BY <1>2, LoadIInv
<1>3. CASE Install(r)
  BY <1>3, InstallIInv
<1>4. CASE AddUserMessage(r)
  BY <1>4, ReadIInv, PutIInv DEF AddUserMessage
<1>5. CASE GetHistory(r)
  BY <1>5, ReadIInv DEF GetHistory
<1>6. CASE Answer(r)
  BY <1>6, MoveIInv DEF Answer
<1>7. CASE AnswerError(r)
  BY <1>7, FinishIInv DEF AnswerError
<1>8. CASE AddAssistantMessage(r)
  BY <1>8, ReadIInv, PutIInv DEF AddAssistantMessage
<1>9. CASE Marshal(r)
  <2>1. (IF Backend = "memory" THEN "log" ELSE "write") \in Labels
    OBVIOUS
  <2>2. QED
    BY <1>9, <2>1, ReadIInv DEF Marshal
<1>10. CASE Write(r)
  BY <1>10, WriteIInv
<1>11. CASE Rewrite(r)
  BY <1>11, RewriteIInv
<1>12. CASE SaveError(r)
  BY <1>12, MoveIInv DEF SaveError
<1>13. CASE LogUsage(r)
  BY <1>13, FinishIInv DEF LogUsage
<1>14. CASE LoadError(r)
  BY <1>14, FinishIInv DEF LoadError
<1>15. QED
  BY <1>1, <1>2, <1>3, <1>4, <1>5, <1>6, <1>7, <1>8, <1>9, <1>10, <1>11, <1>12, <1>13, <1>14 DEF Work

LEMMA ClearSessionIInv ==
    ASSUME IInv, NEW k \in Keys, ClearSession(k) PROVE IInv'
<1> DEFINE obj == IF sessions[k] = NoSession THEN k ELSE sessions[k]
           row == [owner |-> k, msgs |-> << >>]
<1>1. obj \in Objects /\ Owner(obj) = k /\ obj # NoSession
  BY RouterAssumption DEF IInv, TypeOK, Objects, Owner
<1>2. SlotOf[k] \in Slots /\ Torn \notin Row
  BY RouterAssumption DEF Row
<1>3. row \in Row /\ row.owner = k /\ row.msgs = << >>
  BY DEF Row
<1>4. /\ sessions' = [sessions EXCEPT ![k] = obj]
      /\ heap' = [heap EXCEPT ![obj] = << >>]
      /\ \/ rows' = [rows EXCEPT ![SlotOf[k]] = row]
         \/ rows' = [rows EXCEPT ![SlotOf[k]] = Torn]
         \/ UNCHANGED rows
      /\ clears < MaxClears /\ clears' = clears + 1
      /\ UNCHANGED <<pc, ref, slice, reply, crashes>>
  BY DEF ClearSession
<1> HIDE DEF obj, row
<1>5. TypeOK'
  <2>1. sessions' \in [Keys -> Objects \cup {NoSession}] /\ heap' \in [Objects -> Seq(Message)]
    BY <1>1, <1>4 DEF IInv, TypeOK
  <2>2. rows' \in [Slots -> Row \cup {NoRow, Torn}]
    BY <1>2, <1>3, <1>4 DEF IInv, TypeOK
  <2>3. clears' \in 0..MaxClears
    <3>1. MaxClears \in Nat /\ clears \in 0..MaxClears
      BY RouterAssumption DEF IInv, TypeOK
    <3>2. QED
      BY <1>4, <3>1
  <2>4. QED
    BY <1>4, <2>1, <2>2, <2>3 DEF IInv, TypeOK
<1>6. \A o \in Objects : WindowOf(Owner(o), heap'[o])
  BY <1>1, <1>4, EmptyWindow DEF IInv, TypeOK
<1>7. \A s \in Slots : rows'[s] \in Row =>
        WindowOf(rows'[s].owner, rows'[s].msgs) /\ SlotOf[rows'[s].owner] = s
  <2> SUFFICES ASSUME NEW s \in Slots, rows'[s] \in Row
               PROVE  WindowOf(rows'[s].owner, rows'[s].msgs) /\ SlotOf[rows'[s].owner] = s
    OBVIOUS
  <2>1. rows'[s] = rows[s] \/ (s = SlotOf[k] /\ rows'[s] \in {row, Torn})
    BY <1>2, <1>4 DEF IInv, TypeOK
  <2>2. CASE rows'[s] = rows[s]
    BY <2>2 DEF IInv
  <2>3. CASE s = SlotOf[k] /\ rows'[s] = row
    BY <2>3, <1>3, EmptyWindow
  <2>4. QED
    BY <1>2, <2>1, <2>2, <2>3
<1>8. \A q \in Keys : sessions'[q] # NoSession => Owner(sessions'[q]) = q
  BY <1>1, <1>4 DEF IInv, TypeOK
<1>9. QED
  BY <1>4, <1>5, <1>6, <1>7, <1>8 DEF IInv

LEMMA CrashIInv == ASSUME IInv, Crash PROVE IInv'
<1>1. ASSUME NEW k \in Keys, Loaded(k)
      PROVE  WindowOf(k, LoadedMsgs(k))
  <2> DEFINE s == CHOOSE t \in Stored(k) : TRUE
  <2>1. s \in Stored(k)
    BY <1>1 DEF Loaded
  <2>2. s \in Slots /\ rows[s] \in Row /\ rows[s].owner = k
    BY <2>1 DEF Stored
  <2>3. LoadedMsgs(k) = rows[s].msgs
    BY DEF LoadedMsgs
  <2> HIDE DEF s
  <2>4. QED
    BY <2>2, <2>3 DEF IInv
<1>2. \A o \in Objects : WindowOf(Owner(o), heap'[o])
  <2> SUFFICES ASSUME NEW o \in Objects PROVE WindowOf(Owner(o), heap'[o])
    OBVIOUS
  <2>1. CASE o \in Keys /\ Loaded(o)
    <3>1. Owner(o) = o
      BY <2>1, RouterAssumption DEF Owner
    <3>2. heap'[o] = LoadedMsgs(o)
      BY <2>1 DEF Crash
    <3>3. QED
      BY <1>1, <2>1, <3>1, <3>2
  <2>2. CASE ~(o \in Keys /\ Loaded(o))
    <3>1. heap'[o] = << >>
      BY <2>2 DEF Crash
    <3>2. QED
      BY <3>1, EmptyWindow
  <2>3. QED
    BY <2>1, <2>2
<1>3. heap' \in [Objects -> Seq(Message)]
  BY <1>2 DEF Crash, WindowOf
<1>4. sessions' \in [Keys -> Objects \cup {NoSession}]
  BY DEF Crash, Objects
<1>5. \A k \in Keys : sessions'[k] # NoSession => Owner(sessions'[k]) = k
  BY RouterAssumption DEF Crash, Owner
<1>6. slice' \in [Requests -> Seq(Message)] /\ \A r \in Requests : WindowOf(KeyOf[r], slice'[r])
  BY EmptyWindow DEF Crash
<1>7. \A r \in Requests : pc'[r] \in Idle
  BY DEF Crash, Idle
<1>8. TypeOK'
  <2>1. pc' \in [Requests -> Labels]
    BY DEF IInv, TypeOK, Crash, Labels, Idle
  <2>2. ref' \in [Requests -> Objects \cup {NoSession}] /\ crashes' \in 0..MaxCrashes
    BY RouterAssumption DEF IInv, TypeOK, Crash
  <2>3. QED
    BY <1>3, <1>4, <1>6, <2>1, <2>2 DEF IInv, TypeOK, Crash
<1>9. QED
  BY <1>2, <1>5, <1>6, <1>7, <1>8 DEF IInv, Crash

LEMMA NextIInv == IInv /\ [Next]_vars => IInv'
<1> SUFFICES ASSUME IInv, [Next]_vars PROVE IInv'
  OBVIOUS
<1>1. ASSUME NEW r \in Requests, Receive(r) PROVE IInv'
  BY <1>1, ReceiveIInv
<1>2. ASSUME NEW r \in Requests, Work(r) PROVE IInv'
  BY <1>2, WorkIInv
<1>3. ASSUME NEW k \in Keys, ClearSession(k) PROVE IInv'
  BY <1>3, ClearSessionIInv
<1>4. CASE Crash
  BY <1>4, CrashIInv
<1>5. CASE UNCHANGED vars
  BY <1>5 DEF vars, IInv, TypeOK, WindowOf, Only
<1>6. QED
  BY <1>1, <1>2, <1>3, <1>4, <1>5 DEF Next

LEMMA SpecIInv == Spec => []IInv
BY InitIInv, NextIInv, PTL DEF Spec

-----------------------------------------------------------------------------
\* Type correctness of the pipeline and the store.
THEOREM TypeCorrect == Spec => []TypeOK
<1>1. IInv => TypeOK
  BY DEF IInv
<1>2. QED
  BY <1>1, SpecIInv, PTL

\* No session object, history or row outgrows the window.
THEOREM WindowBounded == Spec => []WindowBound
<1>1. IInv => WindowBound
  BY DEF IInv, WindowBound, WindowOf
<1>2. QED
  BY <1>1, SpecIInv, PTL

\* No message of one user reaches the session, the history or the row of
\* another one.
THEOREM UsersIsolated == Spec => []Isolation
<1>1. IInv => Isolation
  <2> SUFFICES ASSUME IInv PROVE Isolation
    OBVIOUS
  <2>1. ASSUME NEW k \in Keys, sessions[k] # NoSession PROVE Only(k, heap[sessions[k]])
    <3>1. sessions[k] \in Objects /\ Owner(sessions[k]) = k
      BY <2>1 DEF IInv, TypeOK
    <3>2. QED
      BY <3>1 DEF IInv, WindowOf
  <2>2. QED
    BY <2>1 DEF IInv, Isolation, WindowOf
<1>2. QED
  BY <1>1, SpecIInv, PTL
=============================================================================
