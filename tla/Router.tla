------------------------------- MODULE Router -------------------------------
(***************************************************************************)
(* The message pipeline of internal/router/router.go with the session      *)
(* store it drives (internal/conversation): authorisation, rate limit,     *)
(* Store.Get, the user message, the AI call, the assistant message,        *)
(* Store.Save.  Every request runs in a goroutine of its own; the store's  *)
(* map is locked, the sessions in it are not.  The process may crash and   *)
(* start again, and backend calls may fail.                                *)
(***************************************************************************)
EXTENDS Session, FiniteSets

CONSTANTS Keys,         \* session keys, "channel:user"
          KeyOf,        \* the session key of each request
          SerialKeys,   \* keys whose channel sends one request at a time
          Allowed,      \* keys the authorizer lets through
          Backend,      \* "memory", "yaml", "sqlite" or "postgres"
          Slots,        \* rows or files of the backend
          SlotOf,       \* the row or file each key is saved in
          Faults,       \* faults of this instance: "load", "decode", "save", "crash"
          MaxCrashes,   \* bound on crashes
          MaxClears,    \* bound on /clear commands
          NoSession,    \* no entry in the store's map
          NoRow,        \* nothing saved in the slot
          Torn          \* a file cut short by a crash or a failed write

ASSUME RouterAssumption ==
    /\ KeyOf \in [Requests -> Keys]
    /\ SlotOf \in [Keys -> Slots]
    /\ SerialKeys \subseteq Keys
    /\ Allowed \subseteq Keys
    /\ Backend \in {"memory", "yaml", "sqlite", "postgres"}
    /\ Faults \subseteq {"load", "decode", "save", "crash"}
    /\ MaxCrashes \in Nat /\ MaxClears \in Nat
    /\ Requests \cap Keys = {}
    /\ NoSession \notin Requests \cup Keys
    /\ NoRow \notin [owner : Keys, msgs : Seq(Message)]
    /\ Torn \notin [owner : Keys, msgs : Seq(Message)]

\* A row is addressed by the whole key; the file name of a key replaces
\* ':', '/' and '\' by '_', so two keys may share a file.
ASSUME KeyedRows ==
    Backend \in {"sqlite", "postgres"} =>
        \A k1, k2 \in Keys : SlotOf[k1] = SlotOf[k2] => k1 = k2

VARIABLES sessions,  \* Store.sessions: key -> session object
          heap,      \* the messages of every session object
          rows,      \* what the backend holds
          pc,        \* where each request's goroutine is
          ref,       \* the session object a request works on
          slice,     \* the messages a request last read
          reply,     \* the text sent back, "none" before
          crashes, clears

vars == <<sessions, heap, rows, pc, ref, slice, reply, crashes, clears>>

-----------------------------------------------------------------------------
\* A session object is named by what made it: the request that created or
\* loaded it, or the key it was loaded for when the store was built.
Objects == Requests \cup Keys
Owner(o) == IF o \in Requests THEN KeyOf[o] ELSE o

Row == [owner : Keys, msgs : Seq(Message)]
LazyLoad == Backend \in {"sqlite", "postgres"}
EagerLoad == Backend \in {"sqlite", "yaml"}

Idle == {"idle", "done", "crashed"}
InFlight == {r \in Requests : pc[r] \notin Idle}
Labels == Idle \cup {"lookup", "load", "install", "addUser", "putUser", "history",
                     "answer", "addReply", "putReply", "marshal", "write", "rewrite", "log",
                     "unsaved"}
Replies == {"none", "unauthorized", "limited", "internal", "aierror", "ok"}

Goto(r, l) == pc' = [pc EXCEPT ![r] = l]
Finish(r, text) == Goto(r, "done") /\ reply' = [reply EXCEPT ![r] = text]

\* Mutant: a file is taken for the session its name stands for.
StoredByName(k) == {s \in {SlotOf[k]} : rows[s] \in Row}

\* The sessions found in the backend when the store is built; Torn files and
\* empty slots are skipped.
Stored(k) == {s \in Slots : rows[s] \in Row /\ rows[s].owner = k}
Loaded(k) == EagerLoad /\ Stored(k) # {}
LoadedMsgs(k) == rows[CHOOSE s \in Stored(k) : TRUE].msgs

-----------------------------------------------------------------------------
Init ==
    /\ sessions = [k \in Keys |-> NoSession]
    /\ heap = [o \in Objects |-> << >>]
    /\ rows = [s \in Slots |-> NoRow]
    /\ pc = [r \in Requests |-> "idle"]
    /\ ref = [r \in Requests |-> NoSession]
    /\ slice = [r \in Requests |-> << >>]
    /\ reply = [r \in Requests |-> "none"]
    /\ crashes = 0 /\ clears = 0

\* Authorisation, then the rate limit, whose verdict is left open (module
\* RateLimit decides it).  A serial channel holds its next message back.
Receive(r) ==
    /\ pc[r] = "idle"
    /\ KeyOf[r] \in SerialKeys => \A q \in InFlight : KeyOf[q] # KeyOf[r]
    /\ \/ KeyOf[r] \notin Allowed /\ Finish(r, "unauthorized")
       \/ KeyOf[r] \in Allowed /\ Finish(r, "limited")
       \/ KeyOf[r] \in Allowed /\ Goto(r, "lookup") /\ UNCHANGED reply
    /\ UNCHANGED <<sessions, heap, rows, ref, slice, crashes, clears>>

\* Store.Get under the read lock.
Lookup(r) ==
    /\ pc[r] = "lookup"
    /\ IF sessions[KeyOf[r]] # NoSession
       THEN /\ ref' = [ref EXCEPT ![r] = sessions[KeyOf[r]]]
            /\ Goto(r, "addUser")
       ELSE UNCHANGED ref /\ Goto(r, "load")
    /\ UNCHANGED <<sessions, heap, rows, slice, reply, crashes, clears>>

\* Mutant: the row is never looked for.
LoadNothing(r) ==
    /\ pc[r] = "load"
    /\ heap' = [heap EXCEPT ![r] = << >>]
    /\ Goto(r, "install")
    /\ UNCHANGED <<sessions, rows, ref, slice, reply, crashes, clears>>

\* Store.Get with no lock held: the row if there is one, else a new session.
\* A failing query counts as "not found".
Load(r) ==
    LET row == rows[SlotOf[KeyOf[r]]]
        found == LazyLoad /\ row \in Row
    IN /\ pc[r] = "load"
       /\ \/ heap' = [heap EXCEPT ![r] = IF found THEN row.msgs ELSE << >>]
          \/ /\ "load" \in Faults /\ LazyLoad
             /\ heap' = [heap EXCEPT ![r] = << >>]
       /\ Goto(r, "install")
       /\ UNCHANGED <<sessions, rows, ref, slice, reply, crashes, clears>>

\* A row that somebody else changed so that it cannot be decoded.
LoadError(r) ==
    /\ pc[r] = "load" /\ "decode" \in Faults
    /\ LazyLoad /\ rows[SlotOf[KeyOf[r]]] \in Row
    /\ Finish(r, "internal")
    /\ UNCHANGED <<sessions, heap, rows, ref, slice, crashes, clears>>

\* Store.Get under the write lock, which does not look at the map again.
Install(r) ==
    /\ pc[r] = "install"
    /\ sessions' = [sessions EXCEPT ![KeyOf[r]] = r]
    /\ ref' = [ref EXCEPT ![r] = r]
    /\ Goto(r, "addUser")
    /\ UNCHANGED <<heap, rows, slice, reply, crashes, clears>>

\* The unlocked reads of Session.Messages: before each append, for the
\* history of the AI request, and to marshal the session.
Read(r, from, to) ==
    /\ pc[r] = from
    /\ slice' = [slice EXCEPT ![r] = heap[ref[r]]]
    /\ Goto(r, to)
    /\ UNCHANGED <<sessions, heap, rows, ref, reply, crashes, clears>>

\* The unlocked write that ends Session.AddMessage.
Put(r, from, role, to) ==
    /\ pc[r] = from
    /\ heap' = [heap EXCEPT ![ref[r]] = AddMessage(slice[r], [req |-> r, role |-> role])]
    /\ Goto(r, to)
    /\ UNCHANGED <<sessions, rows, ref, slice, reply, crashes, clears>>

AddUserMessage(r) == Read(r, "addUser", "putUser") \/ Put(r, "putUser", "user", "history")
GetHistory(r) == Read(r, "history", "answer")

\* The AI service answers or fails; on failure the user message stays.
Answer(r) ==
    /\ pc[r] = "answer"
    /\ Goto(r, "addReply")
    /\ UNCHANGED <<sessions, heap, rows, ref, slice, reply, crashes, clears>>

\* Mutant: the error ends the handler without a text.
AnswerErrorSilent(r) ==
    /\ pc[r] = "answer"
    /\ Goto(r, "done")
    /\ UNCHANGED <<sessions, heap, rows, ref, slice, reply, crashes, clears>>

AnswerError(r) ==
    /\ pc[r] = "answer"
    /\ Finish(r, "aierror")
    /\ UNCHANGED <<sessions, heap, rows, ref, slice, crashes, clears>>

AddAssistantMessage(r) ==
    Read(r, "addReply", "putReply") \/ Put(r, "putReply", "assistant", "marshal")

\* Mutants: the assistant message is not saved; the row names its slot instead
\* of its key.
MarshalOnly(r) == Read(r, "marshal", "log")

WriteSlotName(r) ==
    /\ pc[r] = "write"
    /\ rows' = [rows EXCEPT ![SlotOf[KeyOf[r]]] =
                 [owner |-> SlotOf[KeyOf[r]], msgs |-> slice[r]]]
    /\ Goto(r, "log")
    /\ UNCHANGED <<sessions, heap, ref, slice, reply, crashes, clears>>

\* Store.Save: marshal, then write.  A row is replaced atomically; a file is
\* truncated first.  A failed save is logged and the answer is sent.
Marshal(r) == Read(r, "marshal", IF Backend = "memory" THEN "log" ELSE "write")

Write(r) ==
    /\ pc[r] = "write"
    /\ IF Backend = "yaml"
       THEN rows' = [rows EXCEPT ![SlotOf[KeyOf[r]]] = Torn] /\ Goto(r, "rewrite")
       ELSE /\ rows' = [rows EXCEPT ![SlotOf[KeyOf[r]]] =
                            [owner |-> KeyOf[r], msgs |-> slice[r]]]
            /\ Goto(r, "log")
    /\ UNCHANGED <<sessions, heap, ref, slice, reply, crashes, clears>>

Rewrite(r) ==
    /\ pc[r] = "rewrite"
    /\ rows' = [rows EXCEPT ![SlotOf[KeyOf[r]]] = [owner |-> KeyOf[r], msgs |-> slice[r]]]
    /\ Goto(r, "log")
    /\ UNCHANGED <<sessions, heap, ref, slice, reply, crashes, clears>>

SaveError(r) ==
    /\ "save" \in Faults
    /\ pc[r] \in {"write", "rewrite"}
    /\ Goto(r, "unsaved")
    /\ UNCHANGED <<sessions, heap, rows, ref, slice, reply, crashes, clears>>

\* logUsage (its failure is only logged), then the reply.
LogUsage(r) ==
    /\ pc[r] \in {"log", "unsaved"}
    /\ Finish(r, "ok")
    /\ UNCHANGED <<sessions, heap, rows, ref, slice, crashes, clears>>

\* Mutant: /clear empties the row and leaves the window.
ClearSessionRow(k) ==
    /\ clears < MaxClears
    /\ k \in SerialKeys
    /\ \A q \in InFlight : KeyOf[q] # k
    /\ rows' = [rows EXCEPT ![SlotOf[k]] = [owner |-> k, msgs |-> << >>]]
    /\ clears' = clears + 1
    /\ UNCHANGED <<sessions, heap, pc, ref, slice, reply, crashes>>

\* /clear of the CLI, typed while no request of its session runs: Store.Get,
\* then the window is emptied and saved.
ClearSession(k) ==
    LET obj == IF sessions[k] = NoSession THEN k ELSE sessions[k]
        Saved(row) == rows' = [rows EXCEPT ![SlotOf[k]] = row]
    IN /\ clears < MaxClears
       /\ k \in SerialKeys
       /\ \A q \in InFlight : KeyOf[q] # k
       /\ sessions' = [sessions EXCEPT ![k] = obj]
       /\ heap' = [heap EXCEPT ![obj] = << >>]
       /\ \/ Backend # "memory" /\ Saved([owner |-> k, msgs |-> << >>])
          \/ Backend = "yaml" /\ "save" \in Faults /\ Saved(Torn)
          \/ (Backend = "memory" \/ "save" \in Faults) /\ UNCHANGED rows
       /\ clears' = clears + 1
       /\ UNCHANGED <<pc, ref, slice, reply, crashes>>

\* The process dies and NewStore builds the store again.
Crash ==
    /\ "crash" \in Faults
    /\ crashes < MaxCrashes
    /\ sessions' = [k \in Keys |-> IF Loaded(k) THEN k ELSE NoSession]
    /\ heap' = [o \in Objects |-> IF o \in Keys /\ Loaded(o) THEN LoadedMsgs(o) ELSE << >>]
    /\ pc' = [r \in Requests |-> IF pc[r] \in Idle THEN pc[r] ELSE "crashed"]
    /\ ref' = [r \in Requests |-> NoSession]
    /\ slice' = [r \in Requests |-> << >>]
    /\ crashes' = crashes + 1
    /\ UNCHANGED <<rows, reply, clears>>

Work(r) ==
    \/ Lookup(r) \/ Load(r) \/ LoadError(r) \/ Install(r)
    \/ AddUserMessage(r) \/ GetHistory(r)
    \/ Answer(r) \/ AnswerError(r)
    \/ AddAssistantMessage(r)
    \/ Marshal(r) \/ Write(r) \/ Rewrite(r) \/ SaveError(r)
    \/ LogUsage(r)

Next ==
    \/ \E r \in Requests : Receive(r) \/ Work(r)
    \/ \E k \in Keys : ClearSession(k)
    \/ Crash

Spec == Init /\ [][Next]_vars

\* Goroutines are scheduled and every external call returns; nothing makes a
\* crash or a /clear happen.
FairSpec == Spec /\ \A r \in Requests : WF_vars(Receive(r)) /\ WF_vars(Work(r))

-----------------------------------------------------------------------------
TypeOK ==
    /\ sessions \in [Keys -> Objects \cup {NoSession}]
    /\ heap \in [Objects -> Seq(Message)]
    /\ rows \in [Slots -> Row \cup {NoRow, Torn}]
    /\ pc \in [Requests -> Labels]
    /\ ref \in [Requests -> Objects \cup {NoSession}]
    /\ slice \in [Requests -> Seq(Message)]
    /\ reply \in [Requests -> Replies]
    /\ crashes \in 0..MaxCrashes /\ clears \in 0..MaxClears

\* No session object, row or history ever exceeds the window, whatever the
\* unlocked appends, stale saves and restarts do to it.
WindowBound ==
    /\ \A o \in Objects : Len(heap[o]) <= MaxMessages
    /\ \A r \in Requests : Len(slice[r]) <= MaxMessages
    /\ \A s \in Slots : rows[s] \in Row => Len(rows[s].msgs) <= MaxMessages

\* Messages of one key only.
Only(k, msgs) == \A i \in DOMAIN msgs : KeyOf[msgs[i].req] = k

\* No user ever sees, and no row ever holds, a message of another user: not
\* even when two keys share a file or two requests race to make a session.
Isolation ==
    /\ \A k \in Keys : sessions[k] # NoSession => Only(k, heap[sessions[k]])
    /\ \A r \in Requests : Only(KeyOf[r], slice[r])
    /\ \A s \in Slots : rows[s] \in Row => Only(rows[s].owner, rows[s].msgs)

\* On a serial channel what is persisted only moves forward: each save
\* continues the saved window, across failed saves, crashes and reloads, until
\* the user clears a session.
PersistedAdvances ==
    [][\A k \in SerialKeys :
          LET old == rows[SlotOf[k]]
              new == rows'[SlotOf[k]]
          IN old \in Row /\ new \in Row /\ clears' = 0 => Continues(old.msgs, new.msgs)]_vars

\* On a serial channel, a request that is answered and whose save did not
\* fail leaves its exchange at the end of the persisted window.
AnsweredIsSaved ==
    [][\A r \in Requests :
          KeyOf[r] \in SerialKeys /\ pc[r] = "log" /\ pc'[r] = "done" =>
             LET row == rows[SlotOf[KeyOf[r]]]
             IN row \in Row /\ row.msgs # << >>
                /\ row.msgs[Len(row.msgs)] = [req |-> r, role |-> "assistant"]]_vars

\* Every message that arrives is answered, refused, or lost to a crash.
EveryRequestAnswered ==
    \A r \in Requests : <>(pc[r] = "crashed" \/ reply[r] # "none")

\* manager.go:22 "GetSession retrieves or creates a session for a user on a
\* channel": two requests of one user in flight work on one session.
OneSession ==
    \A r, q \in InFlight :
        KeyOf[r] = KeyOf[q] /\ ref[r] # NoSession /\ ref[q] # NoSession => ref[r] = ref[q]

\* What service.go's buildMessages sends to the model after the system prompt:
\* the history the router read, then the query.
Prompt(r) == Append(slice[r], [req |-> r, role |-> "user"])

\* service.go:98 "Add conversation history", :106 "Add current query": on a
\* serial channel a query is asked once.
QueryAskedOnce ==
    \A r \in Requests : pc[r] = "answer" /\ KeyOf[r] \in SerialKeys =>
        Cardinality({i \in DOMAIN Prompt(r) : Prompt(r)[i] = [req |-> r, role |-> "user"]}) = 1

-----------------------------------------------------------------------------
(* The pipeline as a store of windows: the session in the store's map, or the *)
(* row it would be loaded from, stands for a user's window, and the place of  *)
(* a request's goroutine for its turn.                                        *)

SavedMsgs(k) == IF rows[SlotOf[k]] \in Row THEN rows[SlotOf[k]].msgs ELSE << >>
WindowMsgs(k) == IF sessions[k] = NoSession THEN SavedMsgs(k) ELSE heap[sessions[k]]
Turn(r) ==
    IF pc[r] \in {"done", "crashed"} THEN "over"
    ELSE IF pc[r] \in {"history", "answer", "addReply", "putReply"} THEN "asked"
    ELSE IF pc[r] \in {"marshal", "write", "rewrite", "log", "unsaved"} THEN "answered"
    ELSE "new"

SerialRequests == {r \in Requests : KeyOf[r] \in SerialKeys}

W == INSTANCE Windows
       WITH Requests <- SerialRequests, Keys <- SerialKeys,
            window <- [k \in SerialKeys |-> WindowMsgs(k)],
            saved <- [k \in SerialKeys |-> SavedMsgs(k)],
            turn <- [r \in SerialRequests |-> Turn(r)]

\* On channels that send one message at a time, over a database whose queries
\* do not fail (router.go:68-113, store.go:67-124), the unlocked steps of a
\* request, failing saves, crashes and reloads look like a store in
\* which messages enter a window whole, once and in turn, and a save keeps all
\* of it.
KeepsWindows == W!Spec
=============================================================================
