------------------------------ MODULE WhatsApp ------------------------------
(***************************************************************************)
(* internal/adapter/whatsapp/whatsapp.go: the polling loop takes the       *)
(* oldest notification of GREEN-API's queue, which stays there until it is *)
(* deleted, handles it, sends the reply and deletes it.  Calls to the API  *)
(* may fail, the process may crash between any two steps.  The queue       *)
(* itself is external: first in, first out, a notification that is not     *)
(* deleted is handed out again.                                            *)
(***************************************************************************)
EXTENDS Naturals, Sequences, FiniteSets

CONSTANTS Messages,   \* the notifications that may arrive
          Texts,      \* those that are incoming text messages
          MaxFaults   \* bound on crashes and failed deletions

WhatsAppAssumption == Texts \subseteq Messages /\ MaxFaults \in Nat

VARIABLES queue,    \* undeleted notifications, oldest first
          arrived,  \* notifications that have arrived
          at,       \* "poll", "handle", "send" or "delete"
          held,     \* the notification being worked on
          done,     \* messages the handler has finished with, in order
          replies,  \* messages whose reply was sent, in order
          faults    \* crashes and failed deletions so far

vars == <<queue, arrived, at, held, done, replies, faults>>

\* How often, and as which first, a message occurs in a sequence.
Times(m, s) == Cardinality({i \in DOMAIN s : s[i] = m})
First(m, s) == CHOOSE i \in DOMAIN s : s[i] = m /\ \A j \in 1..(i - 1) : s[j] # m
Among(s) == {s[i] : i \in DOMAIN s}

Init ==
    /\ queue = << >> /\ arrived = << >>
    /\ at = "poll" /\ held \in Messages
    /\ done = << >> /\ replies = << >> /\ faults = 0

\* GREEN-API queues a notification (external).
Arrive(m) ==
    /\ m \notin Among(arrived)
    /\ queue' = Append(queue, m)
    /\ arrived' = Append(arrived, m)
    /\ UNCHANGED <<at, held, done, replies, faults>>

\* ReceiveNotification; an error or an empty queue waits and polls again.
Receive ==
    /\ at = "poll"
    /\ queue # << >>
    /\ held' = Head(queue)
    /\ at' = "handle"
    /\ UNCHANGED <<queue, arrived, done, replies, faults>>

\* Mutant: every notification goes to the handler.
HandleAll ==
    /\ at = "handle"
    /\ done' = Append(done, held)
    /\ at' = "send"
    /\ UNCHANGED <<queue, arrived, held, replies, faults>>

\* processNotification: anything but a text message is left alone; the handler
\* fails or answers.
Handle ==
    /\ at = "handle"
    /\ \/ held \in Texts /\ done' = Append(done, held) /\ at' = "send"
       \/ held \in Texts /\ done' = Append(done, held) /\ at' = "delete"
       \/ held \notin Texts /\ UNCHANGED done /\ at' = "delete"
    /\ UNCHANGED <<queue, arrived, held, replies, faults>>

\* Mutant: a reply that was not sent makes the loop start over.
SendRetry ==
    /\ at = "send"
    /\ \/ replies' = Append(replies, held) /\ at' = "delete"
       \/ UNCHANGED replies /\ at' = "poll"
    /\ UNCHANGED <<queue, arrived, held, done, faults>>

\* Send; a failure is only logged.
Send ==
    /\ at = "send"
    /\ at' = "delete"
    /\ \/ replies' = Append(replies, held)
       \/ UNCHANGED replies
    /\ UNCHANGED <<queue, arrived, held, done, faults>>

\* DeleteNotification of the receipt just handled, the queue's head.
Delete ==
    /\ at = "delete"
    /\ queue' = Tail(queue)
    /\ at' = "poll"
    /\ UNCHANGED <<arrived, held, done, replies, faults>>

\* The deletion fails and is only logged: the loop polls on.
DeleteFails ==
    /\ at = "delete" /\ faults < MaxFaults
    /\ faults' = faults + 1
    /\ at' = "poll"
    /\ UNCHANGED <<queue, arrived, held, done, replies>>

\* The process dies and starts again.
Crash ==
    /\ faults < MaxFaults
    /\ faults' = faults + 1
    /\ at' = "poll"
    /\ UNCHANGED <<queue, arrived, held, done, replies>>

Poll == Receive \/ Handle \/ Send \/ Delete

Next == (\E m \in Messages : Arrive(m)) \/ Poll \/ DeleteFails \/ Crash

Spec == Init /\ [][Next]_vars
\* The loop runs on and the API answers; only a bounded number of calls fail.
FairSpec == Spec /\ WF_vars(Poll)

-----------------------------------------------------------------------------
TypeOK ==
    /\ queue \in Seq(Messages) /\ arrived \in Seq(Messages)
    /\ at \in {"poll", "handle", "send", "delete"} /\ held \in Messages
    /\ done \in Seq(Texts) /\ replies \in Seq(Texts)
    /\ faults \in 0..MaxFaults

\* A message is handled and answered once, and once more at most for every
\* crash and every failed deletion.
DuplicatesBounded ==
    \A m \in Texts : Times(m, replies) <= Times(m, done) /\ Times(m, done) <= 1 + faults

\* Messages reach the session in the order they arrived, redelivered ones
\* included: no message is handled for the first time, or again, after a
\* later one.
InOrder ==
    \A i, j \in DOMAIN done : i < j => First(done[i], arrived) <= First(done[j], arrived)

\* Every message that arrives is handled in the end.
EventuallyHandled == \A m \in Texts : m \in Among(arrived) ~> m \in Among(done)
=============================================================================
