------------------------------ MODULE Session ------------------------------
(***************************************************************************)
(* internal/conversation/session.go: the bounded message window of a       *)
(* session, and how one window relates to an earlier one.  A message is a  *)
(* record naming the request it belongs to and its role; its text and its  *)
(* timestamp are left out.                                                 *)
(***************************************************************************)
EXTENDS Naturals, Sequences

CONSTANTS Requests,     \* the requests a behaviour may contain
          MaxMessages   \* capacity of the window (20 in the code)

ASSUME MaxMessagesAssumption == MaxMessages \in Nat \ {0}

Roles == {"user", "assistant"}
Message == [req : Requests, role : Roles]

\* Mutant: evict one message too late.
AddMessageLate(msgs, m) ==
    IF Len(msgs) > MaxMessages THEN Append(Tail(msgs), m) ELSE Append(msgs, m)

\* Session.AddMessage: at capacity the oldest entry makes room.
AddMessage(msgs, m) ==
    IF Len(msgs) >= MaxMessages THEN Append(Tail(msgs), m) ELSE Append(msgs, m)

-----------------------------------------------------------------------------
\* new continues old: it is old with messages appended and, only when it is
\* full, the oldest ones evicted.
Continues(old, new) ==
    \E n \in 0..Len(old) :
        /\ Len(old) - n <= Len(new)
        /\ \A i \in 1..(Len(old) - n) : new[i] = old[n + i]
        /\ n > 0 => Len(new) = MaxMessages
=============================================================================
