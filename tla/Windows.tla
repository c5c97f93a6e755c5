------------------------------ MODULE Windows ------------------------------
(***************************************************************************)
(* What the message pipeline promises users whose channel sends one        *)
(* message at a time: a window for each of them that every question and    *)
(* answer enters whole and once, and a saved copy that is the window at    *)
(* some moment after an answer, or was cleared.  A restart goes back to    *)
(* the copy.  No step says how a window is found, read or written.         *)
(***************************************************************************)
EXTENDS Session

CONSTANTS Keys, KeyOf

VARIABLES window, \* what the next message of each user continues
          saved,  \* what outlives the process
          turn    \* of each request: "new", "asked", "answered" or "over"

vars == <<window, saved, turn>>

Empty == [k \in Keys |-> << >>]
Open(k) == {r \in Requests : KeyOf[r] = k /\ turn[r] \in {"asked", "answered"}}

Init == window = Empty /\ saved = Empty /\ turn = [r \in Requests |-> "new"]

Enter(r, role) ==
    window' = [window EXCEPT ![KeyOf[r]] = AddMessage(@, [req |-> r, role |-> role])]

Ask(r) ==
    /\ turn[r] = "new" /\ Open(KeyOf[r]) = {}
    /\ Enter(r, "user") /\ turn' = [turn EXCEPT ![r] = "asked"]
    /\ UNCHANGED saved

Reply(r) ==
    /\ turn[r] = "asked"
    /\ Enter(r, "assistant") /\ turn' = [turn EXCEPT ![r] = "answered"]
    /\ UNCHANGED saved

Save(r) ==
    /\ turn[r] = "answered"
    /\ saved' = [saved EXCEPT ![KeyOf[r]] = window[KeyOf[r]]]
    /\ UNCHANGED <<window, turn>>

\* A request is refused, fails or returns.
End(r) ==
    /\ turn[r] # "over" /\ turn' = [turn EXCEPT ![r] = "over"]
    /\ UNCHANGED <<window, saved>>

Clear(k) ==
    /\ Open(k) = {}
    /\ window' = [window EXCEPT ![k] = << >>]
    /\ saved' \in {saved, [saved EXCEPT ![k] = << >>]}
    /\ UNCHANGED turn

\* Requests on the way are lost.
Restart ==
    /\ window' = saved
    /\ \E lost \in SUBSET {r \in Requests : turn[r] = "new"} :
          turn' = [r \in Requests |-> IF turn[r] = "new" /\ r \notin lost THEN "new" ELSE "over"]
    /\ UNCHANGED saved

Next ==
    \/ \E r \in Requests : Ask(r) \/ Reply(r) \/ Save(r) \/ End(r)
    \/ \E k \in Keys : Clear(k)
    \/ Restart

Spec == Init /\ [][Next]_vars
=============================================================================
