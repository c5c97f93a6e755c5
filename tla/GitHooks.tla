------------------------------ MODULE GitHooks ------------------------------
(***************************************************************************)
(* "polypod hook install | uninstall | status" (internal/githook): the two *)
(* git hooks of the program in a repository that may have hooks of its own.*)
(* A command may die between two steps.                                    *)
(***************************************************************************)
EXTENDS Naturals, Sequences, SequencesExt

CONSTANTS Order,          \* prepare-commit-msg, pre-push
          Own, Mentions,  \* hooks people write; those that say "Polypod"
          None, MaxWrites, MaxCommands

GitHooksAssumption ==
    /\ Order \in Seq(ToSet(Order)) /\ Mentions \subseteq Own /\ {None, "ours", "cut"} \cap Own = {} /\ None \notin {"ours", "cut"}
    /\ MaxWrites \in Nat /\ MaxCommands \in Nat

HookNames == ToSet(Order)

VARIABLES hook, bak,  \* the file of each hook, and the one with .bak
          command,    \* what runs last: "install" or "uninstall"
          todo,       \* the hooks it has still to write or remove, in order
          moved,      \* it has looked at the first of them
          mine,       \* history: the last hook somebody wrote
          lost,       \* history: it could not be moved, came after the look, or is in
                      \* the .bak of a hook that was cut
          writes, commands

vars == <<hook, bak, command, todo, moved, mine, lost, writes, commands>>

Init ==
    /\ hook = [h \in HookNames |-> None] /\ bak = [h \in HookNames |-> None]
    /\ mine = [h \in HookNames |-> None]
    /\ command = "install" /\ todo = << >> /\ moved = FALSE /\ lost = {} /\ writes = 0 /\ commands = 0

\* Somebody writes a hook.
Write(h, v) ==
    /\ writes < MaxWrites /\ writes' = writes + 1
    /\ hook' = [hook EXCEPT ![h] = v]
    /\ mine' = [mine EXCEPT ![h] = IF v \in Mentions THEN None ELSE v]
    /\ lost' = IF moved /\ h = Head(todo) THEN lost \cup {h} ELSE lost \ {h}
    /\ UNCHANGED <<bak, command, todo, moved, commands>>

Ours(h) == hook[h] = "ours" \/ hook[h] \in Mentions
Idle == todo = << >>

Begin(c) ==
    /\ Idle /\ commands < MaxCommands /\ commands' = commands + 1
    /\ command' = c /\ todo' = Order
    /\ UNCHANGED <<hook, bak, moved, mine, lost, writes>>

Install == Begin("install")
Uninstall == Begin("uninstall")

\* writeHook: a hook that does not say "Polypod" is moved to .bak, over what
\* is there; whether that worked is not looked at.
Backup ==
    /\ ~Idle /\ command = "install" /\ ~moved /\ moved' = TRUE
    /\ LET h == Head(todo) IN
       IF hook[h] # None /\ ~Ours(h)
       THEN \/ bak' = [bak EXCEPT ![h] = hook[h]] /\ hook' = [hook EXCEPT ![h] = None] /\ UNCHANGED lost
            \/ lost' = lost \cup {h} /\ UNCHANGED <<hook, bak>>
       ELSE UNCHANGED <<hook, bak, lost>>
    /\ UNCHANGED <<command, todo, mine, writes, commands>>

\* A hook that cannot be written, or not as a whole, ends the command; what is
\* cut counts for somebody's and is moved over the .bak by the next install.
writeHook ==
    /\ moved /\ command = "install" /\ moved' = FALSE
    /\ LET h == Head(todo)
       IN \/ hook' = [hook EXCEPT ![h] = "ours"] /\ todo' = Tail(todo) /\ UNCHANGED lost
          \/ todo' = << >> /\ UNCHANGED <<hook, lost>>
          \/ todo' = << >> /\ hook' = [hook EXCEPT ![h] = "cut"] /\ lost' = lost \cup {h}
    /\ UNCHANGED <<bak, command, mine, writes, commands>>

\* Uninstall looks at one hook after the other: what says "Polypod", whoever
\* wrote it, is to go;
Look ==
    /\ ~Idle /\ command = "uninstall" /\ ~moved
    /\ IF Ours(Head(todo)) THEN moved' = TRUE /\ UNCHANGED todo
       ELSE todo' = Tail(todo) /\ UNCHANGED moved
    /\ UNCHANGED <<hook, bak, command, mine, lost, writes, commands>>

\* the file is removed, whatever is in it by now, and no .bak comes back;
\* whether that worked is not looked at.
TakeAway ==
    /\ moved /\ command = "uninstall" /\ moved' = FALSE /\ todo' = Tail(todo)
    /\ hook' \in {hook, [hook EXCEPT ![Head(todo)] = None]}
    /\ UNCHANGED <<bak, command, mine, lost, writes, commands>>

\* Status lists what Ours says.
Status == {h \in HookNames : Ours(h)}

Die ==
    /\ ~Idle /\ todo' = << >> /\ moved' = FALSE
    /\ UNCHANGED <<hook, bak, command, mine, lost, writes, commands>>

Next ==
    \/ Install \/ Backup \/ writeHook \/ Uninstall \/ Look \/ TakeAway \/ Die
    \/ \E h \in HookNames, v \in Own : Write(h, v)

Spec == Init /\ [][Next]_vars
-----------------------------------------------------------------------------
TypeOK ==
    /\ hook \in [HookNames -> Own \cup {None, "ours", "cut"}]
    /\ bak \in [HookNames -> Own \cup {None, "cut"}]
    /\ command \in {"install", "uninstall"} /\ IsSuffix(todo, Order) /\ moved \in BOOLEAN /\ (moved => ~Idle)

\* The hook that somebody wrote last is in place or in .bak, however often the
\* program's are installed and removed and wherever that breaks off, unless it
\* could not be moved, came between the look at the old one and the write or
\* the removal, or the program's own was cut; and status never lists it.
OwnHookIsKept ==
    \A h \in HookNames :
       /\ mine[h] # None /\ h \notin lost => mine[h] \in {hook[h], bak[h]}
       /\ mine[h] # None /\ hook[h] = mine[h] => h \notin Status
=============================================================================
