------------------------------- MODULE Guard -------------------------------
(***************************************************************************)
(* What may decide whether a tool runs: the rules and the mode of          *)
(* internal/permissions, the modes of internal/modes, and the PreToolUse   *)
(* hooks of internal/hooks, asked by several calls at a time while hooks   *)
(* are added, removed and switched.  The live tool loop builds these       *)
(* managers and consults none.                                             *)
(***************************************************************************)
EXTENDS Naturals, Sequences, SequencesExt

CONSTANTS Tools,
          Patterns,      \* the patterns of rules
          UserFiles, ProjectFiles,  \* what the two settings.json may hold
          PlanBlocked,   \* the patterns the plan mode blocks
          Hooks,         \* names of hooks
          Asking,        \* calls that ask the hooks
          NoFile, NoMode,
          MaxHooks, MaxChanges  \* bounds

VARIABLES rules, mode, modeBlocked,  \* permissions.Manager
          current,                   \* modes.State.Current
          loaded,                    \* history: the files LoadFromFiles read
          hooks,                     \* hooks.Manager.hooks
          asks,                      \* the calls that ask the hooks
          changes

permissions == <<rules, mode, modeBlocked, current, loaded>>
vars == <<permissions, hooks, asks, changes>>

\* A pattern ends in a star, begins with one, or is a name; "*" is the pattern
\* of all.  Matchers of hooks know no leading star.
matchGlob(p, t) == p.form = "all" \/ (p.form \in {"prefix", "suffix", "name"} /\ t \in p.tools)
matchTool(p, t) == p.form = "all" \/ (p.form \in {"prefix", "name"} /\ t \in p.tools)

PermissionModes == {"default", "acceptEdits", "plan", "dontAsk", "bypassPermissions"}
Settings == [deny : Seq(Patterns), ask : Seq(Patterns), allow : Seq(Patterns),
             mode : PermissionModes \cup {NoMode}]
Star == CHOOSE p \in Patterns : p.form = "all"

GuardAssumption ==
    /\ Patterns \subseteq [form : {"all", "prefix", "suffix", "name"}, tools : SUBSET Tools]
    /\ \E p \in Patterns : p.form = "all"
    /\ \A f \in (UserFiles \cup ProjectFiles) \ {NoFile} : f \in Settings
    /\ PlanBlocked \subseteq Patterns
    /\ NoMode \notin PermissionModes
    /\ MaxHooks \in Nat /\ MaxChanges \in Nat

-----------------------------------------------------------------------------
Ruled(ps, d, source) == [i \in DOMAIN ps |-> [pattern |-> ps[i], decision |-> d, source |-> source]]
\* Mutant: a file's permissions come before its denials.
loadFileAllowFirst(f, source) ==
    IF f = NoFile THEN << >>
    ELSE Ruled(f.allow, "allow", source) \o Ruled(f.deny, "deny", source) \o Ruled(f.ask, "ask", source)

\* Rules of a file, denials first.
loadFile(f, source) ==
    IF f = NoFile THEN << >>
    ELSE Ruled(f.deny, "deny", source) \o Ruled(f.ask, "ask", source) \o Ruled(f.allow, "allow", source)

\* The user's file, then the project's; a file that sets no mode leaves it.
LoadFromFiles(user, project) ==
    LET Sets(f, old) == IF f = NoFile \/ f.mode = NoMode THEN old ELSE f.mode
    IN /\ rules' = loadFile(user, "user") \o loadFile(project, "project")
       /\ mode' = Sets(project, Sets(user, mode))
       /\ loaded' = [user |-> user, project |-> project]
       /\ UNCHANGED <<modeBlocked, current, hooks, asks>>

\* What the operational mode blocks.
BlockedTools(m) ==
    CASE m = "ask" -> {Star}
      [] m = "plan" -> PlanBlocked
      [] OTHER -> {}

\* main.go loads the files and hands over what the mode blocks once.
Init ==
    /\ \E user \in UserFiles, project \in ProjectFiles :
         /\ rules = loadFile(user, "user") \o loadFile(project, "project")
         /\ mode = IF project # NoFile /\ project.mode # NoMode THEN project.mode
                   ELSE IF user # NoFile /\ user.mode # NoMode THEN user.mode ELSE "default"
         /\ loaded = [user |-> user, project |-> project]
    /\ current = "edit" /\ modeBlocked = BlockedTools("edit")
    /\ hooks = << >>
    /\ asks = [a \in Asking |-> [at |-> "idle"]]
    /\ changes = 0

Change == changes < MaxChanges /\ changes' = changes + 1

AddRule(r) ==
    /\ rules' = Append(rules, r)
    /\ UNCHANGED <<mode, modeBlocked, current, loaded, hooks, asks>>

\* modes.State changes alone; the blocks follow when they are handed over.
SetMode(m) ==
    /\ m \in {"edit", "plan", "ask", "auto"}
    /\ current' = m
    /\ UNCHANGED <<rules, mode, modeBlocked, loaded, hooks, asks>>
SetModeBlocked ==
    /\ modeBlocked' = BlockedTools(current)
    /\ UNCHANGED <<rules, mode, current, loaded, hooks, asks>>
SetPermissionMode(m) ==
    /\ mode' = m
    /\ UNCHANGED <<rules, modeBlocked, current, loaded, hooks, asks>>

-----------------------------------------------------------------------------
\* The first rule that matches decides; without one the tool runs, in every mode.
FirstMatch(t) == SelectInSeq(rules, LAMBDA r : matchGlob(r.pattern, t))
Blocked(t) == \E p \in modeBlocked : matchGlob(p, t)

checkLocked(t) ==
    IF mode = "bypassPermissions" THEN "allow"
    ELSE IF Blocked(t) THEN "deny"
    ELSE IF FirstMatch(t) # 0 THEN rules[FirstMatch(t)].decision ELSE "allow"

CheckWithReason(t) ==
    CASE mode = "bypassPermissions" -> <<"allow", "bypass">>
      [] mode # "bypassPermissions" /\ Blocked(t) -> <<"deny", "mode">>
      [] mode # "bypassPermissions" /\ ~Blocked(t) /\ FirstMatch(t) # 0 ->
           <<rules[FirstMatch(t)].decision, rules[FirstMatch(t)].source>>
      [] OTHER -> <<"allow", "default">>

checkDetailedLocked(t) ==
    CASE mode = "bypassPermissions" -> [behavior |-> "allow", reason |-> "bypass"]
      [] mode # "bypassPermissions" /\ Blocked(t) -> [behavior |-> "deny", reason |-> "mode"]
      [] mode # "bypassPermissions" /\ ~Blocked(t) /\ FirstMatch(t) # 0 ->
           [behavior |-> rules[FirstMatch(t)].decision, reason |-> rules[FirstMatch(t)].source]
      [] OTHER -> [behavior |-> "allow", reason |-> "default"]

-----------------------------------------------------------------------------
\* Hooks of other events never match here.  The write lock waits for every Fire.
Unlocked == {a \in Asking : asks[a].at = "run" /\ asks[a].locked} = {}

\* A hook is enabled when it is registered, whatever it says itself.
Register(h, p) ==
    /\ Unlocked /\ Len(hooks) < MaxHooks
    /\ hooks' = Append(hooks, [name |-> h, matcher |-> p, enabled |-> TRUE])
    /\ UNCHANGED <<permissions, asks>>

First(h) == SelectInSeq(hooks, LAMBDA k : k.name = h)

\* Mutant: a hook is removed while hooks run.
RemoveHookUnlocked(h) ==
    /\ First(h) # 0
    /\ hooks' = RemoveAt(hooks, First(h))
    /\ UNCHANGED <<permissions, asks>>

RemoveHook(h) ==
    /\ Unlocked /\ First(h) # 0
    /\ hooks' = RemoveAt(hooks, First(h))
    /\ UNCHANGED <<permissions, asks>>

SetEnabled(h, on) ==
    /\ Unlocked /\ First(h) # 0
    /\ hooks' = [hooks EXCEPT ![First(h)] = [@ EXCEPT !.enabled = on]]
    /\ UNCHANGED <<permissions, asks>>

\* Fire goes through the manager's list under its read lock, FireWithProgress
\* through a copy, without it.
Seen(a) == IF asks[a].locked THEN hooks ELSE asks[a].list
Applies(h, t) == h.enabled /\ matchTool(h.matcher, t)

\* A call that has come to the hook i of the list, and what it has heard.
Round(t, locked, i, list, heard) ==
    [at |-> "run", tool |-> t, locked |-> locked, i |-> i, list |-> list, heard |-> heard]

Ask(a, t, locked) ==
    /\ asks[a].at = "idle"
    /\ asks' = [asks EXCEPT ![a] = Round(t, locked, 1, IF locked THEN << >> ELSE hooks, << >>)]
Fire(a, t) == Ask(a, t, TRUE) /\ UNCHANGED <<permissions, hooks>>
FireWithProgress(a, t) == Ask(a, t, FALSE) /\ UNCHANGED <<permissions, hooks>>

\* executeHook: its command or URL answers, or it fails, runs out of time or is
\* of no known type; what is no JSON allows.
Answers == {"allow", "deny", "ask", "failed"}

\* One hook: one that does not apply is passed over, a failure too; the first
\* that denies or asks ends the round.
NextHook(a) ==
    /\ asks[a].at = "run" /\ asks[a].i <= Len(Seen(a))
    /\ LET h == Seen(a)[asks[a].i]
           Passed(heard) == Round(asks[a].tool, asks[a].locked, asks[a].i + 1, asks[a].list, heard)
       IN IF ~Applies(h, asks[a].tool) THEN asks' = [asks EXCEPT ![a] = Passed(asks[a].heard)]
          ELSE \E answer \in Answers :
                 LET heard == Append(asks[a].heard, [name |-> h.name, says |-> answer])
                 IN asks' = [asks EXCEPT ![a] =
                      IF answer \in {"deny", "ask"}
                      THEN [at |-> "done", verdict |-> answer, heard |-> heard] ELSE Passed(heard)]
    /\ UNCHANGED <<permissions, hooks>>

NoObjection(a) ==
    /\ asks[a].at = "run" /\ asks[a].i > Len(Seen(a))
    /\ asks' = [asks EXCEPT ![a] = [at |-> "done", verdict |-> "allow", heard |-> asks[a].heard]]
    /\ UNCHANGED <<permissions, hooks>>

\* CheckToolPermission turns the verdict into a decision.
CheckToolPermission(a) ==
    /\ asks[a].at = "done"
    /\ asks' = [asks EXCEPT ![a] = [at |-> "idle"]]
    /\ UNCHANGED <<permissions, hooks>>

Next ==
    \/ /\ Change
       /\ \/ \E user \in UserFiles, project \in ProjectFiles : LoadFromFiles(user, project)
          \/ \E p \in Patterns, d \in {"deny", "allow"} :
               AddRule([pattern |-> p, decision |-> d, source |-> "code"])
          \/ \E m \in {"edit", "plan", "ask"} : SetMode(m)
          \/ SetModeBlocked
          \/ \E m \in {"default", "bypassPermissions"} : SetPermissionMode(m)
          \/ \E h \in Hooks :
               \/ \E p \in Patterns : Register(h, p)
               \/ RemoveHook(h)
               \/ \E on \in BOOLEAN : SetEnabled(h, on)
    \/ /\ \E a \in Asking :
            \/ \E t \in Tools : Fire(a, t) \/ FireWithProgress(a, t)
            \/ NextHook(a) \/ NoObjection(a) \/ CheckToolPermission(a)
       /\ UNCHANGED changes

Spec == Init /\ [][Next]_vars

-----------------------------------------------------------------------------
TypeOK ==
    /\ \A i \in DOMAIN rules : rules[i].pattern \in Patterns /\ rules[i].decision \in {"deny", "ask", "allow"}
    /\ mode \in PermissionModes /\ current \in {"edit", "plan", "ask", "auto"}
    /\ modeBlocked \subseteq Patterns
    /\ Len(hooks) <= MaxHooks
    /\ \A a \in Asking : asks[a].at \in {"idle", "run", "done"}

\* The file has a question or a permission for the tool.
Contradicts(f, t) ==
    f # NoFile /\ \E ps \in {f.ask, f.allow} : \E i \in DOMAIN ps : matchGlob(ps[i], t)

\* The three checks give one answer, and a tool that one of the two files denies
\* stays denied, whatever else that file says of it, whatever rules are added
\* later and whatever the modes are, unless one bypasses all or the other file
\* contradicts.
DenialsHold ==
    /\ \A t \in Tools :
         checkLocked(t) = CheckWithReason(t)[1] /\ checkLocked(t) = checkDetailedLocked(t).behavior
    /\ mode # "bypassPermissions" =>
         \A f, g \in {"user", "project"} : f # g /\ loaded[f] # NoFile =>
            \A i \in DOMAIN loaded[f].deny, t \in Tools :
               matchGlob(loaded[f].deny[i], t) /\ ~Contradicts(loaded[g], t) => checkLocked(t) = "deny"

\* A call Fire lets through was put to every hook in force at that moment, in
\* their order, and no answer objected; one it stops, up to the hook that did.
HookHeard(a) ==
    LET due == {i \in DOMAIN hooks : Applies(hooks[i], asks[a].tool)}
        heard == asks'[a].heard
        allowed == asks'[a].verdict = "allow"
    IN /\ \E put \in [DOMAIN heard -> due] :
            /\ \A k \in DOMAIN heard : heard[k].name = hooks[put[k]].name
            /\ \A k, l \in DOMAIN heard : k < l => put[k] < put[l]
            /\ \A i \in due : (\E k \in DOMAIN heard : put[k] = i)
                              \/ (~allowed /\ \A k \in DOMAIN heard : put[k] < i)
       /\ {k \in DOMAIN heard : heard[k].says \in {"deny", "ask"}} = IF allowed THEN {} ELSE {Len(heard)}
EveryHookHeard ==
    [][\A a \in Asking :
          asks[a].at = "run" /\ asks'[a].at = "done" /\ asks[a].locked => HookHeard(a)]_vars
=============================================================================
