---------------------------- MODULE MCWorkspace ----------------------------
(* What is kept in files.  In the workspace: two histories over the same two *)
(* files, checkpoints and undo, whose copies share a name (a/b and a_b);     *)
(* staged changes; the git repository and its hooks.  In the data directory: *)
(* the web cache, memories, usage, and the index and contexts of             *)
(* conversations.  A behaviour uses one of them, with everything that may    *)
(* change meanwhile; the others stay as they were made.                      *)
EXTENDS Checkpoint

CONSTANTS p1, p2, blank, filled,
          HistoryMax, MaxChanges,  \* those of UndoRedo
          None, Torn, Missing,
          Targets, Drafts, MaxStaged, MaxOutside,             \* those of Staging
          GitCallers, GitFiles, Words, Texts, Branches, Main, Tags, Theirs,  \* those of Repository
          MaxCommits, MaxStash, MaxCalls,
          HookOrder, OwnHooks, MentionHooks, NoHook, MaxWrites, MaxCommands,  \* GitHooks
          Searches, Results, MaxSize, Lifetime, Given, MaxClock, MaxReloads, MaxUnsaved,  \* WebCache
          Topics, Notes, Facts, Similar, MaxFacts, PerSession, MaxInject,  \* Memories
          MaxUpdates, MaxCrashes,
          Requests, Users, Limit, Tokens, Costs, Listens, DaysPerMonth, MaxDays, MaxRecords, MaxEnds,  \* Usage
          Writers, Sessions, PreserveRecent, MaxTokens, MaxMessages, MaxSaves,  \* Conversations
          r1, u1, w1, s1  \* a request, its user, a writer and its session

VARIABLES part,  \* the one that is used
          \* UndoRedo
          history, redoBuf, open, changes, base, faithful,
          \* Staging
          target, stagedChanges, applying, last, touched, staged, outside,
          \* Repository
          files, stageArea, commits, known, heads, tags, branch, detached, remote, stash, pc, job,
          disturbed, calls,
          \* GitHooks
          hook, bak, command, todo, moved, mine, lost, writes, commands,
          \* WebCache
          time, entries, entryFiles, latest, unsaved, stops,
          \* Memories
          kind, memories, table, facts, factFile, acked, damaged, updates, crashes,
          \* Usage
          day, used, user, dayKey, monthKey, alerts, records, file, snapshot, requestAt, of,
          since, recorded, ends,
          \* Conversations
          sessionIndex, writerAt, saves, read, kept, context, said, told, parent, current, line, date

TwoPaths == {p1, p2}
OneName == [p \in TwoPaths |-> "a_b"]
Holds == {blank, filled}

U == INSTANCE UndoRedo

D == INSTANCE Staging
       WITH Paths <- Targets, Contents <- Drafts, MaxChanges <- MaxStaged,
            disk <- target, changes <- stagedChanges

SomeTexts == {<<"a", "b">>}
SomeoneElse == {[f \in GitFiles |-> IF f = "g" THEN <<"b">> ELSE None]}
R == INSTANCE Repository WITH Callers <- GitCallers, Paths <- GitFiles, index <- stageArea

TwoHooks == <<"prepare-commit-msg", "pre-push">>
H == INSTANCE GitHooks WITH Order <- HookOrder, Own <- OwnHooks, Mentions <- MentionHooks, None <- NoHook

W == INSTANCE WebCache
       WITH MaxTime <- MaxClock, MaxStops <- MaxReloads, clock <- time, disk <- entryFiles

SimilarFacts == {<<"f", "f">>, <<"g", "g">>, <<"h", "h">>, <<"f", "g">>}
M == INSTANCE Memories
       WITH Contents <- Notes, MaxChanges <- MaxUpdates, MaxStops <- MaxCrashes,
            disk <- table, changes <- updates, stops <- crashes

Limits == [s \in {"session", "day", "month", "user", "dayCost", "monthCost"} |->
              CASE s = "day" -> 4 [] s = "month" -> 6 [] s = "user" -> 3
                [] s = "monthCost" -> 2 [] OTHER -> 0]
B == INSTANCE Usage WITH MaxStops <- MaxEnds, at <- requestAt, made <- recorded, stops <- ends

C == INSTANCE Conversations WITH index <- sessionIndex, at <- writerAt, clock <- date

ASSUME FilesAssumption == CheckpointAssumption /\ U!UndoAssumption
ASSUME ChangesAssumption == D!StagingAssumption /\ R!RepositoryAssumption /\ H!GitHooksAssumption
ASSUME StoresAssumption ==
    /\ W!CacheAssumption /\ M!MemoriesAssumption /\ B!UsageAssumption /\ C!ConversationsAssumption
    /\ r1 \in Requests /\ u1 \in Users /\ w1 \in Writers /\ s1 \in Sessions

uVars == <<history, redoBuf, open, changes, base, faithful>>
histories == <<vars, uVars>>
dVars == <<target, stagedChanges, applying, last, touched, staged, outside>>
rVars == <<files, stageArea, commits, known, heads, tags, branch, detached, remote, stash, pc, job,
           disturbed, calls>>
hVars == <<hook, bak, command, todo, moved, mine, lost, writes, commands>>
wVars == <<time, entries, entryFiles, latest, unsaved, stops>>
mVars == <<kind, memories, table, facts, factFile, acked, damaged, updates, crashes>>
bVars == <<day, used, user, dayKey, monthKey, alerts, records, file, snapshot, requestAt, of,
           since, recorded, ends>>
indexes == <<sessionIndex, writerAt, saves, read, kept, date>>
contexts == <<context, said, told>>
trees == <<parent, current, line>>
cVars == <<indexes, contexts, trees>>

-----------------------------------------------------------------------------
\* Edit leads from no files to any files.  What is not used has one state only.
WorkspaceInit ==
    /\ part \in {"checkpoint", "undo", "staging", "git", "hooks", "cache", "memory", "usage",
                 "index", "context", "tree"}
    /\ Init /\ U!Init /\ (part # "undo" => tree = [p \in TwoPaths |-> Absent])
    /\ R!Init /\ H!Init /\ W!Init
    /\ D!Init /\ (part # "staging" => target = [p \in Targets |-> None])
    /\ M!Init /\ (part # "memory" => kind = "file")
    /\ B!Init /\ of[r1] = u1 /\ (part # "usage" => \A r \in Requests : of[r] = u1)
    /\ C!Init /\ saves[w1] = s1 /\ (part # "index" => \A w \in Writers : saves[w] = s1)
    /\ part # "context" => context = << >>

WorkspaceNext ==
    \/ part = "checkpoint" /\ Next
       /\ UNCHANGED <<part, uVars, dVars, rVars, hVars, wVars, mVars, bVars, cVars>>
    \/ part = "undo" /\ U!Next
       /\ UNCHANGED <<part, clock, checkpoints, snapshots, disk, index, made, reused, copied, restarts,
                      dVars, rVars, hVars, wVars, mVars, bVars, cVars>>
    \/ part = "staging" /\ D!Next
       /\ UNCHANGED <<part, histories, rVars, hVars, wVars, mVars, bVars, cVars>>
    \/ part = "git" /\ R!Next
       /\ UNCHANGED <<part, histories, dVars, hVars, wVars, mVars, bVars, cVars>>
    \/ part = "hooks" /\ H!Next
       /\ UNCHANGED <<part, histories, dVars, rVars, wVars, mVars, bVars, cVars>>
    \/ part = "cache" /\ W!Next
       /\ UNCHANGED <<part, histories, dVars, rVars, hVars, mVars, bVars, cVars>>
    \/ part = "memory" /\ M!Next
       /\ UNCHANGED <<part, histories, dVars, rVars, hVars, wVars, bVars, cVars>>
    \/ part = "usage" /\ B!Next
       /\ UNCHANGED <<part, histories, dVars, rVars, hVars, wVars, mVars, cVars>>
    \/ /\ \/ part = "index" /\ C!IndexNext /\ UNCHANGED <<contexts, trees>>
          \/ part = "context" /\ C!ContextNext /\ UNCHANGED <<indexes, trees>>
          \/ part = "tree" /\ C!TreeNext /\ UNCHANGED <<indexes, contexts>>
       /\ UNCHANGED <<part, histories, dVars, rVars, hVars, wVars, mVars, bVars>>

WorkspaceSpec ==
    WorkspaceInit
    /\ [][WorkspaceNext]_<<part, histories, dVars, rVars, hVars, wVars, mVars, bVars, cVars>>

-----------------------------------------------------------------------------
TypesOK ==
    /\ TypeOK /\ U!TypeOK /\ D!TypeOK /\ R!TypeOK /\ H!TypeOK
    /\ W!TypeOK /\ M!TypeOK /\ B!TypeOK /\ C!TypeOK

UndoLeadsBack == part = "undo" => U!UndoLeadsBack

\* Neither staging nor git loses what somebody wrote.
NoWorkIsLost == D!NoChangeIsLost /\ R!GitKeepsContents /\ R!CommitHoldsWhatWasAsked

\* What the data directory gives back, and the hooks that were there before.
StoresHold ==
    /\ H!OwnHookIsKept
    /\ W!ServesTheLatest
    /\ M!RecallsWhatItSaved /\ M!FactsAreKept
    /\ B!CountsAreTrue /\ B!LimitsHold /\ B!FileIsPrefix
    /\ C!IndexKeeps /\ C!CompactionKeepsRecent /\ C!PathIsTheLine
=============================================================================
