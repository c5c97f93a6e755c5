----------------------------- MODULE Repository -----------------------------
(***************************************************************************)
(* The skills that change files and keep them in git (internal/git).       *)
(* Requests of several users, background tasks and loops call them at the  *)
(* same time, in one working directory and with no lock of the program's.  *)
(* What the git and patch commands do is theirs; it is modelled as far as  *)
(* the arguments the skills give them reach.  Left out are names that are  *)
(* options (-f), merges, picks and pops that conflict, a pull that is set  *)
(* to rebase, and what git_clone and git_init make in other directories.   *)
(***************************************************************************)
EXTENDS Naturals, Sequences, SequencesExt, FiniteSets

CONSTANTS Callers,
          Paths, Words,     \* a file is a sequence of words
          Texts,            \* contents create_file is given
          Branches, Main,   \* Main is there from the start
          Tags,
          Theirs,           \* the files in commits others push
          None,             \* no file, no branch
          MaxCommits, MaxStash, MaxCalls  \* bounds

RepositoryAssumption ==
    /\ Main \in Branches /\ None \notin Branches /\ Texts \subseteq Seq(Words) /\ None \notin Texts
    /\ Theirs \subseteq [Paths -> Seq(Words) \cup {None}]
    /\ MaxCommits \in Nat /\ MaxStash \in Nat /\ MaxCalls \in Nat

VARIABLES files, index,     \* the working tree and git's index
          commits,          \* [tree, parents], here and on the remote
          known,            \* those that are here
          heads, tags,      \* the commit of each branch and tag, 0 for none
          branch, detached, \* the current branch; the current commit if there is none
          remote,           \* the commit of each branch on the remote, 0 for none
          stash,            \* [base, tree], the newest last
          pc, job,          \* a caller within edit_file or git_commit
          disturbed,        \* history: commits with a failed add, or with
                            \* files that others changed meanwhile
          calls

refs == <<heads, tags, branch, detached, remote>>
git == <<index, commits, known, refs, stash>>
vars == <<files, git, pc, job, disturbed, calls>>

NoJob == [path |-> None, text |-> << >>, todo |-> << >>, asked |-> {}]
NoFiles == [p \in Paths |-> None]
HEAD == IF branch = None THEN detached ELSE heads[branch]
HeadTree == commits[HEAD].tree
Tracked == {p \in Paths : index[p] # None \/ HeadTree[p] # None}

\* The commits from c back to the first: what every set with c holds that
\* leads to no parent outside it.
Closed(s) == \A d \in s : commits[d].parents \subseteq s
Reach(c) == {d \in DOMAIN commits : \A s \in SUBSET DOMAIN commits : c \in s /\ Closed(s) => d \in s}

Init ==
    /\ files = NoFiles /\ index = NoFiles
    /\ commits = <<[tree |-> NoFiles, parents |-> {}]>> /\ known = {1}
    /\ heads = [b \in Branches |-> IF b = Main THEN 1 ELSE 0] /\ remote = heads
    /\ branch = Main /\ detached = 0 /\ tags = [t \in Tags |-> 0]
    /\ stash = << >>
    /\ pc = [c \in Callers |-> "idle"] /\ job = [c \in Callers |-> NoJob]
    /\ disturbed = {} /\ calls = 0

Call == calls < MaxCalls /\ calls' = calls + 1
Goto(c, l) == pc' = [pc EXCEPT ![c] = l]
Return(c) == Goto(c, "idle") /\ job' = [job EXCEPT ![c] = NoJob]
Committing == {c \in Callers : pc[c] \in {"add", "commit"}}
Disturb == disturbed' = disturbed \cup Committing

-----------------------------------------------------------------------------
\* edit_file reads the file; the text must be there, and once unless all of
\* it is to be replaced.
EditFile(c, p, old, new, all) ==
    /\ pc[c] = "idle" /\ files[p] # None /\ Call
    /\ LET places == {i \in DOMAIN files[p] : files[p][i] = old}
       IN /\ places # {} /\ (Cardinality(places) > 1 => all)
          /\ job' = [job EXCEPT ![c] = [NoJob EXCEPT !.path = p,
                        !.text = [i \in DOMAIN files[p] |-> IF i \in places THEN new ELSE files[p][i]]]]
    /\ Goto(c, "write")
    /\ UNCHANGED <<files, git, disturbed>>

\* It writes what it made of what it read, whatever is there by now; a write
\* that fails may have emptied the file.
WriteEdit(c) ==
    /\ pc[c] = "write" /\ Return(c) /\ Disturb
    /\ \/ files' = [files EXCEPT ![job[c].path] = job[c].text]
       \/ files' = [files EXCEPT ![job[c].path] = << >>]
       \/ UNCHANGED files
    /\ UNCHANGED <<git, calls>>

Put(p, x) ==
    /\ Call /\ Disturb /\ files' = [files EXCEPT ![p] = x]
    /\ UNCHANGED <<git, pc, job>>

\* create_file does not ask whether there is one; delete_file needs one.
CreateFile(p, x) == Put(p, x)
DeleteFile(p) == files[p] # None /\ Put(p, None)

\* patch_file: patch changes the file, or says that it did not, which is no error.
PatchFile(p, x) == files[p] # None /\ Put(p, x)

-----------------------------------------------------------------------------
\* git_commit: the files named, one after the other, or everything that differs.
GitCommit(c, ps) ==
    /\ pc[c] = "idle" /\ Call /\ Goto(c, "add")
    /\ job' = [job EXCEPT ![c] = [NoJob EXCEPT !.todo = ps,
                   !.asked = IF ps = << >> THEN Paths ELSE ToSet(ps)]]
    /\ disturbed' = disturbed \ {c}
    /\ UNCHANGED <<files, git>>

\* Mutant: the first of the files is enough.
AddOne(c) ==
    /\ pc[c] = "add" /\ Goto(c, "commit")
    /\ LET ps == IF job[c].todo = << >> THEN Paths ELSE {Head(job[c].todo)}
       IN index' = [p \in Paths |-> IF p \in ps THEN files[p] ELSE index[p]]
    /\ UNCHANGED <<files, commits, known, refs, stash, job, disturbed, calls>>

\* git add.  One that fails, because git knows no such file or is at work for
\* somebody else, says so; run then gives its words and no error, and the
\* skill goes on.
Add(c) ==
    /\ pc[c] = "add"
    /\ LET ps == IF job[c].todo = << >> THEN Paths ELSE {Head(job[c].todo)}
       IN \/ /\ job[c].todo # << >> => \E p \in ps : files[p] # None \/ index[p] # None
             /\ index' = [p \in Paths |-> IF p \in ps THEN files[p] ELSE index[p]]
             /\ UNCHANGED disturbed
          \/ disturbed' = disturbed \cup {c} /\ UNCHANGED index
    /\ IF Len(job[c].todo) <= 1 THEN Goto(c, "commit") /\ UNCHANGED job
       ELSE job' = [job EXCEPT ![c].todo = Tail(@)] /\ UNCHANGED pc
    /\ UNCHANGED <<files, commits, known, refs, stash, calls>>

\* The current branch, or the current commit, becomes c.
Advance(c) ==
    /\ IF branch = None THEN detached' = c /\ UNCHANGED heads
       ELSE heads' = [heads EXCEPT ![branch] = c] /\ UNCHANGED detached
    /\ UNCHANGED <<tags, branch, remote>>

Record(tree, parents, here) ==
    /\ Len(commits) < MaxCommits
    /\ commits' = Append(commits, [tree |-> tree, parents |-> parents])
    /\ known' = here \cup {Len(commits')} /\ Advance(Len(commits) + 1)

\* git commit: what is in the index, if it differs from the last commit.
Commit(c) ==
    /\ pc[c] = "commit" /\ Return(c)
    /\ \/ index # HeadTree /\ Record(index, {HEAD}, known)
       \/ UNCHANGED <<commits, known, refs>>
    /\ UNCHANGED <<files, index, stash, disturbed, calls>>

-----------------------------------------------------------------------------
\* git_branch create: checkout -b.
CreateBranch(b) ==
    /\ Call /\ heads[b] = 0
    /\ heads' = [heads EXCEPT ![b] = HEAD] /\ branch' = b /\ detached' = 0
    /\ UNCHANGED <<files, index, commits, known, tags, remote, stash, pc, job, disturbed>>

\* delete: branch -d, which refuses what is neither merged into the current
\* commit nor, for a branch that follows one there, on the remote.
DeleteBranch(b) ==
    /\ Call /\ b # branch /\ heads[b] # 0
    /\ heads[b] \in Reach(HEAD) \/ (remote[b] # 0 /\ heads[b] \in Reach(remote[b]))
    /\ heads' = [heads EXCEPT ![b] = 0]
    /\ UNCHANGED <<files, index, commits, known, tags, branch, detached, remote, stash, pc, job, disturbed>>

\* The files become those of another tree; git refuses to write over a change.
Update(tree) ==
    LET other == {p \in Paths : tree[p] \notin {HeadTree[p], index[p]}}
        To(old) == [p \in Paths |-> IF p \in other THEN tree[p] ELSE old[p]]
    IN /\ \A p \in other : files[p] = HeadTree[p] /\ index[p] = HeadTree[p]
       /\ files' = To(files) /\ index' = To(index)

\* switch: checkout of whatever name it is given: that of a branch, here or
\* as the remote has it,
SwitchBranch(b) ==
    /\ Call /\ b # branch
    /\ LET c == IF heads[b] # 0 THEN heads[b] ELSE remote[b]
       IN c \in known /\ Update(commits[c].tree) /\ heads' = [heads EXCEPT ![b] = c]
    /\ branch' = b /\ detached' = 0 /\ Disturb
    /\ UNCHANGED <<commits, known, tags, remote, stash, pc, job>>

\* that of a commit (its hash or a tag), which leaves no branch the current one,
SwitchCommit(c) ==
    /\ Call /\ Update(commits[c].tree)
    /\ branch' = None /\ detached' = c /\ Disturb
    /\ UNCHANGED <<commits, known, heads, tags, remote, stash, pc, job>>

\* or the path of a file or of them all, which become what the index has.
SwitchPath(ps) ==
    /\ Call /\ \E p \in ps : index[p] # None
    /\ files' = [p \in Paths |-> IF p \in ps /\ index[p] # None THEN index[p] ELSE files[p]]
    /\ Disturb /\ UNCHANGED <<git, pc, job>>

\* git_tag create and delete
CreateTag(t) ==
    /\ Call /\ tags[t] = 0 /\ tags' = [tags EXCEPT ![t] = HEAD]
    /\ UNCHANGED <<files, index, commits, known, heads, branch, detached, remote, stash, pc, job, disturbed>>
DeleteTag(t) ==
    /\ Call /\ tags[t] # 0 /\ tags' = [tags EXCEPT ![t] = 0]
    /\ UNCHANGED <<files, index, commits, known, heads, branch, detached, remote, stash, pc, job, disturbed>>

-----------------------------------------------------------------------------
\* What differs from base on one side only is taken from that side.
Agree(base, ours, theirs) == \A p \in Paths : ours[p] = base[p] \/ theirs[p] \in {base[p], ours[p]}
Join(base, ours, theirs) == [p \in Paths |-> IF ours[p] = base[p] THEN theirs[p] ELSE ours[p]]
Apply(base, theirs, parents, here) ==
    /\ index = HeadTree /\ Agree(base, HeadTree, theirs)
    /\ Update(Join(base, HeadTree, theirs)) /\ Record(Join(base, HeadTree, theirs), parents, here)

\* The last commits that two have in common
Bases(c, d) ==
    LET both == Reach(c) \cap Reach(d)
    IN {a \in both : \A b \in both : a \in Reach(b) => a = b}

\* A commit that follows the current one takes its place; if none is to, or
\* both went on, there is one more, of both.
Unite(c, ff, here) ==
    \/ /\ ff /\ HEAD \in Reach(c) /\ c # HEAD
       /\ Update(commits[c].tree) /\ Advance(c) /\ known' = here /\ UNCHANGED commits
    \/ /\ c \notin Reach(HEAD) /\ (HEAD \in Reach(c) => ~ff)
       /\ \E a \in Bases(HEAD, c) : Apply(commits[a].tree, commits[c].tree, {HEAD, c}, here)

\* git_merge: of a branch, a tag or a commit
Merge(c, ff) ==
    /\ Call /\ Unite(c, ff, known) /\ Disturb
    /\ UNCHANGED <<stash, pc, job>>

\* git_cherry_pick: what a commit with one parent, or none, changed
CherryPick(c) ==
    /\ Call /\ Cardinality(commits[c].parents) <= 1
    /\ LET base == IF commits[c].parents = {} THEN NoFiles
                   ELSE commits[CHOOSE d \in commits[c].parents : TRUE].tree
       IN Join(base, HeadTree, commits[c].tree) # HeadTree /\ Apply(base, commits[c].tree, {HEAD}, known)
    /\ Disturb /\ UNCHANGED <<stash, pc, job>>

\* git_pull: what the remote has is here then, and is merged if it can be.
Pull(b) ==
    /\ Call /\ remote[b] # 0
    /\ LET here == known \cup Reach(remote[b])
       IN \/ Unite(remote[b], TRUE, here) /\ Disturb
          \/ known' = here /\ UNCHANGED <<files, index, commits, refs, disturbed>>
    /\ UNCHANGED <<stash, pc, job>>

\* git_push: the remote takes what follows its own, or with --force anything.
Push(b, force) ==
    /\ Call /\ heads[b] # 0 /\ remote[b] # heads[b]
    /\ force \/ remote[b] = 0 \/ remote[b] \in Reach(heads[b])
    /\ remote' = [remote EXCEPT ![b] = heads[b]]
    /\ UNCHANGED <<files, index, commits, known, heads, tags, branch, detached, stash, pc, job, disturbed>>

\* Others push to the remote.
Others(b, tree) ==
    /\ remote[b] # 0 /\ Len(commits) < MaxCommits
    /\ commits' = Append(commits, [tree |-> tree, parents |-> {remote[b]}])
    /\ remote' = [remote EXCEPT ![b] = Len(commits')]
    /\ UNCHANGED <<files, index, known, heads, tags, branch, detached, stash, pc, job, disturbed, calls>>

-----------------------------------------------------------------------------

\* git_stash: push takes the files git knows back to the last commit,
StashPush ==
    /\ Call /\ Len(stash) < MaxStash
    /\ \E p \in Tracked : files[p] # HeadTree[p] \/ index[p] # HeadTree[p]
    /\ stash' = Append(stash, [base |-> HeadTree,
                               tree |-> [p \in Paths |-> IF p \in Tracked THEN files[p] ELSE None]])
    /\ files' = [p \in Paths |-> IF p \in Tracked THEN HeadTree[p] ELSE files[p]]
    /\ index' = HeadTree /\ Disturb
    /\ UNCHANGED <<commits, known, refs, pc, job>>

\* pop brings the newest back (one that conflicts is left out here),
StashPop ==
    /\ Call /\ stash # << >>
    /\ LET s == Last(stash)
           changed == {p \in Paths : s.tree[p] # s.base[p]}
       IN /\ \A p \in changed : /\ HeadTree[p] = s.base[p]
                                /\ files[p] = HeadTree[p] /\ index[p] = HeadTree[p]
          /\ files' = [p \in Paths |-> IF p \in changed THEN s.tree[p] ELSE files[p]]
          /\ index' = [p \in Paths |-> IF p \in changed /\ s.base[p] = None
                                        THEN s.tree[p] ELSE index[p]]
    /\ stash' = Front(stash) /\ Disturb
    /\ UNCHANGED <<commits, known, refs, pc, job>>

\* and drop forgets it.
StashDrop ==
    /\ Call /\ stash # << >> /\ stash' = Front(stash)
    /\ UNCHANGED <<files, index, commits, known, refs, pc, job, disturbed>>

\* A command that fails or is cut after 30 seconds may have done nothing: a
\* stuttering step.
Next ==
    \/ \E c \in Callers :
         \/ \E p \in Paths, old, new \in Words, all \in BOOLEAN : EditFile(c, p, old, new, all)
         \/ \E ps \in {<< >>} \cup {<<p>> : p \in Paths} \cup {<<p, q>> : p, q \in Paths} : GitCommit(c, ps)
         \/ WriteEdit(c) \/ Add(c) \/ Commit(c)
    \/ \E p \in Paths : \/ DeleteFile(p)
                        \/ \E x \in Texts : CreateFile(p, x) \/ PatchFile(p, x)
    \/ \E b \in Branches :
         \/ CreateBranch(b) \/ DeleteBranch(b) \/ SwitchBranch(b) \/ Pull(b)
         \/ \E force \in BOOLEAN : Push(b, force)
         \/ \E tree \in Theirs : Others(b, tree)
    \/ \E c \in known : SwitchCommit(c) \/ CherryPick(c) \/ (\E ff \in BOOLEAN : Merge(c, ff))
    \/ \E ps \in {Paths} \cup {{p} : p \in Paths} : SwitchPath(ps)
    \/ \E t \in Tags : CreateTag(t) \/ DeleteTag(t)
    \/ StashPush \/ StashPop \/ StashDrop

Spec == Init /\ [][Next]_vars
-----------------------------------------------------------------------------
TypeOK ==
    /\ \A t \in {files, index} \cup {commits[i].tree : i \in DOMAIN commits} :
          t \in [Paths -> Seq(Words) \cup {None}]
    /\ \A i \in DOMAIN commits : commits[i].parents \subseteq 1..(i - 1)
    /\ known \subseteq DOMAIN commits
    /\ heads \in [Branches -> known \cup {0}] /\ tags \in [Tags -> known \cup {0}]
    /\ remote \in [Branches -> 0..Len(commits)]
    /\ branch \in Branches \cup {None} /\ HEAD \in known
    /\ pc \in [Callers -> {"idle", "write", "add", "commit"}]
    /\ disturbed \subseteq Callers

\* The contents of a file in the working tree, in the commits that a branch, a
\* tag, the remote or the current commit leads to, and changed in the stash.
InCommits(cs) == [p \in Paths |-> UNION {{commits[d].tree[p] : d \in Reach(c)} : c \in cs \ {0}}]
Named == Range(heads) \cup Range(tags) \cup Range(remote) \cup {HEAD}
Held == [p \in Paths |-> {files[p]} \cup InCommits(Named)[p]
                \cup {s.tree[p] : s \in {s \in Range(stash) : s.tree[p] # s.base[p]}}]

\* The commits that a step gives up by its name: a tag that is deleted, what the
\* remote had before a push, the current commit when a checkout leaves it and
\* no branch was at it.
GivenUp ==
    {tags[t] : t \in {t \in Tags : tags'[t] # tags[t]}}
    \cup {remote[b] : b \in {b \in Branches : remote'[b] = heads[b]}}
    \cup (IF branch = None /\ commits' = commits THEN {HEAD} ELSE {})

\* No skill loses a content of a file, however the requests interleave: not by
\* committing, creating, deleting or switching to branches, merging, picking,
\* pulling, stashing or popping.  Only those that write a file or check one
\* out, and a stash that is dropped, lose what was in the working tree or the
\* stash; only deleting a tag, pushing (with --force) and leaving a commit on
\* no branch lose what was in commits, and no more than these led to.
GitKeepsContents ==
    [][\/ UNCHANGED git
       \/ UNCHANGED <<files, commits, refs>> /\ stash' = Front(stash)
       \/ \A p \in Paths : Held[p] \subseteq Held'[p] \cup InCommits(GivenUp)[p] \cup {None}]_vars

\* A commit nobody came between has the files that were asked for as they are,
\* and leaves the others as they were in the index.
CommitHoldsWhatWasAsked ==
    [][\A c \in Callers :
          pc[c] = "commit" /\ commits' # commits /\ pc'[c] = "idle" /\ c \notin disturbed =>
             \A p \in Paths : Last(commits').tree[p] = IF p \in job[c].asked THEN files[p] ELSE index[p]]_vars
=============================================================================
