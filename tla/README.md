# Polypod in TLA+

Polypod is an AI assistant in one Go binary: messages arrive over REST, a web
page, Telegram, WhatsApp, a terminal or a pipe; a router keeps one bounded
conversation window per user and channel, asks a language model, lets the model
call tools ("skills"), and sends the answer back, streamed where the channel
can. Around that pipeline stand the registries the model's tools come from, the
stores that outlive the process, managers that run work beside the conversation
(background commands, scheduled tasks, loops), guards in front of the model
providers, and histories of the files the assistant changes.

This directory holds TLA+ models of the parts of it that have state worth
checking, the TLC configurations that check them, and TLAPS proofs of the
results that should hold for every instance. Paths below are relative to
`internal/` unless they start with `README.md`, `main.go` or `cmd/`.

    tlc -workers 2 -config RouterShared.cfg MCRouter    # any run, see "Runs"
    tlapm RouterProofs.tla                              # any proof module

## 1. Inventory

### The pipeline

**Message pipeline and session store** — `router/router.go`, `conversation/`.
State: the store's map of sessions, the session objects (a slice of messages
each, capped at 20), the backend (memory, a YAML file per session, SQLite,
PostgreSQL), the goroutine of each request. Operations: `Handler`,
`StreamHandler` (authorise, rate-limit, append the user message, read the
history, ask the model, append the answer, save, log the usage), `Store.Get`
(read lock, load without a lock, write lock), `Store.Save`, `/clear`, start-up.
Hard: the channels call the handler concurrently; a session's slice has no lock;
`Get` checks and installs under two different locks; saves of one session can
overtake each other; files are truncated in place; processes die. Correct means:
a window never outgrows its bound, no user sees another's messages, what is
saved only moves forward, an answered exchange is saved, every message gets a
reply.

**AI service and admission** — `ai/service.go`, `auth/`, `adapter/rest/middleware.go`.
State: the active agent and the client's list of skill names, shared by all
requests without a lock. Operations: refusing a request, choosing the persona,
setting the list, offering the tools; `SetAgent` at any time. Correct means: the
tools that are offered belong to the persona.

**AI client** — `ai/client.go`, `ai/retry.go`. State: the conversation sent to
the provider, the iteration and retry counters, the tool calls put together from
stream fragments. Operations: a request with retries and back-off, the stream's
receive loop, the execution of tools, the loop over both. Hard: errors at every
step, fragments with any index, cancellation. Correct means: the conversation
always satisfies the chat API's protocol, nothing is run or shown twice, every
call that waits for a result is run by itself if the model numbers its calls as it
should, and the loop ends.

**Provider wire forms** — `provider/`. State: one request and the stream of its
answer. Operations: the conversion of a conversation into the form of OpenAI,
Anthropic, Google or Ollama, an answer at once, an answer by events (texts,
thoughts, fragments of calls), errors and cancellation. Hard: results of tools are
tied to calls by an identifier here and by a name there, fragments bear any
index, some events cannot be decoded, and a broken stream may look like an ended
one. Correct means: each result keeps its call, and what is returned is what came
of the answer, in order and once.

**Parallel tool executor** — `parallel/parallel.go`. State: the list of calls
and their results. It splits the list into groups of read-only calls, which it
runs concurrently, and single writes. Correct means: the same results as running
one call after another.

**Circuit breaker, rate limiter, fallback chain** — `circuitbreaker/`,
`ratelimit/`, `fallback/`. State: a breaker per provider (state, counters, two
times); a token bucket per user; the provider a call has got to. Hard: results
that arrive in another breaker state than their call was admitted in, two first
calls at once, lazy refill, streams that fail after some text. Correct means:
counters that fit the state, closing only through probes, recovery, an exact
rate bound, each provider asked for its own equivalent of the model.

**Streaming consumers** — `adapter/rest`, `webui`, `headless`, `adapter/cli`.
State: a bounded channel of chunks, in the terminal a forwarding goroutine and a
second channel, the text on the screen. Hard: several goroutines, full channels,
users who close the terminal, refusals and failures half way. Correct means: the
whole answer in order, nobody blocked for ever, no work left on a session when
the user may act again.

**Terminal** — `adapter/cli/model.go`, `commands.go`, `history.go`, `completion/`.
State: the input line with its completion, the history of inputs and its file,
the messages on the screen, the streamed text. Operations: every key, some
thirty slash commands, deltas, the end of an answer, an error, quitting. Hard:
the session changes beside the screen, saves fail, Ctrl-L and `/clear` empty
different things; an answer with rounds of tools is shown from its first text on,
and only its last is saved. Correct means: screen and session hold the same turns
in the same order, what is shown of one ends with what is saved of it, the
history holds what was typed, a completion shown is the one in the line.

**WhatsApp** — `adapter/whatsapp`. State: the queue of the GREEN-API service and
the notification in hand. Hard: a notification stays queued until it is deleted,
deleting can fail, the process can die in between. Correct means: handled at
least once, in order, with duplicates only after faults.

### What the model is offered, and what decides

**Skills, plugins, MCP client** — `skill/`, `plugin/`, `mcp/`, start-up order in
`main.go`. State: the registry (one map, no lock), a file per custom skill, a
directory per plugin, the plugin manager's list, the MCP sessions. Operations:
start-up, `create_skill`, `delete_custom_skill`, install and remove a plugin,
connect, disconnect, list and call a server's tools, execute a skill. Hard: two
requests do any of this at once, writes, reads at the start and removals fail, the
process dies, and tools stay registered when what they call is gone. Correct means: the registry follows the
files; what was removed no longer answers.

**Agents** — `agent/`, `selfmod/`. State: an agent's file, its `.bak`, the
registry. Operations: load, back up, change, write in place, register, for each
kind of change. Hard: every step can be the last one, two requests interleave, and
a file that was cut may still be read, as an agent with part of its fields.
Correct means: file or backup is whole, the registry is the file, core skills
stay offered.

**Permissions, modes, hooks** — `permissions/`, `modes/`, `hooks/`. State: one
list of rules from two files and from code, two kinds of mode, a list of hooks,
the rounds of hooks under way. Hard: order decides; hooks change while a round
runs. Correct means: a denial that the other file does not contradict holds; a
call that is let through was put to each hook. `main.go` builds these managers and loads the rules, but the
tool loop consults none: the only live callers are the two session events.

**MCP server** — `mcpserver/`. State: the input read so far and the answers.
Hard: notifications, broken lines, ids, reads and writes that fail. Correct means:
one answer per request, in order.

**Knowledge base** — `database/`, `cmd/ingest`, `knowledge/`. State: tables and
recorded migrations, rows with embeddings, an ingest command's chunks. Hard: two
programs migrate at once, commands are killed, embeddings fail, characters take
several bytes. Correct means: a version is applied once and in order; chunks hold
the text; a command stores what it does not report; a search gives the best rows.

**Start and end** — `main.go`, `setup/`, `config/`, `configval/`, `dotenv/`.
State: the environment, four files, the process's configuration, what it holds
open, its channels. Operations: wizard, environment, load, validate, key check,
database, boot, headless mode, signals, the end of each channel, shutdown.
Correct means: the key in use is the one that was set, the file's before the
environment's before that of a `.env` file; a session has one start and one end,
before what it uses is closed.

### What is kept

**Background tasks, scheduler, loops** — `background/`, `scheduler/`, `loop/`.
State: maps of tasks, their goroutines, output files, the scheduler's JSON file.
Hard: stop, clean-up and natural end race; saves run without a lock and fail; a
loop is counted and removed outside the lock. Correct means: what is listed is
what runs, an outcome is final, what is stopped ends and stays removed, the file
follows the map after a save that went well.

**Checkpoints, undo, staged changes** — `checkpoint/`, `undoredo/`,
`diffsandbox/`. State: snapshots in memory and on disk, an index file, the undo
history and redo buffer, the staged list, the files. Hard: trimming, restarts,
overlapping changes, writes that fail half way, others who write the same files.
Correct means: a rewind gives back what the checkpoint was made of; undoing
everything leads back to the start; a staged change leaves the list carried out
or rejected.

**Git** — `git/skills.go`, `githook/`. State: working tree, index, commits,
branches and tags here, branches on the remote, the stash, and whether a branch is
the current one; the two hook files and their `.bak`. Operations: create, edit,
patch and delete a file, commit, branch, switch to any name (a branch, a commit, a
path), tag, merge, cherry-pick, pull, push with or without `--force`, stash;
install and uninstall the hooks. Hard: an edit is a read and a write, a commit
several `git add` and a `git commit`, with no lock over them; errors of git come
back as text; hooks are looked at, then written or removed. Correct means: no step
loses a content it was not to lose, a commit holds what was asked, one's own hook
survives.

**Web cache, memories, usage, session index, compaction, conversation tree** —
`webcache/`, `memory/`, `automemory/`, `budget/`, `tracking/`, `session/`,
`convtree/`. State: a map or list each, most with a file rewritten after each
change. Hard: eviction and expiry, roll-over of day and month between requests,
unlocked read-change-write, cut files, restarts. Correct means: each gives back
what it was given.

### How they interact

A channel calls the router; the router calls the store, the rate limiter and the
AI service; the service builds the prompt, with knowledge and memories, and calls
the AI client; the client calls skills through the registry, and these reach
every store above. Requests share the session store, the registry, the agents,
the service's active agent and the files. At this commit the executor, the
breaker, the fallback chain, checkpoints, undo, the diff sandbox, permissions and
tool hooks are complete components that the live pipeline does not consult; the
background, scheduler and loop managers are reached through skills and the
terminal's commands.

### Not modelled

* The file watcher: the program asks it for its default settings and starts none
  (`main.go:639`).
* Notifications: one call passed to each channel in turn, with no state.
* The arena: no caller; runs that share nothing.
* Skills that wrap one command or service each, code analysis, model choice by
  keywords, project set-up and maintenance commands, bridges to other assistants,
  the retry loop with a progress display (no caller): text in, text out. Where
  their result matters it is a choice of a model (a tool that fails).
* Of modelled parts: rendering and layout, HTTP routing, Telegram's long polling,
  the JSON mode (no caller), sampling settings, `config.d` (its merge is thrown
  away). Of git: worktrees, commands that only print, `git_clone` and `git_init`,
  which work in another directory, names that are options, and merges, picks and
  pops that conflict. Costs are whole numbers of a small coin.

## 2. Modules

| Module | Code | Variables and the code they stand for |
|---|---|---|
| `Session` | `conversation/session.go` | operators only: `AddMessage`, `Continues` |
| `Router` | `router/router.go`, `conversation/store.go`, `manager.go`, prompt of `ai/service.go` | `sessions` = `Store.sessions`; `heap` = the objects' `Messages`; `rows` = files or rows (of a database, also one whose messages cannot be decoded); `pc`, `ref`, `slice`, `reply` = a handler's program counter and locals |
| `Windows` | — | the abstract store: `window` and `saved` of each user, `turn` of each request; questions and answers enter a window whole and in turn, a save keeps all of it, a restart goes back to the copy. `Router` maps to it: the object in the store's map, or the row it would be loaded from, is the window; the place of a request's goroutine is its turn |
| `Answering` | `auth/auth.go`, `adapter/rest/middleware.go`, `ai/service.go` | `toolsOn` = whether the client has a registry; `agentName` = `Service.agentName`; `skillNames` = the client's list, a slice header whose pointer and length are written apart; `pc`, `ag`, `tools` = a request |
| `ToolLoop` | `ai/client.go`, `ai/retry.go` | `msgs` = the request's messages; `calls` = `toolCallMap`, for each index the calls whose fragments came under it; `todo` = calls not run yet; `iter`, `attempt` = the two loops; `shown`, `executed` = callbacks (deltas and line breaks) and skills so far; `asked` = history: what the model called |
| `Wire` | `provider/*.go` | `vendor`, `request`, `sent` = the caller's messages and the vendor's; `events` = what has come of the answer; `content`, `toolMap`, `toolCalls` = what is made of it; `shown` = the callback |
| `Parallel` | `parallel/parallel.go` | `calls`, `results`; `start`, `running` = the group at work; `world` = what the tools read and write |
| `CircuitBreaker` | `circuitbreaker/breaker.go` | `registry` = the map's entry; `b` = the breakers made; `mine`, `pc` = a caller |
| `RateLimit` | `ratelimit/ratelimit.go` | `buckets`; `admitted` = history |
| `Fallback` | `fallback/fallback.go` | `model` = `req.Model`; `asked`, `text` = history |
| `Streaming` | router's stream handler, four consumers | `chunks`, `stream` = channels; `handler`, `forward`, `ui` = goroutines; `shown` = the screen |
| `Terminal` | `adapter/cli/model.go`, `commands.go`, `history.go`, `completion/` | `input`, `tab`, `entries`, `cursor`, `screen`, `buffer` = the model's fields, an answer as its pieces and line breaks; `file` = `data/cli_history`; `session`, `disk` = what the pipeline keeps beside it, `reply` = what of the answer under way it would save |
| `WhatsApp` | `adapter/whatsapp/whatsapp.go` | `queue` = GREEN-API; `at`, `held` = the polling loop |
| `Skills` | `skill/*.go`, `plugin/plugin.go`, `mcp/*.go`, registrations of `main.go` | `registry`, `plugins`, `sessions` = the managers' maps; `files`, `dirs` = the disk; `open` = sessions not closed; `pc`, `job` = a request within a change |
| `Agents` | `agent/agent.go`, `selfmod/skills.go` | `file`, `bak`, `registry`; `at`, `job`, `ag`, `copy` = a request within a change |
| `Guard` | `permissions/`, `modes/`, `hooks/` | `rules`, `mode`, `modeBlocked`, `current`; `hooks`; `asks` = rounds of `Fire`, with or without the lock |
| `MCPServer` | `mcpserver/server.go` | `input`, `read`, `output`, `serving`; `lost`, `broken` = writes and reads that failed |
| `Knowledge` | `database/`, `cmd/ingest`, `knowledge/` | `tables`, `recorded` = the schema; `rows` = documents; `pc`, `at`, `run` = a process and its chunks; `answer` = the last search |
| `Startup` | `main.go`, `setup/`, `config/`, `configval/`, `dotenv/` | `outer`, `dotenv`, `local`, `file` = what survives a process; `env`, `cfg`, `open`, `channel`, `stop`, `heard` = the process |
| `Background` | `background/tasks.go` | `status`, `output`, `worker`, `cancel` |
| `Scheduler` | `scheduler/scheduler.go` | `tasks`, `file`, `pc`, `job`, `snapshot` = a save's copy; `last` = how the last save went |
| `Loop` | `loop/loop.go` | `loops`, `adding`, `loop`, `cancelled`, `ticked` |
| `Checkpoint` | `checkpoint/checkpoint.go` | `checkpoints`, `snapshots`, `disk`, `index`, `tree` = the files |
| `UndoRedo` | `undoredo/undoredo.go` | `history`, `redoBuf`, `tree` |
| `Staging` | `diffsandbox/sandbox.go` | `changes` = `Sandbox.changes`; `applying` = the change `Apply` is at; `disk` |
| `Repository` | `git/skills.go` | `files`, `index`, `commits`; `known` = those that are here; `heads`, `tags`, `branch`, `detached`, `remote`, `stash`; `pc`, `job` = a caller within `edit_file` or `git_commit` |
| `GitHooks` | `githook/hooks.go` | `hook`, `bak` = the files; `command`, `todo`, `moved` = an install or uninstall under way |
| `WebCache` | `webcache/cache.go` | `entries`, `disk`, `clock` |
| `Memories` | `memory/`, `automemory/` | `memories`, `disk`, `facts`, `factFile`; `kind` = the store's |
| `Usage` | `budget/`, `tracking/` | `used` (tokens and costs), `user`, `dayKey`, `monthKey`, `alerts` = `budget.Manager`; `records`, `file`, `snapshot` = the tracker |
| `Conversations` | `session/`, `convtree/` | `index`, `read` = the index and a writer's copy; `context`; `parent`, `current` = the tree |
| `MCRouter`, `MCTools`, `MCProviders`, `MCChannels`, `MCJobs`, `MCWorkspace`, `MCAssistant` | — | instances for TLC |
| `RouterProofs`, `SerialProofs`, `ToolsProofs`, `ProvidersProofs`, `ChannelProofs`, `JobsProofs`, `WorkspaceProofs`, `AssistantProofs` | — | theorems about the specification of `Router` and of each instance |

One action is one critical section, one unlocked read or write, or one external
call, in the order of the code; the comment above an action says which. Two
conventions hold throughout. Operators marked "Mutant" are plausible wrong
versions of the operator below them; no specification uses them, they show that
a property can fail. Variables marked "history" record what happened for a
property to speak of; no guard reads them.

**Several components in one run.** `MCTools`, `MCProviders`, `MCChannels`,
`MCJobs`, `MCWorkspace` and `MCAssistant` put components side by side that share
no state in the code. A variable chosen in the initial state (`guard`, `channel`,
`manager`, `part`...) names the one that moves in a behaviour; the others stay in
one initial state. Nothing is lost by this: with no shared state, every property
is about one component, and each component goes through all its behaviours.
Components that do share state are in one module: the registry with plugins and
MCP sessions, the two stores of the knowledge base with ingest commands, the
persona with the list of tools, the screen with the session.

**What is abstracted.** Texts are the request they belong to, a model value or a
number. Times are small clocks. A failing call is a choice. The executor's tools
are two tables of one bit with reads, a flip and a copy; the proof has any world
and any tools. A pattern is the set of tools it matches with the form that decides
how; a paragraph is a name with its length in bytes and in characters; a vector
of an embedding has two whole numbers, and similarities are compared by their
squares. Unlocked reads and writes of a Go slice header are separate steps in `Router`
(lost updates) and in `Answering` (a pointer with another list's length); torn
headers of the session slice are not modelled.

**Files.** A write in place may be cut by the death of the process and, where the
code goes on after an error, by a failed write: the value is `Torn`, or what the
format makes of a shortened file (an agent of YAML with part of its fields or of
its name, an emptied source file).

## 3. Runs

Every passing run except `RouterSerial` checks one type invariant (`TypeOK`, or
`TypesOK` for several components). State numbers are the distinct states TLC
finds. Where a run puts components together, a property conjoins what is said of
each; the modules hold the parts under their own names.

| Run | What it puts together | What it shows |
|---|---|---|
| `RouterSerial` | PostgreSQL, three messages of one user on a channel that waits for each answer, a stranger's message, one crash, failing saves, one `/clear`, window of 4 | `KeepsWindows`: `Router` implements `Windows` (refinement). `PersistedAdvances`: each save continues the saved window. `AnsweredIsSaved`: an answered exchange whose save did not fail is at the end of the row. `EveryRequestAnswered` |
| `RouterShared` | YAML files, two users whose session ids give one file name, three concurrent requests, failing saves, one crash, window of 2 | `WindowBound` and `Isolation` survive lost updates, two session objects for one user, torn files and the shared file |
| `Tools` (33k) | both modes of the tool loop, two iterations, one retry, call indexes 0..2 with gaps, cancellation; the executor on every list of up to four calls | `ToolProtocol`: every assistant message with calls is followed by their results. `EachCallOnce`: nothing is run or shown twice, and every call of a densely numbered response is run. `SameAsSequential`. `BothEnd` |
| `Providers` (484k) | two callers of one provider that goes down and comes back; two rate-limited keys; a chain of three providers; four vendors' wire forms | `CountersFitState`, `ClosesThroughProbes`, `BreakerRecovers`. `RateExact`: `RateLimit!RateBound` and `RefusedOnlyAtBound`. `AskedAsMeant`: `Fallback!OwnModel`, `Wire!ResultsKeepTheirCalls` and `ResponseIsWhole` |
| `Channels` (470k) | two turns on each of the four consumers, the terminal also over a synchronous handler, a channel of two chunks, up to three deltas; three WhatsApp notifications and two faults; a user at the terminal | `AnswerShown`, `IdleMeansQuiet`. `InTurn`: `WhatsApp!InOrder` and `DuplicatesBounded`. `TerminalConsistent`: screen, history, completion. `NothingIsStuck`: `GoroutinesEnd` and `EventuallyHandled` |
| `Jobs` (159k) | a limit of two and three ids for background commands and loops; two tasks and two actors of the scheduler with one crash | `ListsAreTrue`: `Background!RunningIsAlive`, `Loop!ListedLoopsRun`, `Scheduler!SavedWhenQuiet`. `NothingComesBack`: `OutcomeIsFinal`, `Scheduler!RemovedStaysRemoved`. `StoppedEnds`: `KilledEnds`, `Loop!StoppedEnds` |
| `Workspace` (1.36M) | checkpoints and undo over two files whose copies share a name; staged changes; two callers of git; hooks; web cache, memories, usage, session index, compaction, tree | `CopiesAreFaithful`, `UndoLeadsBack`. `NoWorkIsLost`: `Staging!NoChangeIsLost`, `Repository!GitKeepsContents` and `CommitHoldsWhatWasAsked`. `StoresHold`: `GitHooks!OwnHookIsKept`, `WebCache!ServesTheLatest`, `Memories!RecallsWhatItSaved` and `FactsAreKept`, `Usage!CountsAreTrue`, `LimitsHold` and `FileIsPrefix`, `Conversations!IndexKeeps`, `CompactionKeepsRecent` and `PathIsTheLine` |
| `Assistant` (993k) | skills, plugins and an MCP server changed by two requests; agents; permissions and hooks; two starts of the program; three requests beside a change of agent; the MCP server; two programs and an ingest command on one database | `FilesAreObeyed`: `Skills!CatalogMatchesDisk`, `Agents!AgentSurvives`. `CallsAreSound`: `Skills!GoneNeverRuns`, `Guard!EveryHookHeard`. `DenialsHold`. `StartsAndEnds`: `Startup!KeyIsTheOneSet` and `SessionIsFramed`. `AnswersFit`: `Answering!ToolsFitThePersona`, `MCPServer!AnswersInOrder`. `KnowledgeIsWhole`: `SchemaIsWhole`, `ChunksAreWhole`, `EveryChunkStored`, `AnswersAreBest` |

Four runs show that the program does not do what one of its comments or tests
says. Each stops at a counterexample:

| Run | Statement | Behaviour |
|---|---|---|
| `RouterTwoSessions` | `manager.go:22` "GetSession retrieves or creates a session for a user on a channel" | `Get` does not look again under the write lock: two first messages install two objects, and the first one's messages are lost (`store.go:95`) |
| `RouterLoadError` | `store.go:180` "not found" | every query error counts as not found: a new empty session overwrites the saved one |
| `RouterQueryTwice` | `service.go:98`, `:106` "Add conversation history", "Add current query" | the router has added the query to the history before: the model gets each message twice |
| `SchedulerStale` | `scheduler.go:83` "Save persists tasks" | two saves overlap and the older copy is written last |

**Bounds and why they are enough.** Three requests of one user are what a lost
update needs (two that race, one that sees the result), a second user is what
`Isolation` needs, and a window of 2 to 4 fills within them. One crash separates
"before", "during" and "after" a save; a second one meets no new state, as the
first may come anywhere. Two iterations and one retry let a retry, a broken
stream or a cancellation come before, in and after a round of tools, and indexes
0..2 hold a gap; four calls hold two groups of reads around a write. Two failures,
two probes and a timeout of two ticks tell "one short of" from "at" for every
counter of the breaker; with two callers one result can be late. The limiter's
numbers (rate 2, cost 3, burst 2) make a refill that is not a whole request. A
channel of two chunks fills with three deltas and the Done chunk. Three ids with a
limit of two let an id be taken after another one ended. Two tasks and two actors
are the least for overlapping saves.

| Module | Instance | What it lets happen |
|---|---|---|
| `Skills` | two requests, two changes, a stop, two sessions, one plugin, one server | two changes of one name that overlap, a disconnect between look-up and call, a restart after either |
| `Agents` | two agents, two changes, a stop | both changes on one agent, a failure at each step |
| `Guard` | two files each, two hooks, three changes, one round at a time | deny, ask and allow of both files and the code in one list; a hook removed and another added within a round |
| `Startup` | two starts, one edit, two keys, two channels | a key saved in the first start and read, or not, in the second |
| `Answering` | three requests, two agents, two switches | a switch between any two steps of a request, and back |
| `MCPServer` | every input of three lines | an answered line on either side of one that is not |
| `Knowledge` | two programs, one ingest command, three starts, two versions, two texts, a top of two of three chunks | a race through both versions, a kill between them, an ingest before the table exists, the same file twice |
| `Wire` | two texts, two calls, three attempts, three conversations | a break between two deltas of a call, a second tool round |
| `Terminal` | three inputs, a history of two, one restart, a text of two lines | a command or a quit within an answer, the history's bound, an input that comes back as two lines |
| `Staging` | two files, two changes, one from outside | two changes of one file, a failure at the second |
| `Repository` | two callers, two files, four calls, three commits, one stash | an edit and a commit within another's commit, a branch left and deleted |
| `GitHooks` | two hooks, three writes, three commands | install, own hook, install again, uninstall |
| `WebCache` | size two, three keys, two ticks, one restart, one key at a time whose file could not be written | eviction and expiry on either side of a restart |
| `Memories` | two topics, four changes, two stops, two facts of three | delete and save again, a cut file read by the next process |
| `Usage` | two requests, three records, three days of which two make a month | a day and a month that change within a request |
| `Conversations` | two writers, four saves; seven messages, compaction above four; seven nodes | overlapping updates; a context compacted twice; a branch off a branch |

These bounds (the constants `Max...`, `Turns`) stand in guards and have no
counterpart in the code, except `Router`'s `MaxMessages`, `MaxHistory`, `MaxSize`,
`MaxFacts`, `MaxInject`, `MaxToolIter` and `MaxRetries`, which are the code's
limits made small. The breaker's failure count and its times are cut at the
threshold, past which nothing tells them apart.

**Deadlock** is not checked where a system may stop by itself: users need not
send, a completion returns, a bounded clock ends. Where somebody could wait for
ever, a liveness property says that nobody does (`NothingIsStuck`, `BothEnd`,
`EveryRequestAnswered`, `StoppedEnds`, `BreakerRecovers`).

## 4. Fairness

Weak fairness stands for "the Go scheduler runs a goroutine that can run, and an
external call returns". The HTTP clients and commands have time-outs or a
context, so a call returns an answer or an error. It is assumed for the steps of
requests (`Router`), of the tool loop and executor, of the handler, forwarder,
loop and UI of a streamed turn, of the WhatsApp poll, of a caller of the breaker
and the clock, and of what follows a command's end (`Background.Ends`: a command
that was not killed may run on for ever). Never assumed: that users send, clear, quit
or cancel, that a provider recovers (`BreakerRecovers` is conditional on it),
that a crash or failure happens. `Loop` has strong fairness for `TakeDone` alone:
Go's `select` chooses at random among ready cases, so a cancelled loop that is
always also offered a tick ends with probability one.

`GoroutinesEnd` excepts a closed terminal: with the program going down nobody reads
the channels, and the goroutines die with the process. `Workspace` and
`Assistant` state no fairness: what they check is safety, and their operations
are single calls with nothing to wait for, but for the shutdown. That one waits
for the channels without a limit (`main.go:770`), so a command that does not
return keeps the process; nothing in the code promises the contrary.

## 5. Proofs

Eight modules hold the proofs. `RouterProofs` and `SerialProofs` are about the
specification of `Router`, the others about those of the instances that put
components together, with the constants left open: every number of requests,
callers, turns, ids, keys, versions, every bound of a run, every set of files,
agents, rules, hooks, servers.

| Theorem | States |
|---|---|
| `RouterProofs!TypeCorrect` | `Spec => []TypeOK` |
| `RouterProofs!WindowBounded` | `Spec => []WindowBound` |
| `RouterProofs!UsersIsolated` | `Spec => []Isolation` |
| `SerialProofs!ExchangeSaved` | `LazyLoad /\ Spec => AnsweredIsSaved` |
| `SerialProofs!SavedAdvances` | `Loads /\ Spec => PersistedAdvances` |
| `SerialProofs!RouterImplementsWindows` | `Loads /\ Spec => KeepsWindows`: `Router` implements `Windows` |
| `ToolsProofs!ParallelIsSequential` | `ReadsOnlyRead /\ Spec => []SameAsSequential` |
| `ToolsProofs!ConversationInProtocol` | `ToolsSpec => []ToolProtocol` |
| `ToolsProofs!CallsRunOnce` | `ToolsSpec => []EachCallOnce` |
| `ToolsProofs!ToolsTypes` | `ToolsSpec => []TypesOK` |
| `ProvidersProofs!BreakerTypes` | `Spec => []TypeOK` of the breaker |
| `ProvidersProofs!CountersFit` | `Spec => []CountersFitState` |
| `ProvidersProofs!ClosesOnlyThroughProbes` | `Spec => ClosesThroughProbes` |
| `ProvidersProofs!RateIsExact` | `R!CleanupForgetsFull /\ GuardsSpec => RateExact` |
| `ProvidersProofs!AskedIsAsMeant` | `GuardsSpec => []AskedAsMeant` |
| `ProvidersProofs!ProvidersTypes` | `GuardsSpec => []TypesOK` |
| `ChannelProofs!AnswersAreShown` | `Spec => []AnswerShown` of `Streaming` |
| `ChannelProofs!QuietWhenIdle` | `Spec => []IdleMeansQuiet` |
| `ChannelProofs!StreamTypesKept` | `Spec => []TypeOK` of `Streaming` |
| `ChannelProofs!MessagesTakeTurns` | `ChannelsSpec => []InTurn` |
| `ChannelProofs!TerminalStaysConsistent` | `ChannelsSpec => []TerminalConsistent` |
| `ChannelProofs!ChannelTypesKept` | `ChannelsSpec => []TypesOK` |
| `JobsProofs!ListsTellTheTruth` | `JobsSpec => []ListsAreTrue` |
| `JobsProofs!NothingIsTakenBack` | `JobsSpec => NothingComesBack` |
| `JobsProofs!JobsTypes` | `JobsSpec => []TypesOK` |
| `WorkspaceProofs!RewindGivesBack` | `WorkspaceSpec => []CopiesAreFaithful` |
| `WorkspaceProofs!UndoingLeadsBack` | `WorkspaceSpec => []UndoLeadsBack` |
| `WorkspaceProofs!ChangesAreKept` | `WorkspaceSpec => NoWorkIsLost` |
| `WorkspaceProofs!StoresKept` | `WorkspaceSpec => []StoresHold` |
| `WorkspaceProofs!WorkspaceTypes` | `WorkspaceSpec => []TypesOK` |
| `AssistantProofs!AnswersFitTogether` | `AssistantSpec => []AnswersFit` |
| `AssistantProofs!DenialsStand` | `AssistantSpec => []DenialsHold` |
| `AssistantProofs!ProcessStartsAndEnds` | `AssistantSpec => []StartsAndEnds` |
| `AssistantProofs!FilesStandObeyed` | `AssistantSpec => []FilesAreObeyed` |
| `AssistantProofs!CallsStaySound` | `AssistantSpec => CallsAreSound` |
| `AssistantProofs!SchemaStaysWhole` | `AssistantSpec => []K!SchemaIsWhole` |
| `AssistantProofs!KnowledgeStaysWhole` | `AssistantSpec => []KnowledgeIsWhole` |
| `AssistantProofs!TypesStay` | `AssistantSpec => []TypesOK` |

*Assumptions.* Each module names what it assumes of its constants
(`RouterAssumption`, `BreakerAssumption`, `StreamingAssumption`,
`KnowledgeAssumption`...), and the instances repeat these for the components they
put together (`LoopAssumption`, `CatalogAssumption`, `GuardAssumption`...): types, and
bounds that are not zero where the code's are not. More than types are
`MaxMessagesAssumption` (the window holds at least one message), `KeyedRows` (a
database row belongs to one key; files need not), that thresholds, timeouts
and costs are at least one, and that in a request only the model calls and each result
answers an earlier call (`WireAssumption`). TLC evaluates every one of them on the instance it
runs. What is about the environment is a hypothesis of its theorem instead:
`ReadsOnlyRead` (a tool on the read-only list changes nothing; see `db_query` in
section 6), `LazyLoad` (the backend is a database: with files, the row of a key may
be another's), `Loads` (and no query fails: run `RouterLoadError` shows why), and
`CleanupForgetsFull` (`Cleanup` is called with an age at which a bucket is full
again; a shorter one gives a user a full bucket early).

*The router.* `Isolation` is not inductive: `Put` appends to the
object a request refers to, and a row is loaded for the key that asks. `IInv` adds
what makes both right. A session in the map is one its key owns (`Owner`: the
request that made it has that key, or it was loaded for it); so is the object a
request past `install` works on; a slice, an object and a row hold messages of
one key only and no more than the window (`WindowOf`); and a row lies in its
owner's slot, which with `KeyedRows` makes the row a database gives the key's own,
while a file is filtered by the owner written in it (`Stored`). Each action has a
lemma; the two ways to save share one.

*Serial channels.* On top of `IInv`, `SInv` says that a request
of a serial channel is the only one of its key in flight, that the store's session
is the object it works on, that what it last read is what the object still holds, and
that from `marshal` on the object ends with its answer, as the row does after
`write`. A request that has not installed its object is in nobody's map, so a load
changes no session in use. `WorkFrame` states once what a step of one request
leaves alone; `OthersUntouched` draws from it and `IInv` that the step cannot
disturb another user's serial request. That gives `AnsweredIsSaved`. `PInv` adds that
the session in the map, and a loaded one not yet installed, continues the row;
`ContinuesAdded` carries this over an append at the bound of the window, and
`PersistedAdvances` is what a write then does.

*The refinement.* `RInv` adds that a request that found no session is the one that
will install it, and that what it loaded is still the row. So the window that
`Windows` speaks of (the object in the map, or the row it would be loaded from)
does not change when a session is loaded or installed. Each step of
`Router` is then one step of `Windows` (a question or an answer entered, a save, a
clear, a restart, a turn taken or given up) or a stutter.

*The executor.* `IInv` says that the results so far are those of
some sequential run up to the current group (`Follows`), that the results which exist are
those before the group and those of its calls that ended, and that the group
is `Group(start)`. A read leaves the world as it is, so its result is the one it would have had in turn; a
write is alone in its group, so its effect extends the run by one; `GroupShape`
gives these two cases.

*The tool loop.* `InProtocol` says at each place of the loop where the conversation
stands: every assistant message but the last is answered, and the last one by as many
results as calls have run. `Counted` and `RequestsCounted` tie iterations and
attempts to what was sent; `RunOnce`, `ShownOnce` and `AskedAndTaken`
tie what ran and what was shown to the iteration it belongs to, so a retry meets
nothing of its own attempt that was shown or run.

*The breaker.* `CountersFitState` (`Fits`) is nearly inductive,
since every counter is compared under the lock that changes it. `ClosesThroughProbes`
needs two facts about `Registry.Get`'s gap: nobody refers to the
breaker a caller is about to make, and that one is still closed, so making it
closes none; and a caller that is let through has a breaker.

*The rate limiter.* What a key has used since any moment, plus what its bucket holds
now, is at most a full bucket and the refill since then, and for one moment
it is exactly that (`TightFor`). The first half bounds every stretch of time; the
second gives the stretch in which a refused request would have been one too many. A
clean-up that forgets a full bucket keeps both.

*Streams.* `TurnInv` says where the end of an answer is: not made yet, in the
handler's channel, in the terminal's second one, or read; and that what
is shown, what is in the channels and what is still to come are the answer's deltas in
one sequence (`InSequence`). What the consumer has read to the end leaves no
goroutine with work on the session.

*WhatsApp.* The queue is the rest of the arrivals from the message in hand on
(`QueueIsRest`); what was handled follows the order of arrival; and a message that
was handled more than once has a fault for every time but the first (`DoneOnce`).

*The terminal.* While an answer streams, the text shown so far is the text made so
far, and one that is saved is the session's last reply (`ReplyInv`). Counted from
the last one, the answers on the screen and the replies of the session that have a
text are the same ones, as far as both go (`ScreenInv`): the end of an answer adds
one to both, and a clear empties one of them. The history in
memory is what its file holds or what was loaded from it (`HistoryInv`), so a text typed
last is the end of what a restart loads, line by line. `Load` joins the lines of the texts with a fold;
`JoinExists`, `FlatIs` and `SuffixIs` say what such a join ends with.

*Background, loops, scheduler.* A command listed as running has its goroutine, and one
that ended has none, so nothing is left that could change its outcome. A loop that runs and was not cancelled is in the map, as is one
whose `Add` is counting, so a count taken without the lock sees every loop that runs.
Of the saves, `SaveInv`: one that no other overlapped has the tasks as they are,
or somebody who changed them is still going to save.

*Checkpoints and undo.* A snapshot in memory is what its id was last made of, and for an id
that was used once, what is on disk under a name no other path of it shares is that
content (`CopiesInv`); ids made again within a millisecond are excepted by the
property itself. For undo, the oldest record of a path holds what the path was at the
start, and a path without a record is as it was (`FirstRecords`). Undoing
everything is a recursive function over the history: that it has
one solution is shown by well-founded induction on the history's length, without an operator as a
parameter.

*Staged changes and git.* While `Apply` is at change n, the last of the changes
before n to a file is what the file holds, unless somebody else wrote it (`CarriedOut`).
For git, `Kept` says that a commit some branch led to is unchanged and has a branch that leads
to it still: a commit goes on top of what its branch held, a branch is deleted only when the current one
leads to it. What a stash was made on is such a commit (`Based`), so a file the
popped entry leaves alone is not lost with the entry. What `git_commit` has added of the files it
was asked for is in the index as in the working tree, unless it was disturbed
(`Added`). `Reach`, the commits behind one, is stated by closed sets, so that none of this
needs an induction along the parents.

*The stores.* Each has an invariant of its own, and a step of one leaves the
others alone (`UnusedStays`). The hook that is in force is the last
one its owner wrote, or lies in the `.bak` a move has just made (`HookInv`). An entry of the cache in memory is the one
in its file and among what was stored last, but for keys whose file could not be
written (`CacheInv`). Memories in their table are those in memory and those
acknowledged until the table is damaged, rows of SQLite have their own numbers
(`MemoryInv`), and no two facts are similar in either copy (`FactsInv`). A compacted context begins with its system
messages and goes on with an unbroken end of what was said (`Begins`); the path of a node is its parent's with
the node behind it (`Continues`).
For the budget, `Counts` says what the property says, and a record adds its tokens to the
sums of the spans it falls in: days grow, so a record of a new day or month is the
first of its span. `Within` counts who has left: a limit is passed by no more
than the requests that are not asking any more may use. Sums and the merging of facts are folds of the
community modules; a fold is defined with CHOOSE, and `SumExists`, `SumWith` and
`FoldsApart` show that the chosen function exists and what a further element adds, by
the least set that would be an exception.

*Types and limits of what is kept.* `Bounded` stands beside the invariants above. The hooks an
install has still to write are the end of the list it goes through (`EndsOrder`), a record is dated no later than today
(`DatedRecords`), and of the staged changes no more are there than were counted (`EachChangeCounts`).

*Requests in a vendor's form.* What has been appended for the first k messages of a
conversation holds the calls of all of them and one result for each message that is one
(`Kept`). The next message appends its own parts: calls under their
identifier, or under the function's name for Google, or one result, first in its message
(`Says`, one lemma per vendor). Its call is in an earlier message, so by `Kept` in an earlier part: the result
stands behind it (`KeptGrows`). That a result answers an earlier call of the conversation is assumed of the caller's
requests (`WireAssumption`): `CompleteWithTools` appends results only behind the message that called. `Conversation` goes through the
messages.

*Answers of a vendor.* While a stream runs, what the callback was shown is the text
so far, the first n texts; the calls that have begun are the first m, since a call's
fragments begin when those of the one before have (`ResponseInv`). What is collected at the end is those m in
order (`CollectedIs`): a prefix of the answer, and all of it where the stream ended.

*The chain.* `OwnModel` is inductive: `Ask` takes the equivalent of the caller's
model and not of the one asked last.

*Answering and the MCP server.* Requests that met no change of agent are in flight only with
others that met none, so all of them write the same list (`AnswerInv`). The n-th answer
is to the n-th line that asks for one.

*Permissions and hooks.* The user's denials stand before every other rule from the moment the
file is loaded, whatever is added behind (`DenialsFirst`), and the first rule that
matches decides. A round of hooks that holds the lock has heard exactly the hooks it
has passed that apply, in their order (`InOrder`); one that does not may run beside a change of the
list, and the property says of it what the code gives.

*Start and end.* The key of the process follows file, environment and dialogue through
the phases of the start (`KeyInv`); what is open, which channels serve and what the hooks
have heard follow the phase of the end (`SessionInv`).

*Agents, skills, plugins, servers.* An agent that no two changes overlapped on has at most one
change under way, and its file, backup and entry are what that change's step has
made of them (`Unconfused`). Of a name, a plugin or a server that is not `confused`, disk and
registry are what the place of the one who changes it says (`SkillsInv`). Sessions are numbered as they are
opened, so one that is gone is not opened again (`GoneInv`).

*The schema.* A process that is at version v of the migration finds 1 to v-1 in the
database, whoever applied them (`Ahead`); PostgreSQL's transaction makes a version and
its record one step.

*Chunks of a text.* `ChunkText` is a fold over the paragraphs. After each, the paragraphs of the
chunks that are closed, with those of the one under way behind them, are the written ones so
far (`AddKeeps`), and each chunk has a paragraph and the length it may have (`Fits`).

*The ingest command.* Of the chunks a run has tried, those it did not report are in the
table under the run's number, once, and no other run has that number (`IngestInv`).

*Searches.* The rows a search found are the first TopK by score, then the relevant
ones of these. A relevant row's better is relevant (`RelevanceGoesUp`), so either all
of the best are relevant, or all that are relevant are among the best: cut in either order, the
result is the same (`BestOfTheBest`). Scores are compared by cross-multiplication, as
fractions of natural numbers.

*Loops that append.* Folds and concatenations of the community modules are chosen functions. Each is shown
to be a run: a function of the number of rounds, with the value before and after each round
(`Runs`, `Joins`). What a run keeps is shown for the least number of rounds that
would break it (`LeastNumber`, `UpTo`); this needs no induction theorem with an
operator for a parameter, since sets can stand for predicates over numbers.

*Parts that do not move.* The instances let one part move in a behaviour; `PartsApart` and
its like turn the part's own theorem into one of the instance, the other parts being in their first
state.

*What the proofs found out about the models.* A CASE of `Background` (the end of a
command killed as it ended) and one of `Usage` (the level of an alert) had
overlapping arms, of which TLC takes the first. The sets of files in the
permissions' constants did not mean what they read like. The plugin manager's failing
copy was missing, and with several plugins the model had not said which of
two that share a skill's name is registered. A union in `Repository` was written so that the
prover and TLC read it differently. Each is corrected after the
code, and every run was done again.

*Only model-checked.*

* All liveness: `BreakerRecovers`, `BothEnd`, `NothingIsStuck`, `StoppedEnds`,
  `EveryRequestAnswered` (fairness and `ENABLED` are out of the prover's reach).
* The four counterexamples of section 3, which a run finds.

All 35 invariants and action properties of the passing runs are proved.

No module that holds or feeds a theorem uses a RECURSIVE operator.

## 6. What reading the code for the models turned up

Beside the four runs above, these differ from what a comment, a document or a
reader would expect; the models have the step, or the part is not modelled, and no
property states them.

* Sessions. A YAML file is truncated in place and skipped at start-up if torn
  (`store.go:208`): the session is lost. Two ids can give one file name
  (`store.go:193`) and the later save erases the other session, which
  `Isolation` allows. Sessions are per channel, while `README.md:20` promises a
  shared conversation. "Keep system messages" (`session.go:57`) has nothing to
  keep: no system message enters a window. Requests that meet a change of agent
  can get another agent's tools, or a list read past its end (`service.go:59`,
  `client.go:99`).
* Guards. The breaker's timeout runs from the last failure (`breaker.go:74`), not from the change of state
  (`:38`), and two first callers get two breakers (`:171`). `Limiter.Cleanup` has no caller. The fallback chain stops at a
  non-retriable error (`fallback.go:58`, against `README.md:81`), and a stream that fails
  after some text is followed by the whole text of the next provider (`:66-76`).
  Permissions and tool hooks guard nothing yet: the tool loop asks neither. A
  project's settings do not override a user's denial (`permissions.go:63` says
  they do). Registering a disabled hook enables it (`hooks.go:102`).
* Providers. The streams of Google and Ollama never look at the scanner's error
  (`google.go:168`, `ollama.go:151`), so a broken one ends like a whole one; and
  Ollama's drop tool calls. The models' property makes an exception of both.
* Tool calls. Streamed calls whose indexes have a gap are dropped after it
  (`client.go:276-278`); `EachCallOnce` is therefore about dense numbering. `MaxRetries` counts retries, not tries
  (`retry.go:18`, `:23`). `db_query` is on the read-only list
  (`parallel.go:67-73`) and can run statements that write (`dbquery/skills.go:61`),
  outside the hypothesis `ReadsOnlyRead`.
* Channels. The refusal of a request travels on the Done chunk, whose delta the SSE handler
  and the terminal drop (`handlers.go:194`, `model.go:384`). SSE sends a delta
  with a line break as it is (`handlers.go:199-200`): the client sees it cut.
  `/run` holds up the whole UI for up to 15 seconds (`commands.go:761`). An input of
  several lines comes back from the history file as several inputs.
* Jobs. The limit of concurrent background tasks counts ended ones
  (`tasks.go:48-49`). A task cleaned up before its goroutine opens its output
  leaves a stray file (`tasks.go:75`, `:182`). A tick starts a task that still
  runs (`scheduler.go:127`), and `scheduler_run` reports whichever run ended
  last (`:325`). The scheduler's file is written in place and the error of a torn one is
  ignored (`:96`, `main.go:478`). A loop can be refused although
  a place is free, and its map is read outside the lock (`loop.go:72-77`).
* Files. Two checkpoints in one millisecond share an id; two paths can share a
  copy's name; the first checkpoint after a restart replaces the index; a file
  that cannot be read is taken for a missing one and removed by a rewind or an
  undo, and one that cannot be written ends an undo half way, its action already
  off the history (`undoredo.go:89`). `Redo` moves the record back and changes no file ("Redo reapplies the
  last undone action", `undoredo.go:109`). A diff sandbox that fails half way
  keeps everything staged, and a second try fails at the first deletion already done
  (`diffsandbox/sandbox.go:139-173`).
* Git. `run` returns a failed command's words without an error
  (`git/skills.go:355-364`), so a `git add` that failed goes unnoticed and the commit
  holds what was in the index. A person's hook that
  says "Polypod" counts as the program's own and is overwritten or removed, one whose
  move to `.bak` failed is overwritten, and an uninstall brings no `.bak` back
  (`githook/hooks.go:99`, `:132-145`).
* Skills and agents. Removing the last skill of an agent offers it all skills (an empty
  list means all, `skill.go:58`, `selfmod/skills.go:136`). Registrations at
  start-up after the custom skills replace those of the same name. The maps of skills and
  agents have no lock. Connecting a server again forgets the old session, which
  nobody closes (`mcp/client.go`). A removed plugin's skills
  stay registered and answer with an empty text and no error (`plugin.go:239-241`); a
  disconnected server's stay too and answer with an error. A copy of a plugin that
fails half way leaves a directory that nothing lists (`plugin.go:132-139`). Two changes of an agent that
  overlap lose one of them; the backup is of the last change only.
* Stores. The budget resets a day in `Record` alone, so a limit reached yesterday
  refuses requests of today until one is recorded (`budget.go:95`). Memories of the file get
  their number from the length of the map, so numbers repeat after a deletion
  (`store_file.go:71`). A negative count makes `list_sessions` slice out of range
  (`persistence.go:148`). The index of sessions loses one of two overlapping
  updates. Summaries of an earlier compaction are dropped by the next one.
* Start-up. `.env.local` is meant to win over `.env` (`dotenv.go:12`), but what is
  set is not set again and `.env` is read first. `config.d` is merged and the result dropped
  (`main.go:221-226`). A missing API key ends the program in the validation
  (`configval/validate.go:31`, `main.go:229-234`), before the dialogue that would
  ask for it (`setup/apikey.go:58`), which only a key the vendor refuses reaches.
* Knowledge. `ingest` migrates SQLite and not PostgreSQL (`cmd/ingest/main.go:91`),
  and the same file twice is stored twice. Lengths are counted in bytes here and in
  characters there, so a chunk can exceed its size.

## 7. Plan

Done: every component with state that the program's own code drives (section 1),
the refinement of `Windows`, and proofs of all 35 invariants and action
properties that the runs check. What is left, in order of worth:

1. Abstract specifications: an at-least-once queue that `WhatsApp` implements; a
   sequential executor that `Parallel` implements, by the invariant already
   proved; a registry that follows its files, which `Skills` and `Agents`
   implement where changes do not overlap.
2. Should the program come to use them: permissions and hooks inside the tool
   loop, breakers around the fallback chain, checkpoints around the skills that
   write, the file watcher. Each composes two modules that exist.

Runs and properties stay few: a new component joins a run of components it shares
nothing with, and its property a conjunction about the same question.
