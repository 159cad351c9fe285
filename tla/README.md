# Animaya in TLA+

Animaya is a personal assistant: a Python process (the *engine*) that runs installable modules, the
Telegram bridge first of all, and a Next.js dashboard in front of it. This directory holds TLA+
modules translated from its source, TLC configurations that check them on small instances, and
proofs for TLAPS. `PROJECT.json` maps every definition to its lines.

## 1. Inventory

| Component | State | Operations | Hard behaviour | Properties | Here |
|---|---|---|---|---|---|
| Job runner, `bot/engine/modules_jobs.py` | `_jobs`, `_lock` | start_install, start_uninstall, the job tasks | the lock is tested in one step and taken in another; an install runs in a thread | jobs are serial, end, and report the truth | `ModuleLifecycle` |
| Install / uninstall, `bot/modules/lifecycle.py` | owned paths in the hub | install, rollback, uninstall | scripts that fail half-way, on_stop awaited between check and removal, crashes | dependencies stay installed | `ModuleLifecycle` |
| Registry, `registry.py` | `registry.json` | add, remove, rewrite | read-modify-write by loop, thread and command line through one temporary file | no entry is lost, the file is whole | `ModuleLifecycle`, `ModuleCatalog`, `RegistryFile`, `AtomicRegistry` |
| Supervisor, `supervisor.py` | `_handles` | start_all, stop_all | snapshots held across awaits | runs only what is installed; stop order | `ModuleLifecycle` |
| Assembler, `assembler.py` | `CLAUDE.md` | assemble | written from an older read; crash before it | agrees with the registry | `ModuleLifecycle` |
| Engine process, `bot/main.py` | phase | boot, shutdown | requests are served during start_all; crash; a thread outlives the loop | recovery | `ModuleLifecycle`, `BridgeClaim`, `BridgeConfig` |
| Bridge ownership, `telegram_bridge_state.py`, `bridge_rpc.py`, `telegram.py` | `state.json` | claim, revoke, regenerate, toggle, the claim handler, the owner gate, greeting, seed, purge | writers that hold a reading across an await; queued updates; crash between attempt and check | only a proven owner; bounded guesses | `BridgeClaim` |
| Bridge token, `bridge_rpc.py`, `supervisor.py`, `main.py` | config.json, registry entry, environment | seed, set_token, install, uninstall, boot migration | three sources, await between check and write, crash between the migration's writes | a bridge has its own tokens only | `BridgeConfig` |
| Owner turns, `owner_lock.py`, `chat_stream.py` | locks, generators | acquire, stream, hang up | disconnects in mid-stream, heartbeats, generators nobody finishes | one run per owner, in order; complete answers | `OwnerTurns`, `TurnQueue` |
| Streamed answer, `telegram.py` | status message, text so far | text, tool, finalise | throttle, message limit, failing calls | the chat holds the answer once | `ReplyStream` |
| Chat client, `use-sse.ts`, `chat-panel.tsx` | status, events, controller | submit, retry, abort | continuations of an aborted send run late | frames of one turn; the input comes back | `ChatClient` |
| Git versioning, `git_versioning.py` | index and history, `_COMMIT_LOCK` | commit_if_changed, commit_loop | timeouts, cancellation, foreign staged files | edits are committed | `AutoCommit` |
| Language, `lang.py`, `lang_bust.py` | `_CACHE` | get_user_lang, lang_bust | evictions lost, late or repeated | not stale after an eviction | `LanguageCache` |
| Event log, `events.py` | `events.log` | emit, tail, rotate | append during rotation, torn lines | nothing lost in silence | `EventLog` |
| Memory search, `memory/search.py` | sidecar files | chunk, index, search | concurrent indexers, edits under way | never a mixture; catches up | `EmbeddingIndex` |
| Consolidation, Claude query, manifests, views, authentication, pages, media, scripts | see section 6 | | | | not modelled |

How they interact: the dashboard calls the engine over HTTP (`/engine/...`). A module request makes
a job; a job runs install or uninstall, which write the registry and reassemble `CLAUDE.md`;
uninstall awaits the module's on_stop through the supervisor's handles. The bridge is a module: its
handlers and the bridge requests share `state.json`, which uninstall purges, and its token has three
sources, one of them its registry entry. The chat panel posts a turn; the engine queues it behind
the owner's other turns and streams the answer of a Claude run; a Telegram message starts such a run
as well and shows the answer by editing messages. Language, event log, commits and search index are
services on their own.

All Python actors but one live on one asyncio loop: code between two awaits is atomic with respect
to the loop. The exception is the thread of an install job, which interleaves with the loop at every
file access. Other processes (the command line, git, an indexer started by Claude) interleave
anywhere. Everything may be interrupted by a crash; files survive.

## 2. Modules

**`ModuleCatalog`** is the abstract specification of the registry: a set of installed modules that
changes one module at a time and never contains a module without its dependencies.

**`ModuleLifecycle`** models the engine process. An action is the code between two awaits (on the
loop) or between two accesses of a shared file (in the thread).

| Variable | Code | Changed by |
|---|---|---|
| `registry`, `hub`, `prompts` | `registry.json`, owned paths, sections of `CLAUDE.md` | the thread, `Teardown`, `Save...`, `Boot` |
| `phase`, `pending` | where `_run` is; what start_all / stop_all has left | `Boot`, `StartNext`, `BeginShutdown`, `StopNext`, `Exit`, `Drained`, `Crash` |
| `jobs`, `locked`, `queue` | `_jobs`, `_lock`, the tasks in the order in which they get the lock | `Start...`, `Enter`, `Finish`, `ReleaseLock` |
| `thread` | progress and local registry copy of `lifecycle.install` | `CheckInstall` ... `PublishPrompts` |
| `save` | save_config between its file accesses; the loop runs nothing else meanwhile | `SaveConfig` ... `SavePublish` |
| `handles`, `live` | `Supervisor._handles`; which instances run | `StartNext`, `StopNext`, `FinishUninstall` |

A job is accepted by `StartInstall` / `StartUninstall`, which only test the lock. `RunInstall` takes
it and starts the thread; `FinishInstall` is the coroutine's continuation. An uninstall is one step
(`UninstallStopped`, `RejectUninstall`) unless the module runs: then `AwaitOnStop` and
`FinishUninstall`. `Exit` is the end of `asyncio.run`: jobs are cancelled and a running install
thread is waited for (`draining`). `Overlap` says which of the operator's actions may come at a bad
time: requests while start_all is running (`"boot"`), config saves during an install (`"config"`).

**`RegistryFile`** looks into one step of `ModuleLifecycle`, the write of the registry: `ReadList`,
`OpenTemp` (which empties a temporary file that exists), `WriteTemp` and `Replace` are the system
calls of two writers; `content` is what each file holds, `registry` and `temp` are names. A text is
the list it begins with and its length, so that a short text over a longer one is told apart from a
whole one. The writers are the loop or the install thread on the one side and the command line on
the other, or the loop and the thread; `state.json`, `CLAUDE.md` and `config.json` are written by
the same three calls.

**`AtomicRegistry`** is what such a file promises, and what `ModuleLifecycle` takes a write for: a
list that is replaced in one step, by one that a writer has made of the list it read. `RegistryFile`
implements it as long as no two writers have clashed in the temporary file: the list is what a
reader gets (an unreadable file is no list), a writer holds a list from its read to its rename, and
the opening and the writing of the temporary file are stutters.

**`BridgeClaim`** models `state.json` of the bridge (`file`) with all its writers: requests
(`GenerateCode`, `RevokeCode`, `ToggleRequest`/`ToggleWrite` around the await of the body;
set_policy has the same shape), updates (`TakeUpdate` with `CountAttempt`, then `AcceptCode` or
`RejectCode`, `GateAfterReply`, `EndTurn`, `EndGreeting`), the environment seed in `Boot`, uninstall
(`BeginUninstall`, `RemoveEntry`, `PurgeState`), shutdown and crash. `stage = "verify"` and `removal
= "purge"` lie inside synchronous code: no other step of the loop is possible there, a crash is.
Pairing codes are numbers, a message is a code, six wrong digits, or chat. `tried`, `seeded` and
`torn` are history variables.

**`BridgeConfig`** models where the bot's token comes from: `entry` (registry), `configFile` (per
module directory) and `env`. A boot is `StartBoot`, `MigrateRename`, `SeedToken`, `BeginStart`,
`FinishStart`, with `Halt` between any two; the dashboard is `InstallBridge`, `RemoveBridge` and
`PurgeConfig` (the two halves of an uninstall), `RequestToken` and `FinishToken` (set_token around
its await of Telegram) and `ReplaceConfig` (save_config). `BeginStart` reads the entry and the token
and awaits Telegram (`starting`); requests are served from there on. An uninstall in that window has
no handle to stop, and `FinishStart` looks at nothing again: the bridge then polls without an entry,
with a token of no installation (`orphaned`).

**`TurnQueue`** is what the owner lock promises: the turns of an owner form a line and are served
one at a time from its front; a turn may leave from any place.

**`OwnerTurns`** models it: `at` says where the generator of stream_chat is, `holder` and `waiters`
are the owner's `asyncio.Lock`, `pull` is `next_task`, `run` the Claude run behind it, `frames` what
went to the client. `Request`, `Resume`, `Frame`, `Ping`, `Continue`, `Finish`, `Close` are the
turn; `HangUp...` is the client's disconnection, which cancels a generator that awaits and does not
reach one that is suspended in a yield; `Finalise` and `Collect` are Python's garbage collector,
which closes an abandoned generator: the `finally` clause yields an end frame instead of ending
(chat_stream.py:119), so the lock stays taken until it is collected for good. A Telegram turn is one
action each for begin and end: the bridge's own lock per user never has a waiter, since updates are
processed one by one and the "Queued" branch (telegram.py:118-130) is never reached.

**`ReplyStream`** models how the Telegram bridge shows an answer: `messages` is the chat, `status`
the place of the message being edited, `start` where the current segment begins. `TextBlock`,
`ToolUse`, the `End...` actions, `SendChunk` and `ReportError` each with every outcome of the
Telegram calls in them; `faults` records what went wrong.

**`ChatClient`** models the hook and the panel in the browser: `sending` and `try` are where the
`send` of each turn is, `aborted` its AbortController, `events` what is shown. JavaScript runs a
handler to its end, so `Submit` (with the abort of the last send) is one action, and the
continuations of the aborted one (`EndQuietly`, `EndReading`) come after it.

**`AutoCommit`** (git commands in `commit_if_changed`, `CancelLoop`, an `orphan` git whose caller is
gone, a killed git that leaves `index.lock`: `stuck`), **`LanguageCache`** (`get_user_lang` blocks
the loop while voidnet answers; ages in ticks), **`EventLog`** (a process holds the file it has
opened while rotate replaces it; `decodes` says whether all its bytes are characters) and
**`EmbeddingIndex`** (`chunk_markdown` as recursion over block lengths; `index_file` between its
reading of the text and its writing of the sidecar) are the services. **`MCServices`** puts them,
`BridgeConfig`, `ReplyStream`, `RegistryFile` and `ChatClient` into one run: they share no state, so
a behaviour picks one (`focus`) and the others rest.

The `...Proofs` modules hold the proofs of section 4: one for each of `ModuleLifecycle`,
`BridgeClaim` and `OwnerTurns`; `SharedFileProofs` is about the two files that processes write
without a lock (`RegistryFile`, `EventLog`), `SettingsProofs` about the two settings that are kept
in several places (`BridgeConfig`, `LanguageCache`), `AnswerProofs` about the two places where an
answer is shown (`ChatClient`, `ReplyStream`), `KnowledgeProofs` about what is kept of knowledge and
memory (`AutoCommit`, `EmbeddingIndex`), and `ServicesProofs` puts the last four together as
`MCServices` does. The inductive invariants stand in the modules they are about, so that TLC can
check them there.

The `MC...` modules declare model values and definitions for TLC. A definition named `Fault...` is
not part of a model: it is the definition after it with a plausible bug, and is put in its place to
show that a property can fail.

## 3. Runs

| Run | Question | Instance and why it is enough |
|---|---|---|
| `lifecycle` | Without overlap, do handles, `CLAUDE.md` and reports agree with the registry, does a dependent always stop first, does every job end? | `addon` depends on `base`, both have a runtime, 2 jobs: one running and one waiting |
| `lifecycle_overlap` | What survives requests during boot and saves during installs? | 3 jobs (one ahead, one running, one waiting, and retention has something to evict); job ids are symmetric |
| `bridge_claim` | Who can become owner, how many guesses are there, what does an uninstall leave? | 2 users, 2 codes (an old one and the last one), cap 2, a queue of 1 besides the update in progress; a boot may find `bob` or nobody in the environment |
| `owner_turns` | Are the turns of an owner serial, in order, complete and served, whoever hangs up? | 3 streams of one owner: one in the lock, two waiting, so that one of them can leave from the middle; 2 events, so that one follows another |
| `services` | Do the services keep their promises? | 2 tokens; 1 user, 2 changes of his language and a time to live of 2 ticks; 2 processes that write 5 records and keep 2 lines; 2 edits, 1 failure of git and 2 callers; texts whose blocks touch every branch of the chunker at its limit, 2 indexers; 5 units in messages of 2, 2 tools: a segment may need one message, several, or be cut; 2 writers of `registry.json`, 2 modules (texts of three lengths, and an edit to lose) and 3 files (the two named ones and one a writer still has open); 3 turns of the chat (an aborted one, its successor, and one after that) with 2 frames |
| `registry_clash` | expected violation: can `registry.json` be read when nobody writes it? | as `services` |
| `boot_orphan` | expected violation: handles while start_all awaits | requests during boot |
| `lost_install` | expected violation: is a done install in the registry? | saves during an install |
| `bridge_reseed` | expected violation: is the environment ignored after the seed? | as `bridge_claim` |
| `bridge_token` | expected violation: does the saved token run after a reload? | as `services` |
| `corrupt_log` | expected violation: are the other records reported when one line is corrupt? | as `services` |
| `owner_overlap` | expected violation: do a web turn and a Telegram turn of an owner overlap? | as `owner_turns` |

`lifecycle`, `bridge_claim` and `owner_turns` also check `IInv`, and `services` checks
`ServicesInv`: the inductive invariants of section 4, on the instances of the table.

`MaxCodes`, `MaxInbox`, `MaxEvents`, `MaxTurns`, `MaxFrames`, `MaxChanges`, `MaxRecords`,
`MaxEdits`, `MaxFailures`, `MaxUnits` and `MaxTools` bound counters in the guards; `JobId` bounds
the jobs known at one time (ids are reused after eviction), `Inode` the files on the disk. In
`services` no edit of the registry begins after a clash (`InRegistry`): `WholeUnlessClash`,
`EditsKept` and `ImplementsRegistry` promise nothing from then on. A real pairing code has 5
attempts; the cap is a constant, and the proofs hold for any. Deadlock is checked in `lifecycle`,
`lifecycle_overlap`, `bridge_claim` and `owner_turns`. It is not in `services`, whose parts stop at
their bounds or when the turn or the page is over, and where a registry that cannot be read really
stops every writer.

### What the violations show

* **Orphan at boot.** start_all starts modules from a snapshot while requests are served. A module
  uninstalled during an await is started, or keeps its handle, without a registry entry. With the
  bridge this means a bot that polls with the token of an installation that is gone; in
  `BridgeConfig` that is `orphaned`, and `TokensOfThisBridge` exempts it.
* **Lost install.** A config save and an install both read, change and write `registry.json`; the
  save may put the old list back, while the job reports `done`.
* **Seed again.** After a regenerated code the next boot seeds the environment's owner again,
  although `main.py:115` says the variable is ignored after the first seed.
* **Saved token.** set_token writes the registry entry, but `config.json`, seeded from the
  environment at a boot, is read first: the token of the dashboard is never used.
* **Overlap of turns.** The bridge does not take the owner lock (it has one of its own, keyed by the
  Telegram user), so the turns of the two channels overlap, which `chat_stream.py:12-13` excludes.
* **Corrupt log.** Records are not escaped to ASCII (`events.py:75`). One that is torn inside a
  multibyte character makes `read_text` raise for the whole file: tail reports nothing, although
  `events.py:83` says that corrupt lines are skipped, and every rotation fails, so nothing repairs
  it. `RecentReported` says what is true while the file can be decoded.
* **Clash of writers.** All writers open the same `registry.json.tmp`: one that renames it while
  another has just emptied it publishes an empty file. If the other one then fails or dies, it stays
  empty and every reader and writer raises from then on, although `registry.py:6` calls all writes
  atomic. `WholeUnlessClash` and `ImplementsRegistry` say what is true without such a clash.

Other observations have no run of their own. `modules_jobs.py:3-5` promises an error for a second
concurrent request; the lock is taken later than it is tested, so two requests in a row are both
accepted, and executed one by one (`SerialJobs`, proved). Revoke changes next to nothing:
`revoke_code` (`bridge_rpc.py:105`) pops `pairing_code` and `pairing_expires_at`, which nothing
writes, and keeps status, owner and the hash of an open code, although the design (`09-CONTEXT.md`,
D-9.11) says "owner_id cleared" and the dashboard reports "Bridge revoked". The commit of
`git_versioning.py:96` has no path: files that were staged outside `knowledge/` are committed too,
although the docstring (lines 9-10) says that path-scoped operations "ensure only declared scope is
touched"; `GitCommit` models it. The retry of a failed chat turn streams its answer with status
`error`: the input is enabled (`chat-panel.tsx:15` says it is not), a turn submitted then aborts it,
and is told `error` by the aborted one while its own answer streams (`InputHeld`: not before the
first retry). `modules_jobs.py:10-12` says uninstall is dispatched to a thread; it runs on the loop.
A rejected re-install of an installed module reports rollback `dirty`, because the owned paths of
the installed one exist. After a hang-up on a suspended stream the owner lock is held until Python
collects the generator, though `app/api/chat/stream/route.ts:57-60` expects it to be released; a
Claude process being stopped may then overlap the next run (`run = "stopping"`). Streams that wait
for the lock send no heartbeats. set_token answers ok for a bridge that was uninstalled meanwhile. A
migrated bridge keeps its old module directory in its entry: if that is missing and the environment
has a token, every boot fails. The event log does not escape U+2028 and U+0085, which `splitlines()`
splits at. A text of more than 4096 characters before a tool is cut (`"cut"`), and the failed edit
that closes a segment loses it in silence (`"edit"`). The sidecar of a file that was emptied or
deleted stays and is still searched. Saving a module's configuration sends back what the engine
redacted (`[REDACTED]`), and the dashboard's `session_key` with it.

### Fairness

`lifecycle`: weak fairness of each job's steps, of start_all, stop_all, exit and the drain.
asyncio's loop is first-in first-out and its lock wakes waiters in order. That a module's scripts
and hooks return is an assumption about the module: `_run_script` sets no timeout, so a script that
hangs keeps the lock (and in an uninstall the loop) until the process is killed. Requests, saves,
shutdown and crashes are not fair.
`bridge_claim`: weak fairness of the handlers, of the drain and of the rest of an uninstall: calls
to Telegram and Claude end with an answer or an error. Nothing is assumed of users.
`owner_turns`: weak fairness of Claude (the bound on events ends an answer), of the loop's
continuations, of the collector, and of a client, which takes its frame or hangs up; no request and
no hang-up in the queue has to come.
`services`: `AutoCommit` assumes that the loop's sleep ends and that git returns or is killed; a
task's step is strongly fair because the commit lock (first come, first served) and git's lock file
may be taken by another in between. `EmbeddingIndex` assumes that somebody goes on indexing and that
the embedding service answers again and again (strong fairness of `EndIndex`), since nothing retries
by itself. `ChatClient` assumes weak fairness of the network for each turn (it answers, refuses or
breaks: the heartbeats of the engine let the connection notice) and of the browser's timers and
continuations, and nothing of the user. The other services have no liveness property.

## 4. Proofs

TLAPS proves what follows for every value of the constants. The assumptions are the types of the
constants, named in the modules (`CatalogAssumption`, `RuntimeAssumption`, `OverlapAssumption`,
`UserAssumption`, `BoundAssumption`, `ConstAssumption`, `DiskAssumption`, `EventAssumption`,
`CommitAssumption`, `LangAssumption`, `ChatAssumption`, `ReplyAssumption`, `SearchAssumption`);
among them are that a rotation keeps at least one line, that a message holds at least one unit, that
every writer of `registry.json` belongs to a process and that the catalog is finite. Each invariant
below is proved by three facts: it holds initially, every action keeps it, and it implies the
property. TLC has checked it before, and again in the runs named above.

**Hypotheses.** Four theorems about the lifecycle have one. `HandlesStayRegistered` and
`DependentsStopFirst` suppose `"boot" \notin Overlap`, `PromptsStayCurrent` and `OutcomesAreTrue`
suppose `"config" \notin Overlap`. They are the conditions under which the code is right: the runs
`boot_orphan` and `lost_install` break the first and the last of the four where the hypothesis is
false. Everything else holds for every `Overlap`.

`ModuleLifecycleProofs`
* `Inductive`: `Spec => []IInv`, with `TypeCorrect`, `JobsAreSerial`, `DependenciesHold` from it.
* `HandlesStayRegistered`, `PromptsStayCurrent`: invariants. `DependentsStopFirst`,
  `OutcomesAreTrue`: action properties.
* `CatalogImplemented`: `Spec => Catalog!Spec`.

`DependenciesFirst` is not inductive: uninstall removes an entry without looking again after it
awaited on_stop (`RemovalInv`: what it checked is still so, because the lock keeps other jobs out),
install writes a list it read earlier (`RegistryInv`: its copy is current at the write, because the
loop cannot be in a save's read-write window and, if it is, the copy the save will write differs
from the registry by this install's entry at most). The queue, lock and phase facts (`JobsInv`) give
mutual exclusion. A racing save can therefore drop only the newest entry, on which nothing depends
yet: this is why the catalog is implemented even under `Overlap`.

What runs needs more: every instance that runs has a handle (`RunInv`), start_all and
stop_all go through the registry in its order, so that what they have still before them is a part
of it and what they have stopped is a tail (`HandlesInv`), which orders the stops of dependents.
`CLAUDE.md` may be behind the registry only while somebody who holds the lock, the process's loop or
a boot is about to write it (`PromptsInv`).

`BridgeClaimProofs`
* `Inductive`: `Spec => []IInv`, with `TypeCorrect`, `GuessesAreBounded`, `UninstallRevokes` and
  `OnlyOwnerIsAnswered`.
* `OwnershipIsProven`: the action property `OwnerProven`.

`IInv` adds that synchronous stretches exclude each other (`LoopInv`), that the file knows no code
but the last one (`CodeInv`), that every comparison was counted in the file before it was made
(`AttemptInv`), which is what makes the bound survive crashes, and that a claimed file always names
an owner (`OwnerInv`): the gate would let everybody pass without one.

`OwnerTurnsProofs`
* `Inductive`: `Spec => []IInv`, and `RunsAreSerial` from it.
* `AnswersAreComplete`: `Spec => []AnswersComplete`.
* `QueueImplemented`: `Spec => TQ!Spec`, the refinement of `TurnQueue`.
* `FirstComeFirstServed`: `Spec => []TQ!OnceInLine /\ TQ!NobodyOvertakes`, which follows from it.

Mutual exclusion of runs needs the books of the lock: a stream is an owner's holder exactly while
its generator is suspended inside the lock (`HoldersHold`), stands once in the queue of its owner
exactly while it waits (`WaitersWait`, `WaitingQueued`), and its run goes on only while it holds the
lock (`RunsHold`, which says that neither `Close` nor a hang-up in the queue leaves a run behind).
The lemmas `Dequeue` and `Enqueue` carry the queue facts over a removal from any place.
`AnswersComplete` is not inductive either: the strengthening (`FramesInv`) says that in the loop
everything the run has produced is in a frame or in the finished `next_task`, which is where a
heartbeat that restarted the task would lose an event. The refinement maps an owner's line to its
holder followed by the waiters; the two steps that do not map at sight are a hang-up in the queue (a
removal from the middle) and the hand-over of the lock to the first waiter (a stutter of the line).
What the order of a line is good for is proved of the abstract steps only (`QueueKeeps`): joining at
the end and leaving from any place keep those who stay in their order (`AppendKeeps`,
`ShorterKeeps`), and a turn being served cannot be the one that gives up.

`SharedFileProofs`
* `RegistryInductive` (`FileInv`), with `WholeWithoutClash` and `EditsAreKept`.
* `RegistryImplemented`: `FileSpec => Atomic!Spec`, the refinement of `AtomicRegistry`.
* `LogInductive` (`EventInv`), with `TailIsInOrder` and `RecentIsReported`.

A reader of `registry.json` finds a whole text because, before a clash, at most one writer has the
temporary file open (`OneInTemp`) and what is in it is empty or what that writer means
(`TempKnown`); an edit is kept because the list in a writer's hands is the current one changed by
its edit (`EditKnown`). The same facts carry the refinement: what happens in the temporary file is
not seen (`TempUnseen`), because it is never the file called `registry.json`, and what the rename
publishes is the list in its writer's hands (`ReplaceAtomic`). The log's properties are about the
file and are kept by a rotation because the same invariant (`LogInv`) holds of the copy it has read:
records stand in order, a torn line is the last one and does not parse, and what was written
undisturbed is there or is older than a full file. It is there even if the file cannot be decoded;
that it is reported needs `decodes`, the premise of `RecentReported`. A torn line that gets the next
record is spoilt already, so joining to it changes none.

`SettingsProofs`
* `BridgeInductive` (`BridgeInv`), with `TokensStayWithInstall` and `MigrationComesFirst`.

The entry's shape (`EntryShape`) and the progress of the boot (`BootMigrates`) say which of the
three sources the bridge reads; every token in them was given to this installation
(`TokensGiven`), also between the two halves of an uninstall, unless a crash tore them apart. The
same is said of the token the bridge is being started or polls with, unless the bridge was
uninstalled in the middle of its start; `PollingKnown` adds that nothing else makes it poll without
an entry.

* `LangInductive` (`LangInv`), with `EvictedStaysFresh`; `StalenessIsBounded`, an action property.

The invariant compares the age of what a request has seen, and of what is cached, with the age of
the last change (`SeenIsFresh`, `AgesKnown`), and ties an eviction to the change it announces
(`BustsOfChanges`).

`KnowledgeProofs`
* `CommitInductive` (`CommitInv`), with `LastTryCommits`.

The lock and git's own lock file together keep the index between its two writers (`CommitLocked`),
the versions are ordered (`VersionsOrdered`), a commit under way has a change of `knowledge/`
(`CommitHasChange`; it may have foreign files as well), and the last try carries what was promised
to the index and on (`FinalUnderWay`).

* `SearchInductive` (`SearchInv`), with `FoundIsWhole`; `ChunksDivide`, about `chunk_markdown`.

The sidecar holds the chunks of the version whose hash it names, and a process that indexes has read
a version: so a search never mixes two. That the chunks of a version are the whole of it
(`ChunksDivide`) is an induction over its blocks: after each of them the chunks divide up what comes
before the buffer, and the buffer holds the rest (`Kept`, kept by `AddBlockKept`). The provers
cannot instantiate the library's induction theorems, so the induction is one over sets of numbers
(`LeastElement`, `UpTo`), and a definition by recursion is shown to exist from its step as a
function (`Recursion`, then `LengthDef` and `ChunksDef`).

`AnswerProofs`
* `ChatInductive` (`ChatInv`), with `FramesInOrder` and `InputIsHeld`; `OnlyLatestPosted`, an action
  property.
* `ReplyInductive` (`ReplyInv`), with `AnswerIsShown` and `NothingIsTwice`.

In the panel only the latest turn can be alive (`AliveIsLatest`), and its frames are those of one
attempt after those of the one before (`TriesInOrder`). Before the first retry a send can be aborted
in its wait only (`AbortedWaits`), so nothing is left that could open the input under a turn that
streams. In Telegram the status message is the last
one and shows units of the current segment only, what is above it shows units of the closed ones
(`SegmentOpen`); the chat is in order as long as no send or delete failed (`OrderKept`), and misses
nothing as long as nothing failed and no segment was cut (`NoneMissing`).

`ServicesProofs`
* `ServicesUndisturbed`: a behaviour of `MCServices` is one of each service.
* `ServicesHold`: `Spec => []ServicesInv`.

Both follow from one lemma: a step in which one service has the focus is a step of that service and
a stutter of every other one (`ServicesStep`). The fairness of the composition is not needed.

Some properties are stated so that they can be reasoned about: "in order and once" is said by
quantifiers over places (`TailInOrder`, `AnswerShown`, `NothingTwice`, `FoundWhole`) or by counting
(`ShownInOrder`), and not by filtering or flattening a sequence.

Only model-checked: the liveness properties (`JobsEnd`, `UninstallEnds`, `EveryoneServed`,
`InputReturns`, `EditsCommitted`, `IndexCatchesUp`), which are out of the prover's reach. Every
invariant and every other action property of the runs that pass is a theorem.

## 5. Abstractions

* Module directories exist and ship with the repository; validation of a manifest is one
  nondeterministic failure. A module's owned paths are there or not, as one. Every module owns some.
  `depends` does not change between versions of a manifest.
* Failures of the assembler's own I/O are swallowed in the code and are not modelled.
* on_stop always stops an instance (its errors are swallowed); on_start returns a handle or raises.
* No route calls `get_job`, so jobs are evicted only at a job's end (`Finish`).
* Telegram updates are processed one by one in order (the library's default), `stop()` waits for the
  fetched ones; of two overlapping calls of on_stop one returns early. In `BridgeClaim` the awaits
  of start_all are part of `Boot`: updates come only after them, and an orphaned bridge finds no
  open code in `state.json`.
* `Admitted` leaves out that a bridge without a `module_dir` lets everybody pass
  (`telegram.py:895-897`): the shipped module always has one while it has an entry.
* Two codes never have the same digits or hash. Attempts are told apart only up to the cap.
* A crash between remove_entry and the purge leaves the owner in `state.json` and the token in
  `config.json` (`UninstalledOwnerless` and `TokensOfThisBridge` exclude it by `torn`); nothing
  repairs it.
* In `BridgeConfig` starting the bridge succeeds or not, whatever the token, and the bridge is the
  only module with a runtime, so nothing is awaited before its start;
  `seed_bridge_token_from_env` is called by tests only and left out. An entry of the old name lacks
  the field `runtime_entry`, or has it: one that holds null would keep it (`registry.py:159`,
  setdefault), and the bridge would never start.
* `StopsDependentsFirst` counts a module as stopped by `StopNext` while the on_stop that an
  uninstall has called still drains.
* In `RegistryFile` all entries are equally long, and the text goes to the disk in one write; what
  is written is what was read and one edit.
* The dashboard's only session key is `web:<id>`; owners in `OwnerTurns` are what follows the colon.
  Heartbeats are no data frames.
* In `ReplyStream` the throttle is a choice at each block; the conversion to HTML (and what it does
  to a text's length), files that are sent along and the labels of tools are left out.
* In `ChatClient` the effects of React run before the next input; the delay of a retry has no
  length; a missing end frame counts as the end, as in the code.
* In `EmbeddingIndex` lengths are those after `strip()`; a piece of a long block that is nothing but
  blanks is kept, while the code drops it. Vectors are left out: a chunk's vector is reused for the
  same text whatever model made it, and a service that returns fewer vectors than asked leaves
  chunks unembedded under a current hash. Search's own removal of hits with the same first 100
  characters is left out with the ranking.
* `AutoCommit` models the loop as written; nothing in the process starts it at this commit. The
  check that `.git` is a directory is left out: the hub is a repository.
* A signature in `LanguageCache` is valid or too old. The Telegram id and the voidnet id of a user
  are one. A request to voidnet takes at most `FetchTime`: httpx's timeouts are per read, so this is
  an assumption about voidnet, and `StaleBounded` depends on it.
* Some properties say what holds short of a fault that is modelled and recorded in a history
  variable: `torn` (`UninstalledOwnerless`, `TokensOfThisBridge`), `orphaned`
  (`TokensOfThisBridge`), `exposed` (`RecentReported`), `faults` (`AnswerShown`, `NothingTwice`),
  `troubled` (`FinalCommit`), `clashed` (`WholeUnlessClash`,
  `ImplementsRegistry`), `overlapped` (`EditsKept`). What the fault itself does is described
  in section 3.

## 6. Not modelled

* **Memory consolidation**: a counter per chat starts a Claude run that edits `CORE.md` with its own
  tools. Overlapping runs are possible; what they do to the file is Claude's choice.
* **Claude query**: builds the options of a run. **Manifests and views**: pure validation and
  rendering.
* **Form coercion and validation** (`modules_forms.coerce`, `validate`): no route calls them;
  `update_config` saves the body as it is.
* **Dashboard authentication**: checks inside one request; the cached owner id is written once per
  process.
* **Pages, hub tree, media features, scripts**: I/O and rendering.
* Within modelled components: a job's log capture, `migrate_drop_memory`, the dashboard child
  process, `start_module` (no caller).

## 7. Plan

1. *Done*: the lifecycle and its catalog, the claim, the token, the turns and their queue, the
   streamed answer, the registry's file, the chat client, the services; invariants of the first
   three big ones proved.
2. *Done*: theorems about every safety property of the passing runs, the three refinements
   included, and about what the queue's line is good for.
3. Next: an abstract claim of a bot (unclaimed, pending, claimed) that `BridgeClaim` implements, and
   `AtomicRegistry` as an abstraction of `state.json` and `config.json`, which are written alike.
4. Candidates for more: the parser of event frames, path resolution of the hub tree and session keys
   against reference definitions.
