# comemory: specifications, model checks and proofs

comemory keeps a developer's memories as markdown files with a SQLite mirror, and
exchanges them with a hub so that several machines hold the same ones. This directory
models the parts of it where several actors, crashes and lost messages meet: how a
memory is written, what happens to it when it is erased and when backups come back,
how memories travel between machines and under whose key, and the processes that stay
resident to do it. Source paths below are relative to the repository (`src/domains/...`
is the Rust crate).

## 1. Inventory

| Component | State it keeps | Operations | Interacts through | What is hard | What makes it correct |
| --- | --- | --- | --- | --- | --- |
| **Memory write path** `src/domains/memories`, `src/store/memory_*.rs`, `replica_journal.rs` | markdown in `memories/` and `.trash/`; the `memories` row; `memory_write_intent`; `replica_revision`, `replica_feed`; `memory-save.lock` | save, delete, patch, restore, refresh-refs, start-up reconciliation | files and one database shared by every process of a data directory | two commands and a reconciliation interleave; a kill between file, row and journal; giving up on the lock | file, row and journal tell one story; nothing is announced that is not on disk; an intent is finished or dropped exactly once |
| **Retention** `src/domains/maintenance/gc.rs`, `prune.rs` | trash mtimes, `deleted_at` | gc sweep and purge, prune with its heal | the write path's files and rows, without its lock | decides from state other commands are changing | collects nothing that is live again |
| **Erase and identity ledger** `src/domains/maintenance/erase*.rs`, `src/domains/sync/replica/identity*.rs`, `erasure_manifest.rs` | barred digests, `replica/erasures.jsonl`, `replica/identity.json`, the epoch and count a database carries | erase, admission of a request, repair of a mismatch | journal, exchange, restore | four stores written one after the other; the manifest may be found older | erased bytes never come back, whatever is restored |
| **Backup, restore swap, rebuild** `src/domains/maintenance/backup*.rs`, `rebuild.rs`, `src/store/replace_in_place.rs` | archives, `restore.pending`, what is staged, the database file | backup, restore (stage, swap, rerun), merge-erasures, rebuild | replaces what the write path and requests use | a kill at every step of the swap; a failing step after identity was rotated; requests admitted before and served after | exactly one snapshot is installed, whole, under a stream of its own |
| **Replica exchange** `src/domains/sync/drain`, `src/domains/sync/replica`, `src/store/replica_*.rs` | per client: outbox, bindings, cursor, pull holds, receipts; hub: feed, revisions, receipts | a pass (open, due holds, pull pages, push batches), hub acceptance | HTTP to the hub; `sync.lock` between passes of a client | lost answers and resends, replays below what was already accepted, edits during a pull, kills | each operation gets one position; nothing owed is dropped; everybody ends with the hub's content |
| **Session keys** `src/domains/sync/login.rs`, `auth_file.rs`, `auth_barrier.rs`, `drain/keying.rs`, `push_hold.rs` | `auth.json`, `auth.disabled`, the stamp of each outbox row, bindings per key, the last session | login, logout, a pass as far as it decides what goes where | files, `sync.lock`, the outbox | auth commands race a pass that keeps the credential it loaded | a change goes to the workspace it belongs to |
| **Unattended passes** `src/domains/sync/auto.rs`, `hooked_refresh.rs`, `daemon/worker.rs`, `queue.rs` | `sync.lock`, the one-slot queue lock, the coordinator's queue, `repo_marker` | trigger, wait, run, sweep, catch-up | files, hook processes, the coordinator | a trigger relies on another that is about to run | no trigger is forgotten |
| **Sync daemon** `src/domains/sync/daemon` | `daemon.lock`, socket, `daemon.json` | ensure, coordinate, guard, hand over, stop | socket messages, files | a stopping owner cleans up after it released the lock | one coordinator serves, and it stays reachable |
| **Background jobs** `src/serve/jobs*` | job registry, single write permit, event streams | submit, run, cancel, report, sweep, stream | semaphore, mutex, channels | cancel against start; eviction of jobs that wait or are streamed | a cancelled job never runs; the table tells what its workers do; streams are whole |
| **HTTP, CLI and MCP front ends** `src/serve`, `src/cli`, `src/mcp` | none but the permit | dispatch | the cores | the reconciliation they open with | (in the write path's module) |
| **Code generations** `src/domains/code/generation.rs`, `drain/code_capture.rs`, `replica/code_accept.rs`, `src/store/code_generation.rs`, `replica_sweep.rs` | the index, generation rows (staged, active, superseded), the operation in flight | index, capture, accept, activate, follow, sweep | the exchange, under its own activation rules | an acceptance recorded and not activated; entries read again by a rewind; a sweep during a long push | every machine that read the feed has active what the hub is at |
| **Documents, events** `src/domains/documents` | revisions | write, replicate | journal and exchange | as memories | as memories |
| **Projects** `src/domains/projects` | lifecycle, proposals, keyed receipts | create, transfer, archive, propose | one transaction each | replays by receipt | a receipt answers a replay |
| **Retrieval, learning, graph, architecture, capture, integrations, utilities** | derived or none | read-only scoring, reports, parsing | the store | numeric, I/O | tests fit better than models |

`PROJECT.json` lists them with their status, and under `hazards` the lines at which this
code is hard to test.

## 2. Modules

### `MemoryWrite`: one data directory, several processes

| Variable | Code |
| --- | --- |
| `live`, `trash`, `oldTrash` | `memories/{id}-{slug}.md`, `.trash/`, and which trashed files are past the retention window |
| `row`, `oldRow` | the `memories` row: absent, live with its frontmatter, or stamped `deleted_at` |
| `intent` | `memory_write_intent`: one row per id, naming an operation id |
| `rev`, `journaled` | `replica_revision` (newest operation of an id), operation ids with a feed position |
| `lock` | `memory-save.lock` |
| `pc`, `req` | a process: its next step and what its command has read so far |

An action is one step between two points where somebody else can come in: a read, a
lock, a file move, a transaction. `Probe` ... `RecoverDone` are the reconciliation every
writable session starts with; `Save*`, `Delete*`, `Patch*`, `Refresh*`, `Restore*` and
`Gc*` are the commands, `PruneBegin` and `Heal` prune's delete. `Crash` kills a process
anywhere (its flock goes with it, its files and rows stay), `Fail` makes any step return
an error to the command (the session ends, what was committed stays), `Busy` is a
command that gives up on the lock. `DaysPass` lets what is in the trash, and rows
deleted, age past the window.

What is abstracted: a memory id stands for its body (the id is its digest); frontmatter
is a member of `Attrs`; a save of an existing id with other frontmatter is a patch, and a
re-save of a body is composed of its save and delete; `SaveBegin` merges taking the lock and
recording the intent (both precede any other effect), `DeleteMove` merges lock, load,
rename and mtime, the sweep of the trash directory is one step, and so are reading a memory
and finishing its intent during recovery, which holds the lock. Left out: embeddings, full-text rows, edges
and the derived graph; the replay of a client-supplied operation id; the pins
refresh-refs computes (it writes back what it read); erase. Intents are finished in any order.

### `ReplicaExchange` and `ReplicaLog`: clients and one hub

| Variable | Code |
| --- | --- |
| `feed`, `receipt` | the hub's `replica_feed` by position, `replica_receipt` by operation id |
| `local` | a client's memories (file and row together: the write path is one step here) |
| `outbox`, `state` | `replica_operation` in the order made, and each operation's state |
| `binding` | `replica_binding`: position and deletion the client last knew of a memory |
| `cursor`, `holds` | `replica_cursor.applied_sequence`, `replica_pull_hold` |
| `applied` | operations a client's own engine holds a receipt for |
| `pass` | the pass a client runs: its step, the head it opened on, the page's end, the request on the wire |

`Command` is a local save, patch, delete, restore or re-save with the operation it
journals. `Open` and `Rewind` are the beginning of a pass with `holds::reconsider`; `Page`
fetches; the `Resolve*` actions are `pull_rules::classify`, one per rule, followed by
`Apply`, `Bind` and `Advance`, each of which is a commit of its own; `Send` is
`push_hold::classify` with `push::collect`; `Import` is the hub deciding one operation of
a request in one transaction; `Record` and `RecordBinding` are the two statements with
which `push` settles an answer. `LoseAnswer` loses a request or its answer at any point
(the hub may have answered a part of it), after which it is resent or the pass ends;
`Stall` is an apply that fails; `Crash` kills a pass between any two statements.

`Stale` is `validate::order`; `Waiting` is the `order` hold of a restore; `AlreadyUpstream`
is rule 5. Requests of different clients do not interleave inside the hub, because a
request holds the server's write permit; a request answered `503 busy` is one that waits.

What is abstracted: one entity kind; a page reaches the head of the feed as it is when
the hub answers; the byte budget is `MaxBatch`; due holds are dropped in one step (the code
drops them one by one); no request arrives after its client gave it up. Left out:
the holds `policy`, `secret`, `skip_repos`, `workspace`, `upgrade`, `incompatible` and
`server_withheld`; erased and expired payloads; stream epochs, the anchor, rebootstrap and
compacting replay; staged uploads; adoption and seeding; the legacy protocol.

`ReplicaLog` is what the hub promises: one log, an operation in it at most once, no write
that revives a deleted memory, a restore only of what is deleted. `ReplicaExchange` is
checked to implement it with `log <- feed`.

### `EraseRestore`: what is erased, and what a backup could bring back

| Variable | Code |
| --- | --- |
| `db`, `files` | the live database (epoch, erasure count, restore state, row versions, feed, payload bytes, barred digests) and `memories/` |
| `backups` | backup directories: a database and, once copied, its markdown |
| `manifest`, `kept` | `replica/erasures.jsonl`, and the operator's copy of one since lost |
| `ident` | `replica/identity.json`: stream epoch and erasure count |
| `pending`, `staged`, `pre` | `restore.pending` with its phase; `comemory.db.restore.tmp` and `memories.restore/`; `memories.pre-restore/` |
| `writer` | the command that holds `memory-save.lock`, and its next step |
| `request` | a replica request: checked, repairing, admitted, and the epoch it was checked under |
| `erased`, `served`, `goal` | history: erased payloads, the last feed served under each epoch, what a swap is to install |

`Erase*` is one erase in the order of the code: files under the open transaction, manifest
line, count, commit. `Backup*` copies the database, then the markdown. `RestoreBegin` ...
`RestoreFail` is the staging, of which everything but `identity.json` is invisible; `Swap*` is
`backup_swap::finish` step by step, every step looking at what a killed run already did, and
`RestoreResume` the rerun. `Merge*` is `backup merge-erasures`. `Request*` and `Repair*` are
`refuse_unverified`, `identity::ensure` and the route: three looks at the database with no lock
across them. `Kill` ends the command anywhere and may leave a torn line; `Lose` replaces the
manifest by a shorter one; `CopyByHand` puts a backup's database in place of the live one.

A payload is `<<id, n>>`, because it carries its creation time: a memory saved again is
another payload. Left out: erasing by key or document, withdrawal at the hub, full-text and
WAL cleaning, vectors, `rebuild`. A local save is one step here (`MemoryWrite` has its inside).

Three guards are premises of the model, not of the code, and named there: kills and
losses of manifest lines exclude each other in one behaviour (a line lost after an erase that was
killed before its count leaves nothing to tell the manifest is short); an erase and a
merge begin in a database that is no older than what it served under its epoch and, with
`StampsAnywhere` FALSE, holds nothing erased; a copy by hand is one the identity can tell
apart. What the code does without the last two is told in section 5.

### `SessionKeys`: under which key a change goes out

| Variable | Code |
| --- | --- |
| `auth`, `barrier`, `gate` | the key of `auth.json`; `auth.disabled`; `sync.lock` |
| `outbox` | the changes in order: the key in force when each was made, its stamp, its hold, where it arrived |
| `bound`, `last` | the keys an entity is bound to, and the one it was bound to latest; the last session and when it began |
| `pass`, `user` | what each pass and the login or logout command is doing |
| `loose` | changes the code makes no promise for, each case an operator of its own (`LooseBy...`) |

The steps of a login (stamp, store, clear the barrier) and a logout (raise it, wait for
`sync.lock` up to its bound, stamp, forget) are actions, and so are a pass's load of the
credential, its lock, keying, classification, collection, request, answer, and the look at the
barrier between two batches. `AuthBreaks` and `PassBreaks` end either anywhere. Times are
counts of changes. What a batch carries is `ReplicaExchange`'s. Left out: the device flow,
allowlists, token refresh, what the hub refuses.

`KeptForItsKey` excepts the changes in `loose`; section 5 says which of the exceptions contradict
a document. Without exceptions it would be false, with them it still says that no order of
logins, logouts, batches and kills moves any other change to a foreign key.

### `CodeGenerations`: how the index of a repository travels

| Variable | Code |
| --- | --- |
| `index` | what a machine's symbol, file and edge rows hold, as one value |
| `active`, `stagedGens`, `adopted` | `code_generation` rows of a machine: the active one, those staged, and those active now or before (a generation's id is a digest over its parent and its contents, so here it is the sequence of contents that led to it) |
| `plans`, `owing` | the operations ever queued, and the one a machine has pending for the repository |
| `chain`, `answer` | the hub's feed (0 is a memory) and its receipts; `Tip` is the generation the hub has active |
| `reached`, `known`, `landed`, `heldBack` | cursor, synced position of the binding, receipts, pull holds |
| `drain` | the pass of a machine: its step, and which position it is settling |
| `setBack` | history: machines that may have lost their place, in one of the two ways below |

`Capture` is `code_capture::capture` with its one transaction; `Rewinds` is `holds::reconsider`, for which
the feed carries memories; `SettleOwn`, `PassSuperseded` and `Land` are the rules of `pull_rules::classify`
that a generation can meet; `ActivateOwn` and `BindGeneration` are commits of their own after an operation was
settled, by the pull or by the push. `Accept` is `code_accept::apply`, `RecordAnswer` the
push's record of it. `SweepStaged` is gc, `IndexCode` an index run, neither of which waits for the
pass. `BreakOff` kills a pass anywhere.

`FollowsUpstream` excepts a machine in `setBack`; section 5 says how one gets there. It leaves when it applies
a generation of a peer after which nothing in the feed was met before (`AllNewAfter`): applying an older one
leaves it as far behind as it was. `NeverSetBack` is the same without the exception and is false. Left out: approval and
policy holds, skipped repositories, entries that stall or whose payload is gone, replays, tombstones, two
labels of one repository, and an index that is read while it changes.

### `SyncPasses`: no trigger is forgotten

| Variable | Code |
| --- | --- |
| `head`, `shown`, `marker` | HEAD of each checkout, the HEAD whose files the symbol rows mirror, `repo_marker.last_head` |
| `lock`, `slot` | holders of `sync.lock` and `sync-auto.queue` |
| `run` | each hook process, the coordinator's worker, an `index-code` by hand: its phase, what it is still to index and to sweep |
| `queue`, `calls` | the coordinator's queue (trigger, checkouts, waiters, stopping) and the catch-up requests |
| `owed`, `excused` | history: the latest HEAD a hook reported, checkouts whose trigger a fault took along |

`Fire` is a commit with its hook, `Enqueue` the try for the slot, `Enter` and `DropSlot` the lock and
the slot given up behind it, `WalkBegin` and `WalkEnd` one index run - HEAD is read for the marker
after the walk -, `Sweep` one repository of `refresh_stale`. `Wake`, `Tick`, `CatchUp`, `Take` and
`Worker*` are the coordinator; `Stop` and `Restart` its end and replacement. Left out: which hooks are
installed, the network leg, statistics.

### `SyncDaemon`: one coordinator, and the next

`socket`, `daemonLock` and `record` are the control socket's path, `daemon.lock` and `daemon.json`; `coord`
holds each coordinator's phase, its guard's, and the inode each of them remembers. Every
look at the path and every change of it is a step: bind is `Clears` then `Listens` then
`NotesBound`, unbind `UnbindLooks` then `UnbindRemoves`, and the guard rebinds by `GuardClears`,
`GuardListens`, `GuardNotes`. Inode numbers may come again once nobody remembers them. A start that finds
the lock taken leaves nothing behind and is no step. Left out: the protocol's frames,
service managers, credential reload.

### `ServerJobs`: the job table, its workers, the permit and the streams

`jobs` is each job's record (status, cancel flag, whether the table still holds it) with its
worker's phase, `permit` and `waiters` the write permit and its queue, `streams` each event
stream's cursor over the three channels. Every operation of the registry is one lock hold and one action:
`Submit` (check, insert, sweep), `Cancel`, `Start` (`try_start`), `Publish`, `Report`
(`set_status`, sticky), with `Await` and `Leave` the permit's two ends, and `Poll` one turn
of the stream's `select`, biased as the code's. `RequestTakes` is a synchronous write. Listing and
views read only.

### Checking modules

- `MCMemory`, `MCExchange` add symmetry sets.
- `ExchangeConvergence` adds to `ReplicaExchange` a record, `strayed`, of whether a client ever acted on an entry older than
  one it knew, applied one over an operation it owed, or saved a deleted memory again.
- `MCAgreement` runs `MemoryWrite` at two corners of its bounds.
- `MCMachines`, `MCCustody` and `MCResident` run several systems that share nothing, each as a
  `part`: an initial state chooses the part, and only its actions fire. `Within` is the part's
  bound, an action constraint written into the next-state relation. One run reports on all of
  them; parts do not multiply each other's states. Where two values are interchangeable and are
  used once each (two checkouts, two contents), `Within` fixes which of them comes first.

### Proof modules

`MemoryWriteProofs`, `ReplicaExchangeProofs`, `EraseRestoreProofs`, `SessionKeysProofs`, `CodeProofs`,
`SyncPassesProofs`, `JobsProofs`, `SyncDaemonProofs`: see section 4.

## 3. Runs

| Run | Configuration | What it shows |
| --- | --- | --- |
| `machines`, part `memory` | two processes, one memory, every command, 3 commands, one kill, one failure | `TypeOK`; `FeedFollowsDisk` (what is journalled is what is on disk then), `RowFollowsDisk` (a row changes only to agree with the file, but for prune's heal), `OwedIsUnjournaled` (no intent names an operation peers already have) |
| `machines`, parts `breaks`, `rewinds` | `CodeGenerations`: two machines, two contents, three index runs, three generations; with one pass broken off or one sweep, or with one memory anywhere in the feed, which the first machine may hold back and rewind for | `FollowsUpstream` (between passes, a machine that read the whole feed has active what the hub is at), `OwedIsRecorded` (what the outbox names was not swept); `CodeTypeOK` |
| `memory_agreement` | part `recovery`: one process, two memories, every command, 4 commands, killed twice; part `saves`: two processes saving and collecting one memory, 4 commands, two kills, one failure | `Agreement`: with no intent outstanding, file, row and newest operation agree; `CommandsEnd`: every started command ends |
| `memory_edit_lost` | a patch and a reconciliation | violated, see 5 |
| `memory_heal_lost` | a delete that fails, prune, a new session | violated, see 5 |
| `exchange_safety` | two clients, one memory, every command, concurrent, inline pushes, 3 operations, one fault of any kind | `ImplementsLog`, `NoOperationLost` (an operation no longer owed was refused, or the hub holds its bytes or those of a later change of the same client), `RestoreNamesDeletion`, `TypeOK` |
| `exchange_converge` | `ExchangeConvergence`: two clients, one memory, commands between passes, one operation a request, 3 operations, one lost answer | `Settles` (the exchange comes to rest once nobody writes), `CursorIsContiguous` (nothing at or below the cursor was passed over), `Converged` (at rest every client holds what the hub holds, where no answer was lost and nobody strayed: section 5) |
| `exchange_older` | inline pushes, no fault | violated, see 5 |
| `exchange_rewind` | one kill | violated, see 5 |
| `exchange_overwritten` | edits during a pull, no fault | violated, see 5 |
| `custody`, part `bytes` | `EraseRestore`: one memory saved and erased twice, one backup directory, two stream epochs, two kills or one lost manifest, one copy by hand; kills, copies and erases together at most 3 | `LedgerCovers` (a manifest that passes for established names everything erased), `OpenIsClean` (no database that would be opened for a request holds anything erased), `ServedClean` (no request serves it, however old), `OneStreamPerEpoch` (under one epoch the feed only grows), `RestoreIsWhole` (a restore that ends installed what was staged, database and markdown); `TypeOK` |
| `custody`, part `keys` | `SessionKeys`: two workspaces, one pass, one memory, two changes, three logins or logouts, one of anything broken off, the credential edited by hand | `KeptForItsKey` (a change arrives nowhere but at the key it was made under or its memory is bound to), `OneBatchAfterLogout` (a logout lets at most the batch in flight out); `KeysTypeOK` |
| `custody`, parts `races`, `commits` | `SyncPasses`: two hook processes and the worker, two checkouts of which one is not its label's own, a catch-up, a run by hand and a tick; or two commits to a checkout | `NoTriggerIsForgotten` (with nobody at work, the symbol rows mirror the newest HEAD a hook reported), `CatchUpIsFresh` (an answered catch-up indexed what the marker then says) |
| `keys_foreign_edit` | two workspaces, one change, no edit of the credential | violated, see 5 |
| `resident`, parts `jobs`, `streams` | `ServerJobs`: three jobs of every kind (read, write, one repository's index), one finished record kept, one report each; with an event stream, three mutating jobs and one stream | `CancelledNeverRuns`, `RegistryTellsTheWorker` (a record shows its job over only when the body is, or will not run), `OneJobPerRepo`, `OneWriterShows`, `StreamsAreWhole` (a stream that ended with an outcome delivered every line it was owed); `EveryJobEnds`; `JobsTypeOK` |
| `resident`, part `passes` | `SyncPasses`: two hook processes and the worker, two checkouts, one fault | `EveryTriggerEnds`: every hook process and every catch-up comes to an end; `NoTriggerIsForgotten` again; `PassesTypeOK` |
| `resident`, part `daemon` | `SyncDaemon`: two coordinators, one kill, six inode numbers | `RecordIsTheServers` (one coordinator serves, under the lock, and the record names it or nobody), `StaysReachable`; `DaemonTypeOK` |

**Bounds.** Every mechanism of the write path is about one id: two processes on one
memory give every interleaving of two commands and of a command with a reconciliation; a
third command follows on what two left behind; two kills let a reconciliation be killed
and run again. Two frontmatter values tell an old edit from a new one. Two memories are used where a pass
over several intents can be interrupted (part `recovery`). In the exchange, rules 1 to
8 read one entity only; two clients give a local change, a peer's change, and a third
operation that is ordered before, between or after them; three operations cover save,
delete, restore, and two edits of one client around a peer's. `MaxBatch` 2 makes a
request that can be answered in part; in `exchange_converge` it is 1, so that a peer's entry can fall
between two that one client sends in one pass.

An erase that a backup undoes needs a save, a backup, an erase and a restore; a second save and
erase make the manifest longer than the backup's count, so that the two can disagree either way.
Two epochs are the one before and the one after a restore, and two kills let the rerun of a
killed restore be killed. Larger instances were tried for as long as they ran and gave no violation:
two memories (30 million states, unfinished), three epochs (27 million, unfinished), two
backup directories with one erase (9.6 million, complete).
For the session keys, two changes are one stamped by a switch and one after it, and three switches are
a login, a logout, and a login to the other workspace. For the passes, two triggers are one
that holds the slot and one that finds it taken, and two commits are one the index walk
saw and one it did not. Three generations are one of each machine on the same parent, of which the hub takes one, and a third on
top of it; two contents are enough for a machine to return to what it had. An index matters only when
it is captured, so the run lets it change just before (a change at any other time commutes with what
lies between), and the first machine to index is `x`, with `s1`, the other choice being a renaming.
Part `rewinds` leaves inline pushes out, and only `x` holds the memory back. Breaks, rewinds and
inline pushes together, with three index runs and one memory, were also run once by themselves,
10.4 million states, without a violation. A fourth generation can show what three cannot: a machine that is set back,
applies an old generation of a peer and stops behind a newer one it had already applied. `CodeProofs` covers any number.
Three jobs are one that runs, one that waits, and one more that makes the
table sweep; keeping one finished record makes it evict under a waiting worker. Two
coordinators are a predecessor and its successor; six inode numbers are what the
two can have bound and still remember, and freed numbers come again.

**Fairness.** `FairSpec` of `MemoryWrite` is weak fairness of `Proceed(p)`, the next step of a
command in progress: the operating system schedules a running process, and a blocked
lock attempt either gets the lock or times out. Nobody is made to start a command.
`Fairness` of `ReplicaExchange` is weak fairness of a pass's next step (same reason; a
request is answered or times out) and of opening a full pass: the daemon's timer, hooks and
watch nudges open pass after pass. There is no fairness on commands, inline pushes or faults.
`JobsFairness` is weak fairness of each job's next step: the runtime polls a spawned task that can go
on, the semaphore serves its queue in order, and a body and a synchronous request end; cancels, submits
and reports are never made to come. `PassesFairness` is the same of a hook process, of the worker
and of a run by hand, and of the replacement of a stopping coordinator (the service manager, or
the next `ensure`); commits, ticks and catch-ups are not. `DaemonFairness` is weak fairness of a
coordinator's own start, guard and end; nobody is made to start or to be killed.

**Deadlock** is checked in the runs of `MemoryWrite` and `ReplicaExchange`: a process can always
start a session, and a client can always open a pass. In the code parts of `machines` a pass may
rest, so it says nothing there. It is off in `custody`,
`keys_foreign_edit` and `resident`, whose systems may stop: all jobs have ended, every coordinator was
run, each bounded supply of saves, switches or commits is used up. That nobody waits for
ever is what `EveryJobEnds`, `EveryTriggerEnds` and `StaysReachable` say instead.

Symmetry (processes or clients, frontmatter or payloads, memories) is used only in runs
without liveness properties. `MCResident`, `MCAgreement` and `MCCustody` fix which of two equal
processes starts first (and `MCCustody` which of two workspaces is logged in to first), which
leaves a behaviour of every kind.

## 4. Proofs

Every theorem holds for all values of the constants that satisfy the named assumption of its
module (bounds are naturals, `None` and the like are none of the other values).

**`MemoryWriteProofs`**, for every set of memories, frontmatter values, processes and commands:

- `TypeCorrect`. The induction needs one more part, `NamesMemory`: a process in the
  middle of a command names the memory it works on (a restore looks the file up under it).
  `TypeInv` is the two together.
- `LockDiscipline`: `SafeInv == TypeInv /\ LockInv`. `LockInv` says for every process that it
  holds the lock at the steps taken under it, and that while it does, the file
  it placed or moved stays as it left it. `OthersStay` (nobody else disturbs what the lock
  protects) and `OwnStep` (a process's own steps establish it) carry the induction.
- `FeedFollowsDiskAlways` and `RowFollowsDiskAlways`, action properties that follow from
  `SafeInv`: a command journals and mirrors under the lock, where the file is still what
  its request carries. `RowFollowsDisk` excepts prune's heal, which holds no lock; without
  the exception it is false.
- `OwedIsUnjournaledAlways`, by the inductive invariant `OpsInv`: operation ids in use were minted
  (`OpsMinted`), two commands or intents never share one unless one is the other's
  (`OpsApart`), a command that has not recorded its intent is the only one to know its
  id (`OpsPrivate`), and what is owed is not in the feed.
- `Agreement` in the two parts of run `memory_agreement`, since without restrictions it is false (section 5):
  - `SavesAgree`, where memories are only saved and collected (`Kinds \subseteq {"save", "gc"}`), by any number of
    processes, killed and failing at any step. `SavesInv`: a save's file is ahead of its row only under an
    intent, and an intent is recorded and settled only under the lock, so that reconciliation finds each intent as it read it.
  - `RecoveryAgrees`, of every behaviour in which one process at a time is up (`TakesTurns`) and no step is an I/O or SQLite
    error (`NothingFails`), with every command and with kills at any step, those of a reconciliation
    included. `TurnInv` is what the intents promise: `Explained` says of each memory that what a kill left is what its
    intent tells the next session (none: one story; a write: at most the file is ahead; a delete: the file is there and nothing
    else has moved, or the file is gone and nothing else has). `Stands` says of the process that is up that it has at
    most its own intent once its session is open, all that are left in hand while it reconciles, and that what it
    looked at before it waited for the lock still holds. Nobody ever waits there, and neither prune's heal nor a
    "file is gone" branch is reached.

**`ReplicaExchangeProofs`**, for every number of clients, memories, payloads and operations, every batch size
and every set of faults:

- `ExchangeTypeCorrect`, `RestoresNameTheirDeletion` and `HubImplementsLog`, by `SafeInv`: with the
  types, an operation id not minted yet has no receipt (`Fresh`), feed and receipts say the same
  (`FeedIsReceipted`), no two clients share an id (`Apart`), and of each client: its rows have minted ids in order
  (`Minted`), an entry that carries the id of a row is that row (`FeedIsOwned`), a deletion it knows is one of the feed (`DeletionsKnown`), a page stays
  inside the feed (`PullsWithin`), and the request on the wire repeats what the outbox has (`WireIsOwed`).
  The last is what a resend rests on: whatever is answered twice is answered for the same operation.
  `HubImplementsLog` is the refinement: every step of the exchange is a step of `ReplicaLog` or leaves the
  feed alone, and only `Import` is not of the second kind.
- `FeedKeepsItsPromises` and `PositionsAreKept`: what a reader may conclude from the log (`OnePosition`,
  `RevivedByRestore`, `RestoreUndoesDeletion`, `PositionsStay`), proved of `ReplicaLog` alone by `LogInv` and carried
  to the hub by the refinement. The acceptance rule looks only at the last entry of a memory; that a
  restore stands between any deletion and any later write needs the history behind it (`DeletionsAreUndone`).
- `NothingIsLost`. An operation leaves the outbox by an answer or by rule 5, and rule 5 settles one
  that was never answered because a later entry has its bytes. The invariant follows each operation from
  its journal to the place that answers for it.
- `CursorNamesHandling`, under the hypothesis `[][RewindIsWhole]_vars`: no pass is killed between the two
  statements of a rewind. The hypothesis is what the code lacks: run `exchange_rewind` is a behaviour without
  it in which the cursor passes over an entry (section 5). `CursorNamesHandlingWithoutKills` is the
  special case of no kills at all, which needs no hypothesis on behaviours. `ContiguousInv` adds to the
  property that an acceptance the client has not recorded lies above its cursor
  (`AnsweredAhead`), and what of a page is dealt with before the cursor says so (`HandledSoFar`).
- `ClientsConverge`: `Converged` in every behaviour of `ConvergeSpec`, with commands and passes of any number of
  clients interleaved in any way and pulls stalled at will. `Converged` speaks of rest; `ConvergeInv` says of every
  moment what brings a client there. Of each memory (`MemoryInv`): the rows the hub has yet to decide are the last
  about it (`UndecidedComeLast`) and the memory is what the last of them made it (`LastIsShown`); where there are
  none, it is what the hub's revision says, if the client has met that entry (`MetIsShown`). An entry is met
  when it is the client's own, was applied, or is what the memory is bound or about to be bound to. That acceptance
  does not refuse an owed operation of a client that has met the revision needs three more parts: tombstone and restore
  alternate (`RestoresFollow`), an upsert is not behind a deletion (`FirstFits`), a memory nobody heard of begins
  with a write (`UnheardIsNew`). Of each client (`SideInv`): a decided row is on the wire with its answer on the way
  (`AnswersAreDue`), a request starts with the oldest of what is owed (`WireFromTheOldest`), and a restore
  on it names the revision met (`RestoreFits`). This breaks with an answer that is lost, a pass that is killed or
  one of the steps in `Strays`, which is why `Converged` excepts them; `ContiguousInv` and `NoOperationLost`
  supply the rest (`SettledHasMet`: at rest every revision has been met).

The least revision of a memory after another, and the like, come from the well-founded order on naturals
(`LeastNat`), since the prover has no induction over the feed.

**`SessionKeysProofs`**, for every number of passes, keys, entities, changes and breaks:

- `KeysTypeCorrect` and `ChangesAreKeptForTheirKey`, by `KeysInv`. A change that nobody has stamped and that is
  owed in full (`Free`) was made under the key of `auth.json`, or under that of the last session, which will
  stamp it when the next one opens (`StampedNext`, in `RowFits`). `PassHolds` says what lock and
  key a pass has at each phase. `PassKnows` is what is left of that for a pass that holds a credential
  loaded earlier: what it finds free is of its own key or is stamped next, and after classification
  what it may collect may go under its key. The `loose` changes are exactly those for which the induction
  fails, each at the step that puts it there.
- `OneBatchBehindTheBarrier`, by `AtItsBatch`: while the barrier is up a pass has sent no batch since,
  or one and stands at the boundary, where it looks.

**`EraseRestoreProofs`**, for every set of memories and backup directories and every number of saves,
erases, epochs, kills, losses and copies:

- `LedgerCoversAlways`, by `LedgerInv`. A manifest is trusted when it is whole and no shorter than the
  count in `identity.json`; what has to be inductive is that nothing but a lost line can make it
  short, and that a lost line always shows. `NeverLonger` is that half (without kills
  the manifest is at most one line ahead of the count, and only during an erase),
  `CoversOrShort` and `KeptCoversOrShort` say of the manifest and the operator's copy that they
  name what is owed or are short. An erase owes its payload from its line on (`Owed`), not from its commit.
- `OpenIsCleanAlways` and `ServedCleanAlways`, by `SafeInv == LedgerInv /\ DataInv`. The core is
  `CleanInv`: a database that the identity names, that counts no further than it does and that no merge
  has in hand has barred everything erased; `StoresSound` adds that a barred payload is in no
  payload table. They cannot stand alone: what is staged must be known to have been merged before
  `restore.pending` says `swapping` (`PendingInv`), each command must remember what it has done so
  far (`WriterInv`), and a request admitted before a swap must see that what is swapped
  in carries another epoch (`RequestInv`). One lemma for each part says which steps leave it alone
  (`StoresStay` ... `LinesStay`), and one for each kind of step does the rest (`SaveData` ... `MishapData`). Both
  theorems assume `~StampsAnywhere`; section 5 says what happens otherwise.
- `EraseTypeCorrect`, by `TypeInv`. Beside the types it needs `Lengths` (neither a manifest nor the count
  runs ahead of the erases begun, or a stamp would leave its range) and `Hands` (a backup or a restore at work has
  its directory and its stage). Of the operators, `LinesIntoType` says that merging lines into a database
  keeps its epoch and only appends to its feed.
- `RestoreIsWholeAlways`, by `WholeInv`. A swap killed anywhere has each part either still staged or in
  place (`GoalInv`), and each step of the swap knows what those before it moved (`MovedInv`), though a rerun starts
  from the first. That nothing erased comes back is `MergedIsWhole`: lines that name all that was erased, each
  of them payloads of its own memory (`LinesOwn`), leave no row and no file that holds any; and lines
  that pass for established name all (`LongEnoughCovers`). It assumes nothing of `StampsAnywhere`.
- `OneStreamAlways`, by `FlowInv == WholeInv /\ SafeInv /\ StreamInv`, under `~StampsAnywhere`. The live database may
  well have gone back behind what it served: a copy by hand does that. `StreamInv` says when it has not: while the
  identity agrees with it, while an admitted request may read it, and while a command that will move
  its count is at work. What comes in by a repair or a swap carries an epoch under which nothing
  was served and no request was checked (`New`), so that its feed may begin anywhere.

**`JobsProofs`**, for every number of jobs, streams and repositories and every cap:

- `JobsTypeCorrect`; `CancelledNeverRunsAlways` and `RegistryTellsTheWorkerAlways` by `RecordInv`, which
  ties a record's status and cancel flag to its worker's phase; `OneWriterShowsAlways` with `PermitInv`,
  which says who holds the permit and that the queue names each waiting worker once;
  `OneJobPerRepoAlways`; `StreamsAreWholeAlways` by `CursorInv`, which follows a stream's cursor
  through its phases and is indifferent to eviction, since only what was reported counts.
- `OutcomesStayAlways`, an action property no run lists: final statuses, evictions and the start of a body
  are never undone. It is the frame (`Keeps`) the streams' proof rests on, stated for its own sake.

**`CodeProofs`**, for every number of machines, contents, operations, memories and breaks:

- `CodeTypeCorrect`, by `CodeInv`: with the types, `RefsInv` (operations are named only after they were
  queued) and `PlaceInv` (where a pass is: it reads within its page, what it is settling lies in the feed
  and is a generation, and what it has asked it still owes). Without the last, a step could activate
  what is no generation.
- `OwedIsRecordedAlways`: `RecordedStays` says that what a machine has recorded goes only in a sweep, and a sweep
  only while nothing is owed.
- `ActiveWasAcceptedAlways`, by `AdoptedInv` and `ActiveInv`: whatever was ever active is in the feed, which
  only grows. This is the promise of `code_capture.rs:8` that a generation becomes active here only
  once the upstream accepts it.
- `FollowsUpstreamAlways`, by `FollowInv`. A rewind takes the cursor below what was read, so the induction
  speaks of a position `r` at or above it up to which the feed was read before (`Follows`): everything up to `r`
  is as old as what is active, or is it; between the cursor and `r` there is nothing of the machine's own and
  reading the rest changes nothing; after `r` a peer's entry will be activated, is no newer than what is active, or comes
  after one of the machine's own, and those still have their rows. `Reads` ties cursor, binding, receipts
  and debt to the feed, and `Settles` says what a pass killed between receipt, activation and binding had in hand.
  When a pass rests with the whole feed read, `r` is its end, and what is active is its last generation. There is one
  lemma per step of a machine (`CaptureStands` ... `SweepStands`), and `Elsewhere` for the others.

**`SyncPassesProofs`**, for every number of checkouts, labels, hooks, callers, runs by hand and faults:

- `PassesTypeCorrect`, by `PassesInv`: with the types, `Shape` says that what an actor has in hand fits its phase
  (`RecordsFit`, `RolesFit`), that who holds the slot has not begun its pass (`SlotFits`), and that
  nothing is owed or promised past the HEAD a checkout has (`HeadsGrow`).
- `TriggersAreKept`: a HEAD that was reported is mirrored, or somebody is charged with it. Each step that
  takes a charge from one hand (a hook that coalesces, the queue, a sweep) puts it into another, and a
  walk that ends has seen what it was charged with.
- `PassesExclude`, of `OnePassAtATime`, which no run lists either: whoever gives `sync.lock` back had it, since several
  steps free it without asking. It is inductive above `Shape`.
- `CatchUpsAreFresh`, by `ServesInv`: callers in the queue have asked (`CallersAsked`), and until the worker
  answers it is charged with each HEAD its callers rely on that is not seen yet (`Promised`).

**`SyncDaemonProofs`**, for every number of coordinators and sockets: `DaemonTypeCorrect`, and
`RecordIsTheServersAlways` by `LockInv` (`daemon.lock` is held exactly from taking it to dropping
it) and `RecordInv` (while one serves, the record is its own or was removed by a predecessor).

Leaves about one variable of a large step go through a lemma that says which steps move that variable at all
(`WhatMoves` in `MemoryWriteProofs` and `CodeProofs`), so that none needs a whole next-state relation expanded.

Every invariant and action property that a run checks is stated by one of these theorems. Only model-checked are the
liveness properties (`CommandsEnd`, `Settles`, `EveryJobEnds`, `EveryTriggerEnds`, `StaysReachable`): temporal proofs
with fairness are out of the prover's reach.

## 5. Where the code and its documents part

Each is a run TLC refutes, with its trace in the code's own steps.

1. `memory_edit_lost`. A patch records its intent before it takes the lock
   (`update.rs:220`). A second process that opens a session in between finishes that intent
   with the old content, under the patch's operation id. The patch then rewrites the file
   and cannot journal: the edit is on disk and no peer will ever hear of it.
2. `memory_heal_lost`. A delete that fails after its move leaves an intent; prune heals
   the row, trusting that intent (`prune.rs:292`); the next reconciliation takes a deleted row
   for a committed deletion and drops it.
3. `exchange_older`. The pull binds a memory to its own, older operation
   (`pull.rs:251`), so that a peer's edit which lies between two of the client's own is no longer
   recognised as superseded, and is applied over the newer one. The client then stays behind the hub for
   good unless a later change of the memory reaches it. The same binding back has three further
   consequences. An older entry with the bytes of a pending restore settles the restore, though the
   client's own later tombstone is accepted upstream. A restore made while a stalled pull has the memory bound to
   an older deletion names that deletion and is refused. A replay applies an entry that was
   settled as already upstream over a newer one that was applied. `Converged` excepts these (`strayed`).
4. `exchange_rewind`. `holds::reconsider` drops the holds before it saves the rewound cursor;
   a pass killed in between never comes back for them.
5. `exchange_overwritten`. The check that a memory owes nothing and the write of the
   pulled entry are separate steps; an edit in between is overwritten.
6. `keys_foreign_edit`. A row enqueued between a pass's classification and its collection
   (`push.rs:137`) has no hold because nobody looked at it, and is sent under the session's key though
   its memory is bound to another workspace.

Observations met on the way that no run of its own shows:

*Writing a memory*

- `delete.rs:100` records a delete's intent before it asks for the lock; a
  reconciliation in between drops it, and a kill after the move leaves a file in the trash, a live row
  and nothing to finish it. `Agreement` is therefore checked without kills during concurrent deletes.
- `prune.rs:284` re-reads nothing under the lock before it heals, so a save that
  places the file again meanwhile gets its row marked deleted. `RowFollowsDisk` names the exception.
- `refresh_refs.rs:79` writes back records it loaded before the lock: a patch in between is
  undone on disk. Its row follows, but no operation says so.

*Exchange*

- Rule 5 settles a pending operation with the entry's bytes and every older one
  (`pull_rules.rs:93`). When the answer to the older one was lost and the hub had placed it after
  the entry, the hub ends with the older change and the client with the newer one. Likewise a client whose own
  change equals an earlier entry, and was placed after a different one, applies the different one. Both need an
  answer that is lost or a pass that is killed before it recorded it. `Converged` excepts both.
- A re-save of a deleted memory journals an `upsert` (`save_persist.rs`), which the
  hub answers `rejected_stale`: it stays live on this machine and deleted everywhere else.
  `exchange_converge` leaves re-saves out; `exchange_safety` has them.

*Erase, backup, restore*

- `identity::record` (`identity.rs:246`) and `backup_merge.rs:136` stamp the database with the full count
  without looking whether it agreed before. With `StampsAnywhere` TRUE and two memories, TLC refutes
  `OpenIsClean`: a restore is killed in its swap, an erase is made in the database that is about to
  be replaced, the rerun installs the snapshot without it, and the next erase stamps that one. What
  was erased is back and served, against `docs/designs/2026-09-25-replica-state-recovery.md:228-234`.
- A backup's database copied over the live one by hand, with the same epoch and count, passes
  `agrees`; lines 262-269 of the same document say it never does.
- The repair of a mismatch (`identity_repair.rs:40-52`) bars digests, but erases no rows or files.
- A restore's staging writes a new epoch to `identity.json` before the staged database is live
  (`backup.rs:125`); until the swap the live database does not agree and requests are refused.
- `lines_into` erases by entity, so a text that was erased and then saved again on purpose is erased by the next
  restore or merge, against lines 222-226.
- A kill after the manifest append leaves it one line ahead of the count; a manifest that then loses
  one line still passes for established. This is why kills and losses exclude each other in the model.
- A memory saved between a swap that was killed and its rerun is lost; one that makes `memories/`
  again turns the rerun into a conflict. A backup killed between its database and its markdown is
  accepted by restore.
- `--erasure-manifest FILE` is read but not installed, so the count can stay ahead of the local
  manifest for good.

*Session keys.* The changes `SessionKeys` keeps in `loose`:

- "A change belongs to the key it was made under" (`docs/guides/cloud-sync.md:621`) does not hold for a pass
  that loaded its credential before a login to another workspace and drains after it, nor for an edit of the
  other workspace's memory stamped by a switch with the key being left.
- `keying.rs:5-7` speaks of the session that ended; `last_session_at` is when its pass began.
- A save between a login's stamp and the new `auth.json` is stamped by neither and goes to the new key.
- `login.rs:213-216`: a logout that failed or was killed after its barrier reads no outgoing key when it is
  retried, and forgets the credential without stamping.

*Code generations.* The two ways into `setBack`, and two matters the module leaves out:

- `pull_rules.rs:54` asks whether an entry is this machine's own before it asks whether it is superseded. A rewind for
  a held memory that goes back over an old generation of the machine's own settles it again and
  activates it, and the peer's newer generation after it then answers `duplicate` and activates nothing. The
  machine stays on the old one until a peer publishes one after which the feed holds nothing this machine
  met before, or until its index holds again what the newer one holds; what it plans meanwhile is answered `rejected_stale` pass after
  pass. `holds.rs:6-8` calls the replay safe, and `code_capture.rs:8-9` has the next pass replan on top of
  what the pull activated.
- The receipt of an accepted generation and its activation are two commits (`push.rs:287-291`). Between them
  nothing is owed, so gc may sweep a row staged for more than a day; `activate` then finds no row and
  answers success.
- Two machines whose trees differ each take the other's generation for a change of their
  own: each pass captures again on top of the peer's, and the repository alternates for as long as both run.
- `generation::plan` reads an index in several statements, and `index_repo` commits its walk before it
  refreshes the graph. A generation can be planned between them, against the guide's "never some files at the
  old head and some at the new" (`docs/guides/cloud-sync.md:221-225`).

*Unattended passes*

- `auto.rs:57-60` says the queued pass "will do this trigger's work". `CoalescedIsServed` states it and is false: the
  marker is stamped with the HEAD read after the walk (`index_code.rs:356`), so a commit made during the
  walk is marked as indexed and is not. `NoTriggerIsForgotten` excepts a marker that is past the rows.
- `swept_by_a_later_pass` counts on a sweep that `refresh_stale` makes only for hooked main checkouts
  (`hooked_refresh.rs:81-84`).
- A wake that a stopping coordinator answered `queued` is dropped with it, and its pending catch-ups hang until
  the process exits; shutdown marks it stopping before it stops the queue, so that a pass may still
  start and write the state over (`coordinator.rs:146-148`).

*Daemon*

- A new coordinator's guard takes the inode it finds at the path for its own (`watchdog.rs:90`). A
  predecessor whose guard rebinds after it gave up `daemon.lock` can have put it there; then the successor never
  rebinds, and is unreachable while it holds the lock. `AlwaysReachable` states what that breaks;
  `StaysReachable` excepts exactly this guard.
- A stopping coordinator looks at the socket and at `daemon.json` and then removes them, so it can remove its
  successor's (`coordinator.rs:74-77`, `runtime_record.rs:68-69`). `CleansUpItsOwn` states what they say and is
  false; the socket is repaired by the guard, the record never is.

*Jobs*

- A stream whose job is swept before it polled the final status ends without a terminal event
  (`routes/jobs.rs:275`), and progress not yet polled is then lost. `StreamsAreWhole` says that
  nothing else is.

## 6. Plan

The write path, the exchange, erase and restore, session keys, code generations, passes, the daemon's
hand-over and the jobs are modelled. To come, in this order:

1. The exchange's epochs: rebootstrap and compacting replay over `ReplicaExchange`'s state.
2. Projects' keyed receipts.
3. `rebuild`, `ensure` with its probes, and the supervisor.

### Not modelled

Most of the crate, by lines, is code without interleavings: retrieval and ranking, parsing of
sources and imports, graph and architecture views, evaluation, configuration, output, the command
line, routing and the MCP front end. It reads the store or transforms one value into
another, and a model of it would repeat it. What is replicated of the documents
travels through the journal and the exchange that are modelled with memories; their own tables
are left out. A migration and its marker are one transaction, and migrations are left out. What is left out inside a modelled component is named with its module in section 2.
The modules therefore stand for a small share of the implementation's lines, and for most of those at which
two actors or a crash can meet.
