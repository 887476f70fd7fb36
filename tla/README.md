# A formal model of dsh-session-maintenance

The repository keeps one library of conversations ("sessions") for two tools, DSH and
Codex: it imports what the tools wrote, versions it, plans and performs writes into DSH,
lends sessions to running DSH processes and takes back what they append.  This directory
holds TLA+ modules translated from its TypeScript source, the TLC configurations that
check them, and theorems the TLA+ proof system (TLAPS) checks.

    tlc -config TransactionSequence.cfg MCTransactionEngine     # one run
    tlc -config ProjectionSafety.cfg MCProjections              # another
    tlapm TransactionEngine_proofs.tla                          # proofs
    tlapm ProjectionHistory_proofs.tla                          # and more of them
    tlapm Retention_proofs.tla                                  # long (a quarter of an hour), as Services_proofs

`PROJECT.json` lists the components and what is left out of each, the runs, a mutant for
every checked property (a plausible bug of the code that breaks it), the source lines
behind each definition, the findings, the hazards and the theorems.

## 1. Inventory

| part | source | state it keeps | operations | what is hard about it | module |
|---|---|---|---|---|---|
| Transaction engine, write adapter, DSH host | `packages/transaction-engine`, `adapter-dsh-write`, `dsh-host-gateway`, `dsh-core-extension` | transaction and step rows, `journal.jsonl`, lock file and in-process queue, backup descriptor, session content, requests on their way | `apply`, `restore`, `recover`, `recordTransition`, `reconcileJournal`, `acquireFile`, `prepare`, `backup`, `commit`, `verify` | two stores written one after the other, commits of unknown outcome, stale locks, late requests, a user who goes on writing | `TransactionEngine` |
| Projection lifecycle | `packages/projection-lifecycle`, `adapter-dsh-rc1` bridge | run row, run directory, write-ahead log, receipts, projected sessions | `attachRun`, `append`, `registerNativeSession`, `closeRun`, `recover` | a crash at every point of an append, replay, an answer lost, close against append | `ProjectionRun` |
| Runtime broker and lifecycle provider | `apps/engine/src/runtime-broker.ts`, `external-lifecycle-provider.ts`, `lease.ts` | run rows with the writer lease, entries of the Engine, handles of the provider | prepare, attach, abort, beforeStop, afterExit, close, recover | three programs, each of which dies alone; calls that outlive their caller | `RunBroker` |
| Runtime tail recovery | `runtime-tail-recovery.ts` of two adapters | DSH's own store of sessions | collect and append the tail | torn ends, headers, forks | `TailRecovery` |
| Projection plugin | `plugins/dsh-session-maintenance` | hydrated copies, capture queue, batches | hydrate, observe, flush, drain, detach | promises of a session's queue, faults between them | `Capture` |
| Persistent cache | `persistent-cache.ts`, `materialize.ts`, change journal | cache root, manifest, index, cursor | baseline, delta, adoption | a library that changes between pages; interruptions | `ProjectionCache` |
| Canonical session engine | `packages/canonical-session-engine`, `canonical-engine-store.ts` | sessions, versions, tombstones, metadata | `appendDsh`, `importNative`, `observeCodex`, `deleteSession`, `restoreSession` | reads outside the write queue, writes inside it | `Library`, `ProjectionRun` |
| Codex import and title sync | `codex-canonical-import.ts`, `codex-import-service.ts`, `codex-catalog-title-sync.ts` | observer cache, mirror references | import, sync | a thread that grows meanwhile, overlapping passes | `Library` |
| Project mapping | `codex-project-mapping*.ts`, `internal-codex-reconcile.ts` | saved and active list, markers, memberships | save, activate, reconcile | lists, users, imports and Codex disagree about what is deleted | `ProjectMapping` |
| Conversation topology | `conversation-topology.ts`, Codex normaliser, rc1 materialiser | turn and step of each event | plan, materialise, append | parallel calls, steering, results out of order, appends cut anywhere | `Conversation` |
| Native history | alpha2 and rc1 materialisers, `normalize-append.ts` | events with native envelopes | project, normalise, migrate | references by sequence over shifting sequences | `NativeHistory` |
| Scans and plans | `session-domain` discovery, diff, planner, `write-service.ts` | observations, heads, bindings, plans | scan, plan, apply, advance | scans racing each other and an apply | `Synchronisation` |
| Version graph | `graph.ts`, pages of `repository.ts`, resolution of `continuation-engine` | versions and parents | load, compare, resolve | pages read while versions are added | `VersionGraph` |
| Continuation | `continuation-engine`, `adapter-codex-continuation` | continuation jobs, bindings | create, recover, verify, bind | a thread that exists and is in no row | `Continuation` |
| Jobs | `apps/engine/src/jobs` | job rows, executions | create, cancel, resume, restart, stop | cancel against completion, restart against request | `Jobs` |
| Write coordinator | `write-coordinator.ts`, `engine-startup.ts` | owner record, recovery gate, connection file | acquire, recover, close | processes racing over a stale record | `WriteOwner` |
| Replacing the database | `canonical-migration.ts`, `canonical-reseed.ts`, `conversation-topology-repair.ts`, `config.ts` | candidates, manifests, the pointer | preview, stage, activate, migrate | a death between any two copies, commits since the preview | `Candidates` |
| Retention | `session-store/retention-*` | registry, batches, quarantine | register, preview, execute, restore, purge | renames and rows apart, references made meanwhile | `Retention` |
| Object store, status log, adapter host | `object-store.ts`, `session-status-log`, `adapter-host`, `session-adapter-sdk` | content-addressed files, hash chain, none | `put`, `append`, RPC | no protocol: see section 5 | — |
| Interfaces | dashboard, `session-ui`, `local-api-client`, HTTP routes, CLI, MCP proxy, scripts | none | — | presentation and wiring | — |

How they interact.  A DSH write is planned by `session-domain` and executed by the
transaction engine under the root lock shared by `TransactionExecutor` and
`TransactionRecovery` (`apps/engine/src/write-service.ts:128`); the adapter reaches the
DSH host by request and answer, and the host queues the operations on one session.
Mutations of the Engine itself run one after another under the write coordinator; what
they are computed from was often read before they entered its queue, and that is the root
of most hazards of the library.  The newer way into DSH is the projection: the provider
asks the broker for a run, `prepareRun` materialises a directory from the cache, DSH runs
on it, the plugin inside DSH captures appends and sends them to
`ProjectionLifecycle.append`, which commits them to the canonical engine through a
write-ahead log; when DSH has gone, `closeRun` or `recover` takes what is left.

Behaviour that is hard to test, with the properties about it, is listed line by line
under "hazards" in `PROJECT.json`.  Some hazards are stated by a property that the code
breaks; they are in section 3.

## 2. Modules

| module | what it is |
|---|---|
| `TransactionEngine`, `MCTransactionEngine`, `TransactionEngine_proofs` | the recoverable write transaction, its instance, theorems about it |
| `AppendOnce` | what a projection run promises, without the how |
| `ProjectionRun`, `MCProjectionRun` | one projection run: plugin, broker, lifecycle, write-ahead log, canonical appends, close and recovery; implements `AppendOnce` |
| `ProjectionRun_proofs`, `ProjectionHistory_proofs` | its type correctness; its safety and the refinement |
| `RunBroker`, `TailRecovery`, `MCProjections` | launches that compete for the lease; DSH's store as a recovery reads it; the instance of all three |
| `Projections_proofs` | theorems about the launches |
| `WriteOwner`, `Candidates`, `Continuation`, `ProjectionCache`, `Synchronisation`, `Capture`, `MCServices` | the protocols around one state root and their instance |
| `Services_proofs` | theorems about each of the six |
| `Jobs`, `Jobs_proofs` | background jobs over the write queue; theorems about them |
| `Retention`, `ProjectMapping`, `MCRetention` | storage governance; the project list; their instance |
| `Retention_proofs` | theorems about both |
| `Library`, `NativeHistory`, `MCLibrary` | the canonical library and its writers; histories with native rows; their instance |
| `Library_proofs` | theorems about the library |
| `Conversation`, `VersionGraph`, `MCConversation` | turns and steps of a conversation; the versions of a session; their instance |

Modules that share an instance do not interact: the MC module extends or instantiates
each, chooses a `focus` in its initial state, and takes only steps of that module.  The
initial states of the others are fixed to one meanwhile, so each is explored by itself and
`X => focus = ...` properties speak of one module.  `FocusSpec` (or `Spec` in `MCServices`) is that
specification; `FocusFairSpec` of `MCProjections` adds the fairness of `ProjectionRun` and
is run with the focus `run` only.

Three conventions hold everywhere.  An action is what happens between two points at which
something else can intervene: an `await` on I/O, a queue or an answer, a durable write
before which the process may die.  A constant named `Max...` is a bound and stands in
guards of what may happen again and again: requests, changes, deaths, growth.  Definitions whose comment says "Mutant" are the mutated forms
`PROJECT.json` names; no run uses them.

### TransactionEngine

One root and one target session.  Transactions of different roots share no state; plans
that write the same session are the case in which transactions can disturb each other.

State and what it stands for:

| variable | code |
|---|---|
| `saved`, `planned` | `plans` table; the target fingerprint the planner stored as precondition |
| `status`, `dbSteps` | `transactions.status`, `transaction_steps` (`repository.ts:1573-1656`) |
| `journal[p].steps` | the lines of `journal.jsonl` that parse and chain |
| `journal[p].tail` | how the file ends: `clean`, `torn` (a final line without newline), `corrupt` (a line inside that does not parse) |
| `backup[p]` | the captured descriptor and whether `saveBackupManifest` stored the manifest |
| `target` | the content of the DSH session, as the sequence of who wrote what, wholly or in part |
| `pending` | commit requests that left the Engine and that the host has not executed |
| `restores[p]` | restore requests of `p` the host still has although their caller lost the connection or died |
| `lock` | the lock file: absent, created but without owner record, of a live process, of a dead one |
| `holder` | the head of the in-process promise queue of `RootWriteLockManager` |
| `call[c]` | kind, plan, program position and the status the call is about to record |

The content of a session is abstract: a digest comparison is equality of `target`.  A
journal line is its status; sequence number and previous hash are its position, which is
what `readNow`, `reconcileJournal` and `recordTransactionStep` compare.  Codes and texts
of errors are left out; where the call goes after an error is not.

Actions: `SavePlan` (planner), `ApplyCall`, `RestoreCall`, `RecoverCall` (what the three
entry points check before they wait for the lock), `AcquireFile`, `WriteOwner`,
`InspectLock`, `ClearLock`, `ReleaseLock` (lock manager), `EnterApply`, `EnterRestore`,
`EnterRecover` (the checks repeated under the lock), `Reconcile`, `Resume` (recovery),
`AppendJournal`, `AppendThrows`, `RecordStep`, `RecordThrows` (the two halves of
`recordTransition` and their failures), `Prepare`, `Capture`, `SaveManifest`,
`SendCommit`, `Verify`, `SendRestore`, `LoseConnection` (adapter calls), `HostApply`,
`HostRestore`, `LateRestore` (the host executes a commit, a restore, a restore nobody waits
for), and the environment: `UserEdit`, `Crash`, `LoseJournalLine`.
Every `await` at which something else can intervene separates two actions; a run of
statements without one is a single action.  The catch blocks of `applyLocked` and
`restoreOnce` are `AfterThrow` and the failing disjuncts: where a failure goes depends on
the status being recorded and on the kind of call, as in the code.

Commits and restores are requests through one gateway, and nothing orders them: the gateway
awaits a probe before it queues for the session (`gateway.ts:70`), a lost connection
(`remote.ts:136`) or a dead Engine leaves the request with the host, and the host writes a
snapshot back whatever the session holds by then.  So a request is in `pending` or
`restores` until the host executes it, which may be after the transaction was reported, and
after others were.  A refused late restore changes nothing; the crash chooses whether the
request a call waits for had reached the host.  A recovery verifies nothing: the adapter
compares with the digest of a receipt, and recovery has none (`adapter.ts:267`), so `VerifyOk`
is only ever true of an apply (see `MatchingStateCompletes` below).

`FairSpec` adds weak fairness on the steps of a call (a pending promise is resolved),
weak fairness on the host (a request that arrived is answered; one that did not is
`LoseConnection`) and strong fairness on `AcquireFile`: the lock queue is a chain of
promises, first come first served, so a caller that is again and again at the head of a
free queue is served.  A user edit, a crash, a plan and a new call are never forced.

Bounds.  `MaxFaults` counts crashes, I/O errors, lost answers and damaged files together;
`MaxEdits` counts user edits; `MaxLines` stops *explicit restores* on a journal longer
than a full apply-and-restore needs, because a wedged transaction grows by one line per
attempt (`AheadIsRepairable` below).  Two faults are enough for a fault during the handling
of a fault, and for a late request: one fault leaves it behind, its recovery needs none.  Two
plans are two transactions in either order, one inside the other's late requests, since apply
refuses to start over an unresolved one.  `RaceSpec` lets two callers race until the last fault
has happened and runs one at a time after it.  The system may stop (no new calls), so the cfgs switch the
deadlock check off.

### ProjectionRun and AppendOnce

One run and one native session in it.  Sessions of a run share only the run row and the
directory; the one place where they meet, a failure of one that keeps the directory of
all, is the failure of a task here.  The calls of the runtime broker and the session
commands of one Engine run one after another under the write coordinator
(`engine.ts:325`), so `task` holds one call; between two durable writes of it the Engine
can die and DSH, the plugin and the provider move on.

| variable | code |
|---|---|
| `row` | `projection_runs.state` |
| `dir`, `checkpoint`, `file` | the run directory, its close checkpoint, the projected session file (how many events, logical session, base version, readable or torn) |
| `wal` | the record of every operation in `wal/`: absent, torn, pending, pending with `projectionApplied`, committed |
| `mapping`, `receipts` | rows of `projection_sessions` and `run_operations` |
| `canon` | logical sessions: head version, events, authority, tombstone |
| `engine`, `ctx` | the Engine process: the broker's entry (`runs`), the lifecycle's `preparedRuns` / `activeRuns` entry with the session it holds in memory, whether the bridge is attached |
| `task` | the call being executed and the next durable step of it |
| `dsh`, `plugin` | events DSH produced and stored; what the plugin has had acknowledged, its unanswered batch, the metadata for the next one |
| `prov` | what the lifecycle provider asks for next |

The actions follow the code in this order.  The plugin: `AttachRun`, `Emit`, `Persist`,
`SendRegister`, `SendAppend`, `Reply`, `StartDrain`, `DrainRun`, `Exit`.  A registration:
`WriteRegistration`, `ImportNative`, `RebaseRegistration`, `MapRegistration`.
`commitProjectionAppend`: `LookUp`, `PutPending`, `ApplyAppend`, `MarkProjectionApplied`,
`AppendDsh`, `SwitchLogicalSession`, `UpsertProjectionSession`, `MarkCommitted`; an
operation with a receipt or a record enters in the middle (`Reconcile`, `Resume`).  The
end of a run: `AskClose`, `AskRecover`, `BeginClose`, `BeginRecover`, `RestoreContext`,
`AdoptRegistration`, `SupersedeStalePending`, `ListPending`, `ListTorn`, `ReplayPending`,
`NextRecord`, `RecoverTail`, `CheckpointAndDetach`, `RemoveProjectionRun`, `FinishRun`.
`IoError` ends a task at any step with the row its catch block writes (`AfterThrow`),
`Crash` ends all of them; both leave what the interrupted write leaves (`Damage`): the
writes that are renames leave nothing, an exclusive create (`wx`) can leave a file that
does not parse, a recursive removal a part of the directory.

Data.  The events of the session are 1, 2, 3, ..., an operation is the interval it
appends together with the logical session and base version it carries, a version is its
number.  The preparation events DSH writes before the user sends anything, titles, tags,
projects and evidence are left out.  Asked a second time in one recovery, `RecoverTail`
finds nothing, as the code asks once.

Faults.  `Faulty` names the steps that can fail: `Everything` includes the answers that
are lost after the Engine acted.  `Buffered` lets DSH's own store lag behind what it told
the plugin.  `FairSpec` has weak fairness on the steps of the Engine (a promise is
resolved, a rejected one has a catch block), on its restart, and on `AskRecover`: the
Launcher keeps the handle of a run that is not finalised and calls the provider again
(`external-lifecycle-provider.ts`, retryable `RECOVERY_REQUIRED`).  DSH, its user, the
plugin and the dashboard are never forced.

`AppendOnce` is the abstract specification: DSH writes events, the run commits a longer
prefix of them, acknowledges no more than is committed, and ends only when all that DSH
saved is committed.  `ProjectionRun!Abstract` maps it: the history is that of the derived
session once there is one, and the run is over as soon as its directory is no longer whole.

Bounds.  Two events are one committed batch and one behind it; two deaths are one of the
Engine in an append and one in the recovery of it; one fault on top is a lost answer or
an error during either.  The liveness run has three events and two faults.  Two commands
are a deletion and its restoration, or an edit of each.


### RunBroker

The life of a run as the provider process, the Engine and DSH see it.  `row` is
`projection_runs.state`, whose unique index over the leased states (migration 008) is the
writer lease; `entry` the broker's and the lifecycle's memory of a run, `handle` the
provider's file for a launch, `requests` the calls that wait in the Engine's write queue
and `step` how far the first has come; `saved` are runs with captured events that are in
DSH's store only.  The provider can be gone before its call is answered, and the call is
executed nevertheless (`Timeout`, `ProviderDies`); `EngineDies` empties the Engine's
memory between any two steps; `Exit` ends DSH, drained or not.

A close is asked for a run whose directory is there and whose lease can be had; one that is
refused, as a recovery that is refused, leaves the row for the next recovery
(`LeftToRecovery`).  After a death of the Engine the calls that are repeated arrive in any
order.  `LaunchAssumption` says the bounds are numbers and the sets of launches finite.

`BrokerInv`: one DSH with a capturing plugin at a time; a directory goes only when what
its plugin captured is canonical; a handle's receipt is final only when directory and lease
are gone; a launch is called closed only if its plugin drained; captured events are in a
directory that is there.

Seen while modelling.  The lease is per branch and the provider always uses `main`, so all
launches compete.  A lost answer of `prepare` leaves a run in the lease that no handle
names, and later launches are refused; a lost answer of `close` leaves the handle in
`RECOVERY_REQUIRED` for ever (the data are safe); a failed attach leaves an entry until
the Engine restarts; the recovery of a quarantined run is refused while another holds the
lease.  After a death of the Engine between prepare and attach a run is discarded by its
row.  `beforeStop` and `afterExit` read and write the handle without a lock: one call per
launch at a time is assumed.  A partial removal of a directory is one step here; in
`ProjectionRun` it is not.

### TailRecovery

What a recovery makes of DSH's own store: a directory, a header, rows of one or several
events, and the start of one more row, as a text file or as zstd frames per batch.  DSH
writes in batches and can end inside any of these writes, the plugin's captures reach the
Engine independently, and a recovery can die and be repeated (`Again`).  `Collect` is
`recoverRuntimeTail` with its checks in order (lineage, mapping, depth, seed, header,
readability, contiguity); `PutPending`, `AppendTail`, `ApplyAppend`, `MarkCommitted` take
one operation over.  The two adapters read alike but for the seed of a fork.

`TailInv`: the projection is a prefix of what DSH emitted, once and in order; a finished
recovery leaves nothing DSH had stored; a refusal has one of the reasons `RefusalIsMeant`
lists: a directory without a file or with a torn header, an artifact shorter than what is
committed, an unregistered session with a real event.  Torn ends are no reason; the listed
reasons are for ever.  DSH's packing, frames and writes are external.

### Capture

The plugin for several sessions: `BeginHydration` ... `FinishHydration` copy a projected
session into DSH's store frame by frame and may break anywhere; `Observe` queues spans of
events; the promise chain of a session's queue is `tail` with the steps `Register`,
`FormBatch`, `Commit` (the Engine, one step here), `Acknowledge` or `Fail`, `Finally`;
flushes of DSH and of the drain wait for it.  A lost answer is a `Commit` whose
acknowledgement fails.

`CaptureInv`: what DSH reads of a projected session is the whole of it; the queue is what
was observed and not acknowledged; a batch that is sent is one the Engine can take; a
detached plugin has sent what it observed, sessions without a turn excepted.

Assumed of DSH (external): `create` refuses an id that has a file, events of a session are
given to the plugin in order, so that the branch of `observe()` that takes nothing and notes
a failure (no safe sequence, a gap: `projection-runtime.ts:997`, `:1007`) is not entered.
The drain stops at the first session that fails
(`index.ts:116`), and events after it are not captured.

### WriteOwner

Ownership of a state root by processes that share three files: the owner's record
(created exclusively, then written), the recovery gate, `connection.json`.  Each file
operation is a step and a process can die between any two.  `OwnerInv`: who took the root
is who the record names; a connection has its owner's record; one process works behind the
gate and moves away only the record it inspected.

Two Engines and a tool with two deaths are two recoveries racing an acquisition.

### Candidates

A database is a file and its write-ahead log; `Logged` writes are those the digest
`sourceState` covers, `Unlogged` ones are not.  The online migration, the offline repair
of conversations (preview, stage, activate) and the offline reseed each build a new file and
end with a renamed configuration.  Files have the fixed names the code gives them, so a
retry meets what the last attempt left.

`PointerInv`: the pointer names a complete database wherever a process died.
`SwitchIsClean`: a switch takes over every session state of the database it replaces, its
log included; and once a migration has built its files, candidate and archive hold every
write, whatever comes next: the switch, a configuration that refuses it, a death.  The
archive matters as much as the candidate: `docs/changes/SESSION-MAINT-CANONICAL-T19.md:46`
names it as the way back.

A failure before the files are built removes the candidate and the archive of this attempt
as far as their removals succeed (`Undo`); one behind it (`engine.ts:491`: the configuration
may refuse, see `config.ts:174`) removes nothing, and the names are taken when the migration
is tried again (`MigrationRetries`, section 3).

What the transformation makes of rows is abstract: a database holds writes.

### Continuation

A request becomes a job row, the job one Codex thread with one turn, the thread a binding.
`Expected` is the status each transition demands.  Codex may do what it is asked and the
answer be lost; the app-server may exit; the Engine may die between any two steps.
`ThreadInv`: one thread per request however often it is repeated; a completed job's thread
is bound and has its turn.  `RowsHold`: a recorded thread stays and its job is never
called failed; a verdict is final.  Three threads for two requests leave one to spare for
a second start; rendering the handoff text is not modelled.

### ProjectionCache

The cache of a branch and the journal of changes it follows (filled by triggers).  A delta
reads pages of the journal, loads the sessions they name, writes workspaces, files, index
and catalog, then the manifest; a baseline reads, checks that nothing changed and swaps
directories.  The library changes between any two reads, the adapter may be upgraded, an
update may stop between any two writes.

A rename of a session journals every member of its group, deleted ones included, in an
order the trigger of migration 015 does not fix (`Rename`).

`CacheFollows`: the manifest describes every settled session (no change behind the cursor)
as the library has it; between updates file, index and catalog have its head, interrupted
updates before included; without an interruption since the last baseline the whole cache
is what the library has.  With interruptions the last is false (`InterruptedIsCurrent`).

### Synchronisation

The older way: scans version what the platforms have, a plan compares two heads, applying
it moves the heads to what was verified.  One Codex session and the DSH session a
checkpoint's restoration makes of it; scans interleave with each other and with an apply
at every call of the repository.  `ScanInv`: a session a scan passes over is in the graph
with the content it has.

Seen while modelling.  Scans keep `catalog` fingerprints (`discovery.ts:54`) while an apply
compares `content` (`composition-root.ts:121`), so every plan with a precondition is
stale.  `createPlan` uses the target as base (`engine.ts:695`).  After an advance the
source's head is a DSH body, and the next changed Codex scan is `IDENTITY_CONFLICT`
(`discovery.ts:94`).  `recordObservation` overwrites the head (`repository.ts:785`).
The verified version has only the target's head as parent, so the source's history is not
linked to it.

### VersionGraph

The versions of one session in the order of their creation times, read in pages of
`PageLimit` while scans and applied plans add versions at any place.  `Accepted` is the
constructor's check, `Distances`, `IsAncestor`, `MergeBase`, `Classify` the algorithms of
`graph.ts`; a comparison and a resolution read page after page and decide.

`GraphInv`: a relation that is answered is true of the whole graph by the definition of
ancestors and stays so, a merge base is a nearest common ancestor; an accepted load has
every version there was when it began; a load is refused only if a version was added
meanwhile or the two have not diverged; the parents of a resolution have diverged.

Ids and page order are one.  An insert before the offset shows a version twice or misses a
parent: the load is refused and can be repeated.  A merge base minimises the sum of
distances, ties by id; with criss-cross merges it need not be lowest.  `loadVersionBody` of
discovery reads the first page only, so a session with more than 50 versions cannot be
scanned again once it changed.  `listReachableObjectIds` has no caller.

### Conversation

A rollout of Codex gets turns from the normaliser (`StartTask`, `EndTask`, `Record`,
`Compact`), its topology is planned (`Plan`), `Rows` is the native log rc1 makes of it,
`Inspect` what DSH accepts, `Emit` what DSH's model and user add, `AppendDsh` how it comes
back, in batches cut anywhere.  Kinds that planner and materialiser treat alike are one.

`HistoryInv`: a log that materialises is one DSH accepts, no event of the model moves
across a user's message, and an eligible conversation keeps every call and result.
`ChunkingIrrelevant`: planning the stored history with each batch gives the topology the
whole would get at once, unless it has conflicts.

Five events are a turn with two parallel calls, their results and a user who steers.  The
initial histories of the graph focus are those two applied plans and a scan leave.

### NativeHistory

Events with their native envelopes, projected under alpha2 or rc1, continued and taken
back; rows refer to rows by sequence and sequences are numbered anew at every projection
(stored rows hold several chunks, a Codex call gets a message of its own).  Two repairs,
the restoration of turn boundaries and `portableizeRc1CanonicalHistory`, run between runs.

`NativeInv`: what was recorded can be given to DSH again and is the log DSH had, references
included; the native log is never behind the canonical sequences; what the repairs leave
rc1 opens.

Seen while modelling.  A replacement of an imported Codex result would be rebased under
alpha2 as if its native number were canonical; in rc1's portable mode it becomes a second
result of its call.  An alpha2 history that ended inside a turn is refused by rc1 even
after its boundaries are restored; a mirror continued under alpha2 is "mixed" for rc1 until
repaired.  Turn numbers are abstract, user rows take the path of other rows and are not
emitted, evidence reclaimed between a run's begin and its recovery is not modelled.

### Library

The versions and rows of a mirror, a DSH session and the session a run derives, written by
a job, an observer, a title sync, a run and the dashboard.  Each write is one operation of
the queue; what it writes was read before (`ReadHead`, `Stamp`, `ReadTitle`, `Prepare`).

`LibraryInv`: what the observer passes over is imported, the mirror's reference has its
head's body, a session with a tombstone is deleted in its row, whatever appends and deletions
do.  `WritesAreKept`: no write is lost under a head made
elsewhere, a mirror follows its thread forward only, a title stays until another is given.

A deletion that finds operations pending marks the row and makes no tombstone
(`DeletePending`); the operations are rows of `run_operations` (see `DeleteWaits`).  The
converse of the tombstone rule does not hold for this reason, and the append that was waited
for writes the row of its run, which is not deleted: see `DeletedIsKept` in section 3.

### ProjectMapping

The saved list of mirrored projects becomes active when a run starts; the activation
deletes with markers what the list left out and restores by marker what it takes in again,
while threads move, imports begun under another list end, users delete and restore, and an
offline reconciliation removes internal sessions.

`MappingInv`: no list is lost; what a user deleted stays deleted; what a list removed can
return; a live mirror belongs to the active list or was restored by the user; local
sessions are left alone; a live session is in a visible project.

Seen while modelling.  `internal-codex-reconcile` cannot delete a session that ever had a
tombstone (INSERT without ON CONFLICT).  Deleting an already removed session does nothing,
so a later list may bring it back.  A mirror whose thread moved between the sync and the
second reading keeps its old membership.  Workspaces, roots and refusals of unsafe
directories are abstract; an append that takes a pending deletion back is in `Library`.

### Jobs

Rows of jobs, their executions, the write queue in front of the rows, the requests that
create, cancel and resume, shutdown and restart.  `ExecutionInv`: a job has at most one
execution and no open job is forgotten.  `CancelHolds`: a cancellation written while the
execution had its signal, with its transition to running behind it, is final until somebody
resumes or the full queue refuses the execution a write.  Both provisos are the code's, and
more requests than the run makes show each: a cancellation asked for before there was an
execution can be written before that execution's transition to running, which overwrites
it; and an execution whose write is refused is lost to its row.  `VerdictsHold`: completed is for ever, failed until a
resumption, and no restore runs in an Engine that was not asked.  `StopEnds`, under weak
fairness of executions, of the queue and of accepted requests (pending promises are
resolved), says a shutdown ends.  Deadlock is checked; the process always may start again
or rest (`Done`).  One job of each kind: jobs meet only in the queue, and three of them
fill it.

### Retention

The registry, the batches, where each file is, and what runs, transactions, checkpoints
and sessions say meanwhile.  Each rename, unlink and committed row of a batch is a step;
`Crash` and `IoError` fall before and after each.  `Blockers`, `GuardHolds`, `InUse` and
the policy (`Plan`, `Candidate`, `Evicted`, `Executable`) are the functions the code
asks.  The caches are generations of one path, because an overlay names a path.

`BaseAvailable`: while no call has been interrupted, a run that is not released has the
base its overlay names.  `BaseKept` says so unconditionally, as the code means it, and is
false (section 3).
`QuarantineJournalled`: what is in quarantine is an unfinished item of that batch.
`RegistryInv`: rows are typed and generations apart.  `ReleaseIsSafe`: what is released was
not needed at that moment, whatever was registered or pinned since it was planned.
`ReturnedIsCovered`: a restoration or release that returns leaves the registry true of the
files.

The bounds: two resources of a kind are one to govern and one that depends on or
replaces it; a fault falls in any call and again in its resumption; two batches overlap.
Hard links, junctions, paths outside roots, companions of SQLite files and the preview of
object stores are not modelled.

## 3. Runs

| run | instance | question |
|---|---|---|
| `transaction_sequence` | 2 plans, 2 callers, 2 faults, 1 edit, requests that are late | does the journal protocol keep its promises through crash, replay, recovery and explicit restore, and do transactions respect each other's content? |
| `transaction_return` | 1 plan, 2 callers, 2 faults, 1 edit, fair | is the critical section exclusive, does every call return, and is its verdict true of the platform? |
| `projection_safety` | run: every kind of session, 2 events, 1 fault at any step, 2 deaths, 2 commands; broker: 2 launches, 1 restart, 2 losses; tail: a projected and a created session, 3 events, 1 death in the recovery | is what DSH appends taken over once, in order, and never thrown away? |
| `projection_recovers` | Codex mirror, 3 events, 2 faults, 1 death, fair | does what DSH saved become canonical in the end? |
| `retention` | two runs, caches, backups or bundles, 1 fault, 2 changes, 2 batches; mapping: 2 lists saved, 2 commands, 1 move, a thread, a child, a native session | is nothing quarantined or released that is needed; do lists, users and imports respect each other? |
| `jobs` | an import, an apply, a restore, 3 requests, 3 starts, queue of 3, fair | one execution per job, cancellations and verdicts final, shutdown ends? |
| `services` | 2 engines and a tool with 2 deaths; 2 requests, 3 threads, 4 calls, 1 crash; 1 logged and 1 unlogged write with 2 deaths; 2 sessions, 3 journal rows, 1 upgrade, 1 interruption; 2 scanners, 2 changes, 3 versions; a projected and a live session, 3 own events, 1 fault | section 2, module by module |
| `conversation` | rollouts of 4 events, 5 with DSH's, 1 restart; graph: 6 versions, pages of 2 | is one topology computed however the history was cut; is what is read in pages true? |
| `library` | bodies to 2, 1 new title, 2 edits, 2 writers at once (1 with the second edit), 3 versions; native: 4 rows, 2 runs | is no write lost and no history mangled? |

The systems may rest in any state without calls, so the deadlock check is off except in
`jobs`.  Symmetry is used where the permuted constants appear only as such (calls and
bindings in `conversation`).

Fairness is assumed where the code's scheduling gives it, in three runs:
`transaction_return` (section 2, `FairSpec`), `projection_recovers` and `jobs`.  Promises
are resolved, a rejected one has a catch block, the Launcher calls again for a run that is
not finalised.  Users, DSH, crashes and new requests are never forced.

What the transaction runs show: `JournalLeadsDatabase`: whenever a call acts on the platform the
rows are a prefix of the journal.  `BackupBeforeCommit`: no request and no byte of a plan is out
before its manifest is stored, and a restore always has one (so the branch of
`recoverLocked` for a missing manifest is never taken and is not modelled).
`WrittenOnce`: a transaction's content is written by one request, once, and a transaction
reported completed has none on its way and no half write that is on the platform or can come
back with a snapshot.  (Of one reported restored this cannot be said: its commit may land
behind the restore, `RestoredStaysRestored` below.)  `MutualExclusion`: renaming a stale lock
away can hit a live lock file; the in-process queue still keeps the section exclusive.
`OthersUntouched`: what takes away the content of a completed transaction is the restore of
another one that had itself been completed, or a restore request executed so late that its transaction has been
reported restored meanwhile; no rollback a caller waits for does, and none of a
transaction that is still unresolved.  The second exception is a behaviour of the code: the
Engine dies while a rollback is with the host, the recovery of the next Engine restores the
session and reports it, a new apply completes, and the first rollback then puts the old
snapshot over it.  `NoStackedRequests` states the sentence of the design that forbids it.
`OthersUntouched` is a property of two plans.  With four it fails: a restore of `o` takes the
content of `p` with it, the restore of `r` brings it back, and the rollback of `q`, whose
snapshot lacks `p`, removes it.  `VerdictMatchesContent`, `CallsReturn`: with a single
transaction verdicts are true when recorded, late restores included, and no call waits for
ever.

What the projection runs show: `AppendedOnce` (refinement of `AppendOnce`): retries, reconciled
receipts, replayed records and the recovered tail can cover the same events under
different operations; the history grows by the next events only, and the directory goes
only when nothing saved is missing.  `OneDerivedSession`: a Codex mirror derives one
session in a run, although the mapping may name the mirror for a while.
`WriteAheadOrder`: file, canonical history, receipt and mapping keep their order over
every death in between.  `MaterialKept`: no record is set aside and no directory removed
that an uncommitted operation still needs, and no directory goes before the close
checkpoint.  `EventuallyCanonical`: shown for a Codex mirror.  For a Maintenance session
it fails (below); for a session created in DSH it fails on purpose when the registration
never reached the Engine (`RECOVERY_MAPPING_MISSING`).

The properties of the other runs are described with their modules.

Three runs are counterexamples: statements of the repository's documents or tests that
the code does not keep.  `PROJECT.json` "findings" quotes the statement for each.

| run | what happens |
|---|---|
| `completed_undone` | the Engine dies between the journal line and the row of `completed`; recovery replays the line, then restores the snapshot over the verified write |
| `retention_base` | a cache is in quarantine, the Engine dies between its rename and its row; an older generation is restored into the path meanwhile, so one path has two registrations, and a plan that counts either as the spare of the other takes the base of a run that is on disk |
| `projection_first_commit` | the Engine dies between the first commit of a Maintenance session and its mapping row: recovery corrects the revision and keeps the old base, so the tail behind it is refused as stale for ever |

More such statements are in the modules, with the same kind of counterexample; no run is
kept for them.  To see one, name it in a cfg (`PendingPlaceIsKept` needs `MaxEdits = 5`).

| property | module | counterexample |
|---|---|---|
| `MatchingStateCompletes` | `TransactionEngine` | the receipt recovery builds has no digest, so `verify` fails and a complete commit is rolled back |
| `ThirdStateNeedsReview` | `TransactionEngine` | recovery restores over content the user added |
| `NoStackedWrites` | `TransactionEngine` | an explicit restore writes while another transaction is unresolved |
| `NoStackedRequests` | `TransactionEngine` | a restore request outlives its Engine and is still with the host when the next transaction commits, although `docs/superpowers/specs/2026-08-26-dsh-codex-session-maintenance-design.md:430` forbids to stack writes on a platform state that is not determined |
| `StalePlanNeverCommits` | `TransactionEngine` | fingerprints are read before the lock is waited for (`executor.ts:183`), the commit goes out on a target that changed since |
| `StaleCommitWritesNothing` | `TransactionEngine` | a commit refused as stale is answered with a restore over the user's edit (`executor.ts:378`) |
| `RestoredStaysRestored` | `TransactionEngine` | a commit whose connection was lost lands after the restore that undid it |
| `TornLineIsIgnored` | `TransactionEngine` | a torn final line fuses with the next append and the journal is unreadable for ever (`journal.ts:80`) |
| `AheadIsRepairable` | `TransactionEngine` | one failed row during an explicit restore wedges the transaction: recovery refuses it, restore never reconciles (`executor.ts:409`) |
| `DeleteWaits` | `ProjectionRun` | deletion counts `run_operations` rows with status `pending`, which nothing writes: an append waiting in the log is never seen |
| `RegistrationRecovered` | `ProjectionRun` | the Engine dies between the base version in the projected file and the mapping row of a new session: the run is quarantined instead of reconstructed |
| `RunEnds` | `ProjectionRun` | a failure at or after the removal of the directory leaves a run no retry can finish |
| `EventuallyCanonical` with `Commands = {"edit"}` | `ProjectionRun` | an edit moves the head; the appends and the recovery of the run are stale from then on |
| `BatchResumes` | `Retention` | a flat recovery point moved halfway no longer passes the inspection a resumed batch begins with |
| `CancelKept` | `Jobs` | a cancellation between the signal and its write is overwritten by the transition to running or the requeueing |
| `DrainedIsIdle` | `Jobs` | a resumption accepted before the shutdown is neither refused nor waited for |
| `AckedIsKept` | `Candidates` | the Engine that switched the pointer goes on writing to the old database (`engine.ts:491`) |
| `MigrationRetries` | `Candidates` | the configuration refuses the switch after the migration has returned (`engine.ts:491`, `config.ts:174`), or a removal fails: candidate and archive stay, and every later attempt is refused (`canonical-migration.ts:454`) |
| `ThreadRecorded` | `Continuation` | an answer lost after the thread was made leaves a failed job without it |
| `InterruptedIsCurrent` | `ProjectionCache` | a membership written by an update that stopped, and taken back, is passed over by the next one |
| `StaleMeansChanged`, `StaleWritesNothing` | `Synchronisation` | catalog fingerprints against contents; the plan of a checkpoint that is no longer the head has no precondition (`write-service.ts:183`), although `docs/superpowers/plans/2026-08-27-session-maintenance-phase-2-a-transaction-and-dsh-writer.md:44` promises "stale precondition produces `PLAN_STALE` and zero platform writes" |
| `AppendAccepted` | `Conversation` | canonical sequences keep rows the next native log drops, so an append can be refused |
| `PlaceIsKept`, `PlaceIsThere`, `SkippedTitleIsImported` | `Library` | an append writes the workspace its run was prepared with; a session is restored into a deleted workspace; a title sync commits an old title and the observer passes the thread over |
| `DeletedIsKept`, `PendingPlaceIsKept` | `Library` | the append a pending deletion waits for marks the row not deleted (`dsh-append.ts:207`), although `docs/changes/SESSION-MAINT-CANONICAL-T16.md:10` keeps the session in pending-delete until a retry makes the tombstone; restoring a pending deletion uses the place an older, resolved tombstone kept |
| `DirectoryIsOne` | `ProjectMapping` | a session begun in a hidden project's directory makes a local project there; listed again both are shown |

## 4. Theorems

All hold for any sets and bounds; what they assume of the constants are the named
assumptions of the modules, which say that bounds are numbers and that sentinels are no
members, and which every run evaluates.

`TransactionEngine_proofs` (from `ConstantsAssumption`):

- `TypeCorrect`: `Spec => []TypeOK`.  `TypeOK` alone is not inductive: `RecordStep` stores
  `call[c].status`, which `CallStates` allows to be `"none"`.  The strengthening
  `RecordsStatus` says a call about to record always has a real status.
- `Exclusive`: `Spec => []MutualExclusion`; inductive as it stands together with the types.
  The proof never mentions `lock`, which is the point: the file is not what excludes.
- `BackedUp`: `Spec => []BackupBeforeCommit`.  The inductive invariant `BackupInv` says that
  every place that can carry a late status (a call, a row, a journal line, a request)
  implies the stored manifest, that recovery runs only for transactions with a row, and
  that content of `p` is found in the target or in any snapshot only after `p` had begun:
  a snapshot of one plan can contain content of another and a restore brings it back, so
  the target alone is not enough.
- `JournalLeads`: `Spec => []JournalLeadsDatabase`.  `LinesInv` relates rows and journal for
  every transaction at every program point: equal, or the journal one line ahead while a
  row is due, or longer after a failed row, which only `Reconcile` mends; `StandsOn` says
  which of these a call at a point stands on.
- `WritesOnce`: `Spec => []WrittenOnce`, with requests executed in any order.  `WriteInv` says
  that a call before its request is the first of its plan (`EarlyCalls`), that a request on its
  way finds nothing of its plan anywhere (`SentOnce`), that all contents, snapshots included,
  agree on how a plan was written (`Marks`), and that success, in a row, in a journal line or
  about to be recorded, is about a plan with no request and no half write left (`SettledRows`,
  `SettledCalls`).  Verification sees the whole write on the target; only `SentOnce` and `Marks`
  make of this that nothing else of the plan is left, on the platform or in a snapshot.

`ProjectionRun_proofs` and `ProjectionHistory_proofs` (any kind of session, any set of failing
steps, with or without buffering):

- `TypeCorrect`: `Spec => []TypeOK`.  `TypeOK` lets an operation carry the name `Root` of the
  empty one, and then the step that looks its receipt up has no value.  The strengthening
  `OpsNamed` says that an operation being appended, waiting in the log, listed for replay or
  held by the plugin has a name in `OpIds`, and that the record of an operation is the one
  it is filed under.  The corrected revision of `RestoreContext` stays within `MaxEvents`
  only because the corruption check before it has bounded the canonical length by the file.
- `Implements`: `Spec => AppendedOnce`, the refinement of `AppendOnce`, initial states and
  every step.
- `WriteAhead`, `OneSession`, `Material`: `[]WriteAheadOrder`, `[]OneDerivedSession`,
  `MaterialKept`.

  All four follow from one inductive invariant, `RunInv`.  Its parts say, for every program
  point of a task, how the event counts of the file, the heir of the session, the receipts
  and the mapping are ordered; what a record in the log must look like while its operation
  has no receipt; that an operation in the plugin, in the log or in a replay list begins at
  or before the canonical length and, if it is beyond, continues it; and that the mirror
  itself has no receipt.  The refinement alone is not inductive because a commit is decided
  by the base version an operation carries, which several copies of it share.

`Services_proofs` (from `OwnerAssumption`, `ContinuationAssumption` and those named below),
about the modules `MCServices` instantiates:

- `OwnerSafe`: `Spec => []OwnerInv`.  The inductive invariant adds what each program point
  between reading and acting knows: who is behind the gate, that a record found dead stays
  while the gate is held, whose connection may still exist.
- `ThreadSafe`, `RowsNeverTurnBack`: `Spec => []ThreadInv`, `Spec => RowsHold`.  The
  strengthening relates the row of the operation under way, the thread it holds and what
  Codex made for it.
- `PointerSafe`, `SwitchesAreClean`: `Spec => []PointerInv`, `Spec => SwitchIsClean`.  The
  strengthening says what each operation has built so far and that a manifest vouches for the
  database it was made of; that the archive is a copy of the whole source from the copies on
  is what the second half of `SwitchIsClean` rests on.
- `CaptureSafe`: `Spec => []CaptureInv` (from `CaptureAssumption`).  The inductive invariant
  orders observed, queued, sent and committed spans per session and says what the promise of
  a queue may have seen when it is forgotten.
- `ScansAreSound`: `Spec => []ScanInv` (from `ScanAssumption`).  The strengthening says that
  what a scan holds of a platform is no newer than the platform's stamp and that a version
  carries the content it was made of.  The proof also shows why the plans of this path do
  little: only a restoration without precondition ever writes, and once, as a catalog
  fingerprint is never the one an adapter observes.
- `CacheIsFollowed`: `Spec => []CacheFollows` (from `CacheAssumption`).  What makes it
  inductive is that heads only grow: a head that is in the manifest and that the library
  still has is in file, index and catalog, whatever update was interrupted in between; what
  an update has loaded is as the library has it, but for what the journal names behind the
  cursor (`DeltaFits`, `LoadFits`, `EditFits`); and a cache without an interruption equals
  its manifest (`CleanFits`).  That a rename journals every member, in any order, is counted
  with a pigeonhole argument.

`Retention_proofs` (from the assumptions of `Retention`, and `MappingAssumption`):

- `RegistrySafe`, `QuarantineSafe`, `BaseSafe`: `[]RegistryInv`, `[]QuarantineJournalled`,
  `[]BaseAvailable`; `ReleasesSafe`: `ReleaseIsSafe`.  The inductive invariant has four layers,
  each proved from the one below.  `Governed`: types, a registered resource is at its path or
  in a batch that has it, the call under way is about items of its batch.  `Answered`: the
  tree an item names is where item and row say, no two trees share a place, what was moved
  was moved whole.  `Settled`: what an item that has not begun, one between its rename and
  its row, and one being released look like; and, as long as no call was interrupted, that
  everything is in place, so that a cache is released only when no run is left that names
  it.  `Vetted`: what a saved guard vouches for, so that a release resumed after an
  interruption still leaves what the policy keeps (`Dispensable`).
- `MappingSafe`: `[]MappingInv`.  The invariant relates, for each session, the row, its
  marker and tombstone and the user's last word; for an import or sync under way, the list it
  began under; and for an activation, what of it is done.

`Jobs_proofs` (from `JobsAssumption`): `ExecutionSafe`: `[]ExecutionInv`; `CancellationsHold`:
`CancelHolds`; `VerdictsStay`: `VerdictsHold`.  `JobsInv` relates the entries of the queue to the
executions that wait for them one to one, says which transition an execution's place allows in
the queue, and that a cancellation in the queue is behind the transition to running whose
execution heard it.  That a request finds a free slot is the pigeonhole principle.

`Projections_proofs` (from `LaunchAssumption`): `BrokersSafe`: `[]BrokerInv`.  `BrokerIInv` has
one part for the lease, one for what a run's row, directory, the Engine's memory, DSH and
the plugin say of each other, one for what the provider's record may claim, one for every
call that waits in the Engine's queue (its caller may be dead), and one for the step the
first of them has reached.

`Library_proofs` (from `LibraryAssumption`): `LibrarySafe`: `[]LibraryInv`; `WritesKept`:
`WritesAreKept`.  What is needed beyond the property are the memories of those who read
before they write: what an import saw is no older than the mirror as long as the head is the
one it expects (`ReaderFits`), what the observer remembers is in the mirror (`CacheFits`), and
the title a run was prepared with is that of the version it was lent as long as this is the
head (`RunFits`), which is why an append does not undo a title.

The strengthenings were checked by TLC as invariants of the runs before they were proved.
Some found the model too narrow: the two provisos of `CancelHolds` (section 2), the order
of the calls a dead Engine left behind, of a rename's journal rows.  Some definitions
(`BeginRecover` and `Reply` of `ProjectionRun`, `Read` of `NativeHistory`, `Delta` of
`Synchronisation`, `Reconcile` of `Retention`) are written with IF or with guards that
exclude each other rather than with a CASE whose guards overlap: TLC takes the first that
holds, the logic leaves the choice open.

What stays with TLC.  Liveness (`CallsReturn`, `EventuallyCanonical`, `StopEnds`): the
prover has no ENABLED.  `ChunkingIrrelevant`, `HistoryInv`, `GraphInv`, `NativeInv` and
`TailInv`: they speak of computed values (topologies, distances, projections, decoded
artifacts), which needs induction over data.  `VerdictMatchesContent` is a property of one
transaction on the target and `OthersUntouched` one of two (section 3), so neither holds for
every value of the constants.  `ReturnedIsCovered` is checked for two batches: it speaks of
the other batches that still move a resource, and the generations of a cache that share a
path make no theorem of it yet.

## 5. Not modelled

The object store writes files once under their digest and nothing removes one; the status
log is appended under one lock and read by nobody who decides; the adapter registry and
host validate and forward.  Readers, renderers, schemas, routes, the command line, the
dashboard, the MCP proxy, packaging and scripts convert or present.  The cryptography of
confirmations and tokens, hashing, compression and the layout of files are abstract
throughout.  `PROJECT.json` "components" says for each modelled part what is left out.

## 6. Plan

Left to prove: `ReturnedIsCovered` of `Retention`, with an invariant that says which item of
which batch answers for each generation at a path, and what the decoder of a tail makes of
an artifact (`TailInv`), should induction over data come within reach.
