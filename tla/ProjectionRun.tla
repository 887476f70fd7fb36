--------------------------- MODULE ProjectionRun ---------------------------
(***************************************************************************)
(* One projection run: the directory DSH works on, its write-ahead log,    *)
(* the operation receipts and the canonical versions in SQLite, the        *)
(* ProjectionLifecycle behind the runtime broker, the plugin inside DSH    *)
(* that sends what DSH appends, and the provider that closes or recovers   *)
(* the run when DSH has exited.                                            *)
(*                                                                         *)
(* One native session is modelled: sessions of a run share only the run    *)
(* row and the fate of the directory.  Broker calls and session commands   *)
(* of one Engine run one after another under the write coordinator         *)
(* (engine.ts:325), so there is one task at a time; every durable write of *)
(* it is a step of its own, between which the Engine can die and DSH, the  *)
(* plugin and the provider can move.                                       *)
(*                                                                         *)
(* The events of the session are 1, 2, 3, ...; an operation appends the    *)
(* events lo+1..hi, and the content of a projected file is how many it     *)
(* holds.  A version of a logical session is its number.                   *)
(***************************************************************************)
EXTENDS Integers, Sequences, FiniteSets

CONSTANTS
    Kinds,       \* which sessions: "maintenance", "codex", or "live" (created in DSH)
    Buffered,    \* may DSH's own store lag behind what it told the plugin?
    Faulty,      \* the steps an I/O error or a lost answer can hit
    MaxEvents,   \* bound: events DSH produces
    MaxFaults,   \* bound: I/O errors and lost answers together
    MaxCrashes,  \* bound: deaths of the Engine process
    MaxEdits,    \* bound: commands of the dashboard on the session
    Commands     \* the commands used: "edit", "delete", "restore"

ASSUME ConstantsAssumption ==
    /\ Kinds \subseteq {"maintenance", "codex", "live"}
    /\ Buffered \in BOOLEAN
    /\ MaxEvents \in Nat
    /\ MaxFaults \in Nat
    /\ MaxCrashes \in Nat
    /\ MaxEdits \in Nat
    /\ Commands \subseteq {"edit", "delete", "restore"}

VARIABLES
    row,        \* projection_runs.state
    dir,        \* the run directory: whole, partly removed, gone
    checkpoint, \* has the close checkpoint been saved?
    file,       \* the projected session file
    wal,        \* the write-ahead log record of every operation
    mapping,    \* row of projection_sessions
    receipts,   \* rows of run_operations
    canon,      \* the logical sessions and their head versions
    engine,     \* the Engine process and its broker entry of this run
    ctx,        \* the in-memory context of the lifecycle
    task,       \* the call the Engine is executing
    dsh,        \* the DSH process and its own event store
    plugin,     \* the capture queue of the plugin
    prov,       \* what the lifecycle provider is doing
    spent       \* faults, crashes and commands used up

vars == <<row, dir, checkpoint, file, wal, mapping, receipts, canon, engine,
          ctx, task, dsh, plugin, prov, spent>>

(***************************************************************************)
(* Values                                                                  *)
(***************************************************************************)
Root == <<"root", 0, 0>>
LiveId(hi) == <<"live", 0, hi>>
TailId(lo, hi) == <<"tail", lo, hi>>
OpIds == {LiveId(hi) : hi \in 1..MaxEvents}
            \cup {TailId(lo, hi) : lo \in 0..MaxEvents, hi \in 1..MaxEvents}
\* The derived session of a Codex mirror is named after the operation.
Logicals == {Root} \cup OpIds

Ops == [id : OpIds \cup {Root}, lo : 0..MaxEvents, hi : 0..MaxEvents,
        logical : Logicals, base : Nat]
NoOp == [id |-> Root, lo |-> 0, hi |-> 0, logical |-> Root, base |-> 0]
\* A native session is not mapped yet while base is 0.
Mappings == [logical : Logicals, base : Nat, rev : 0..MaxEvents,
             last : OpIds \cup {Root}]
NoMapping == [logical |-> Root, base |-> 0, rev |-> 0, last |-> Root]
NoReceipt == [logical |-> Root, version |-> 0, rev |-> 0]
NoSession == [version |-> 0, body |-> <<>>, scope |-> "maintenance", gone |-> FALSE]

Rows == {"preparing", "running", "draining", "recovering", "closed", "recovered",
         "recovery-required", "cleanup-pending", "quarantined"}
Steps == {"none", "begin", "write", "import", "rebase", "map", "list", "restore",
          "adopt", "supersede", "replay", "tail", "look", "put", "apply", "mark",
          "commit", "switch", "upsert", "settle", "done", "checkpoint",
          "remove", "final"}
Cleanup == {"remove", "final"}
NoTask == [call |-> "none", at |-> "none", op |-> NoOp, todo |-> {}, fixed |-> 0]
NoContext == [where |-> "none", accepting |-> FALSE, bridge |-> FALSE,
              codex |-> FALSE, map |-> NoMapping]

Known(m) == m.base # 0
Receipted(id) == receipts[id].version # 0
Exists(l) == canon[l].version # 0
Pending == {id \in OpIds : dir = "whole" /\ wal[id].state \in {"pending", "applied"}}
Torn == \E id \in OpIds : wal[id].state = "torn"
FirstEvents(n) == [i \in 1..n |-> i]
Events(op) == [i \in 1..(op.hi - op.lo) |-> op.lo + i]

Files == [there : BOOLEAN, torn : BOOLEAN, events : 0..MaxEvents,
          logical : Logicals, base : Nat]
Records == [state : {"none", "torn", "pending", "applied", "committed"}, op : Ops]
Receipts == [logical : Logicals, version : Nat, rev : 0..MaxEvents]
Sessions == [version : Nat, body : Seq(1..MaxEvents),
             scope : {"maintenance", "codex"}, gone : BOOLEAN]
Engines == [up : BOOLEAN, known : {"none", "prepared", "attached"}, drained : BOOLEAN]
Contexts == [where : {"none", "prepared", "active"}, accepting : BOOLEAN,
             bridge : BOOLEAN, codex : BOOLEAN, map : Mappings]
Tasks == [call : {"none", "register", "append", "close", "recover", "discard"},
          at : Steps, op : Ops, todo : SUBSET OpIds, fixed : 0..MaxEvents]
Processes == [state : {"starting", "running", "draining", "exited"},
              emitted : 0..MaxEvents, log : 0..MaxEvents]
Queues == [acked : 0..MaxEvents, batch : Ops, logical : Logicals, base : Nat]

TypeOK ==
    /\ row \in Rows
    /\ dir \in {"whole", "partial", "gone"}
    /\ checkpoint \in BOOLEAN
    /\ file \in Files
    /\ wal \in [OpIds -> Records]
    /\ mapping \in Mappings
    /\ receipts \in [OpIds -> Receipts]
    /\ canon \in [Logicals -> Sessions]
    /\ engine \in Engines
    /\ ctx \in Contexts
    /\ task \in Tasks
    /\ dsh \in Processes
    /\ plugin \in Queues
    /\ prov \in {"idle", "recover", "done"}
    /\ spent \in [faults : 0..MaxFaults, crashes : 0..MaxCrashes, edits : 0..MaxEdits]

\* prepareRun has returned: the directory is materialised, the broker knows the
\* run, DSH has been launched on it.
Init ==
    \E kind \in Kinds :
        LET known == kind # "live"
            scope == IF kind = "codex" THEN "codex" ELSE "maintenance"
            first == [NoMapping EXCEPT !.base = IF known THEN 1 ELSE 0]
        IN
        /\ row = "preparing"
        /\ dir = "whole"
        /\ checkpoint = FALSE
        /\ file = [there |-> known, torn |-> FALSE, events |-> 0,
                   logical |-> Root, base |-> first.base]
        /\ wal = [id \in OpIds |-> [state |-> "none", op |-> NoOp]]
        /\ mapping = first
        /\ receipts = [id \in OpIds |-> NoReceipt]
        /\ canon = [l \in Logicals |-> IF l = Root /\ known
                        THEN [NoSession EXCEPT !.version = 1, !.scope = scope]
                        ELSE NoSession]
        /\ engine = [up |-> TRUE, known |-> "prepared", drained |-> FALSE]
        /\ ctx = [NoContext EXCEPT !.where = "prepared", !.map = first,
                                   !.codex = (scope = "codex")]
        /\ task = NoTask
        /\ dsh = [state |-> "starting", emitted |-> 0, log |-> 0]
        /\ plugin = [acked |-> 0, batch |-> NoOp, logical |-> Root, base |-> first.base]
        /\ prov = "idle"
        /\ spent = [faults |-> 0, crashes |-> 0, edits |-> 0]

(***************************************************************************)
(* Tasks and the errors that end them                                      *)
(***************************************************************************)
Idle == engine.up /\ task = NoTask
At(step) == engine.up /\ task.at = step
GoTo(step) == task' = [task EXCEPT !.at = step]
Begin(call, step) == task' = [NoTask EXCEPT !.call = call, !.at = step]
Alive == dsh.state \in {"running", "draining"}

files == <<dir, checkpoint, file, wal>>
tables == <<row, mapping, receipts, canon>>
memory == <<engine, ctx>>
outside == <<dsh, plugin, prov, spent>>

Fault == spent.faults < MaxFaults /\ spent' = [spent EXCEPT !.faults = @ + 1]

\* finalize: a failed normal close is followed by a recovery at once, a failed
\* recovery leaves the handle to the Launcher's next attempt.
ProvAfterError ==
    IF task.call = "close" THEN "recover"
    ELSE IF task.call \in {"recover", "discard"} THEN "idle" ELSE prov

\* The catch blocks.  An append or a registration only answers with the error.
\* A lifecycle built for a run the broker did not know is dropped with the call.
AfterThrow(corrupt) ==
    /\ task' = NoTask
    /\ row' = IF task.call \in {"append", "register"} THEN row
              ELSE IF task.at \in Cleanup THEN "cleanup-pending"
              ELSE IF corrupt /\ task.call = "recover" THEN "quarantined"
              ELSE "recovery-required"
    /\ ctx' = IF engine.known = "none" THEN NoContext ELSE ctx
    /\ prov' = ProvAfterError

Fails(corrupt) ==
    /\ AfterThrow(corrupt)
    /\ UNCHANGED <<files, mapping, receipts, canon, engine, dsh, plugin, spent>>

\* What an interrupted step leaves when its write is not a rename: an exclusive
\* create leaves a file that does not parse, a recursive removal a part.
Damage ==
    \/ UNCHANGED <<dir, file, wal>>
    \/ /\ task.at = "put"
       /\ wal' = [wal EXCEPT ![task.op.id].state = "torn"]
       /\ UNCHANGED <<dir, file>>
    \/ /\ task.at = "write"
       /\ file' = [file EXCEPT !.there = TRUE, !.torn = TRUE]
       /\ UNCHANGED <<dir, wal>>
    \/ /\ task.at = "remove"
       /\ dir' = "partial"
       /\ UNCHANGED <<file, wal>>

IoError ==
    /\ engine.up /\ task # NoTask
    /\ task.at \in Faulty
    /\ Fault
    /\ Damage
    /\ AfterThrow(FALSE)
    /\ UNCHANGED <<checkpoint, mapping, receipts, canon, engine, dsh, plugin>>

Crash ==
    /\ engine.up
    /\ spent.crashes < MaxCrashes
    /\ spent' = [spent EXCEPT !.crashes = @ + 1]
    /\ engine' = [up |-> FALSE, known |-> "none", drained |-> FALSE]
    /\ ctx' = NoContext
    /\ task' = NoTask
    /\ prov' = ProvAfterError
    /\ Damage
    /\ UNCHANGED <<tables, checkpoint, dsh, plugin>>

Restart ==
    /\ ~engine.up
    /\ engine' = [engine EXCEPT !.up = TRUE]
    /\ UNCHANGED <<files, tables, ctx, task, outside>>

(***************************************************************************)
(* DSH and the plugin                                                      *)
(***************************************************************************)
\* The plugin awaits the broker's attachRun before it installs its observers.
AttachRun ==
    /\ Idle
    /\ dsh.state = "starting"
    /\ engine.known = "prepared" /\ ctx.where = "prepared"
    /\ \/ /\ row' = "running"
          /\ engine' = [engine EXCEPT !.known = "attached"]
          /\ ctx' = [ctx EXCEPT !.where = "active", !.accepting = TRUE, !.bridge = TRUE]
          /\ dsh' = [dsh EXCEPT !.state = "running"]
          /\ UNCHANGED spent
       \/ /\ "attach" \in Faulty /\ Fault
          /\ row' = "quarantined"
          /\ ctx' = NoContext
          /\ UNCHANGED <<engine, dsh>>
    /\ UNCHANGED <<files, mapping, receipts, canon, task, plugin, prov>>

Emit ==
    /\ dsh.state = "running"
    /\ dsh.emitted < MaxEvents
    /\ \E stored \in {dsh.emitted + 1} \cup (IF Buffered THEN {dsh.log} ELSE {}) :
           dsh' = [dsh EXCEPT !.emitted = @ + 1, !.log = stored]
    /\ UNCHANGED <<files, tables, memory, task, plugin, prov, spent>>

\* DSH's store catches up; a graceful shutdown flushes it before the plugin drains.
Persist ==
    /\ Alive
    /\ dsh.log < dsh.emitted
    /\ dsh' = [dsh EXCEPT !.log = dsh.emitted]
    /\ UNCHANGED <<files, tables, memory, task, plugin, prov, spent>>

StartDrain ==
    /\ dsh.state = "running"
    /\ dsh' = [dsh EXCEPT !.state = "draining", !.log = dsh.emitted]
    /\ UNCHANGED <<files, tables, memory, task, plugin, prov, spent>>

\* The plugin's queue is empty: drainRun of the broker records it.
DrainRun ==
    /\ Idle
    /\ dsh.state = "draining"
    /\ plugin.acked = dsh.emitted
    /\ engine.known = "attached"
    /\ engine' = [engine EXCEPT !.drained = TRUE]
    /\ UNCHANGED <<files, tables, ctx, task, outside>>

Exit ==
    /\ dsh.state # "exited"
    /\ dsh' = [dsh EXCEPT !.state = "exited"]
    /\ UNCHANGED <<files, tables, memory, task, plugin, prov, spent>>

\* Mutant: the revision of the batch counts one event too many.
NextBatchOneMore ==
    IF plugin.batch # NoOp THEN plugin.batch
    ELSE [id |-> LiveId(dsh.emitted), lo |-> plugin.acked, hi |-> dsh.emitted + 1,
          logical |-> plugin.logical, base |-> plugin.base]

\* A batch keeps its operation until it is acknowledged; a later batch starts
\* where the acknowledged one ended and carries the metadata of its receipt.
NextBatch ==
    IF plugin.batch # NoOp THEN plugin.batch
    ELSE [id |-> LiveId(dsh.emitted), lo |-> plugin.acked, hi |-> dsh.emitted,
          logical |-> plugin.logical, base |-> plugin.base]

SendRegister ==
    /\ Idle
    /\ Alive
    /\ plugin.base = 0
    /\ plugin.acked < dsh.emitted
    /\ engine.known = "attached"
    /\ Begin("register", IF Known(ctx.map) THEN "done" ELSE "write")
    /\ UNCHANGED <<files, tables, memory, outside>>

SendAppend ==
    /\ Idle
    /\ Alive
    /\ plugin.base # 0
    /\ plugin.acked < dsh.emitted
    /\ engine.known = "attached" /\ ctx.accepting
    /\ plugin' = [plugin EXCEPT !.batch = NextBatch]
    /\ task' = [NoTask EXCEPT !.call = "append", !.at = "look", !.op = NextBatch]
    /\ UNCHANGED <<files, tables, memory, dsh, prov, spent>>

(***************************************************************************)
(* Registration of a session created in DSH: the file, the canonical       *)
(* session, the base version in the file, the mapping                      *)
(***************************************************************************)
WriteRegistration ==
    /\ At("write")
    /\ IF ~ctx.bridge \/ file.torn \/ (file.there /\ file.base # 0)
       THEN Fails(FALSE)
       ELSE /\ file' = [file EXCEPT !.there = TRUE]
            /\ GoTo("import")
            /\ UNCHANGED <<dir, checkpoint, wal, tables, memory, outside>>

\* importDshNative creates the session, or finds it as it created it.
ImportNative ==
    /\ At("import")
    /\ IF canon[Root].version > 1 \/ canon[Root].gone
       THEN Fails(FALSE)
       ELSE /\ canon' = [canon EXCEPT ![Root].version = 1]
            /\ GoTo("rebase")
            /\ UNCHANGED <<files, row, mapping, receipts, memory, outside>>

RebaseRegistration ==
    /\ At("rebase")
    /\ file' = [file EXCEPT !.base = canon[Root].version]
    /\ GoTo("map")
    /\ UNCHANGED <<dir, checkpoint, wal, tables, memory, outside>>

MapRegistration ==
    /\ At("map")
    /\ mapping' = [NoMapping EXCEPT !.base = file.base]
    /\ ctx' = [ctx EXCEPT !.map = mapping', !.codex = FALSE]
    /\ GoTo(IF task.call = "recover" THEN "supersede" ELSE "done")
    /\ UNCHANGED <<files, row, receipts, canon, engine, outside>>

(***************************************************************************)
(* commitProjectionAppend, for an operation of the plugin, of the WAL or   *)
(* of the recovered tail                                                   *)
(***************************************************************************)
\* assertNativeRevision and validateAppend: the file may hold a prefix already.
Appliable(op) ==
    /\ ctx.bridge
    /\ op.hi > ctx.map.rev
    /\ op.logical = file.logical
    /\ file.events \in op.lo..op.hi

\* Mutant: a receipt ends the call, the mapping is not compared with it.
ReconcileUnneeded(id) == "done"

\* An operation with a receipt may still lack the switch of the file or its mapping.
Reconcile(id) ==
    IF ctx.map.logical # receipts[id].logical THEN "switch"
    ELSE IF ctx.map.rev < receipts[id].rev THEN "upsert"
    ELSE "done"

\* Mutant: a record in the log is taken for an applied one.
ResumeAsApplied(state) == IF state = "none" THEN "put" ELSE "commit"

\* Where an operation goes on, by the record it has in the log.
Resume(state) ==
    CASE state = "none" -> "put" [] state = "pending" -> "apply" [] OTHER -> "commit"

LookUp ==
    /\ At("look")
    /\ LET op == task.op
           state == wal[op.id].state
       IN \/ /\ Receipted(op.id)
             /\ GoTo(Reconcile(op.id))
             /\ UNCHANGED <<files, tables, memory, outside>>
          \/ /\ ~Receipted(op.id)
             /\ state = "torn" \/ (state = "none" /\ ~Appliable(op))
             /\ Fails(FALSE)
          \/ /\ ~Receipted(op.id)
             /\ state \in {"pending", "applied", "committed"} \/ (state = "none" /\ Appliable(op))
             /\ GoTo(Resume(state))
             /\ UNCHANGED <<files, tables, memory, outside>>

PutPending ==
    /\ At("put")
    /\ wal' = [wal EXCEPT ![task.op.id] = [state |-> "pending", op |-> task.op]]
    /\ GoTo("apply")
    /\ UNCHANGED <<dir, checkpoint, file, tables, memory, outside>>

ApplyAppend ==
    /\ At("apply")
    /\ IF Appliable(task.op)
       THEN /\ file' = [file EXCEPT !.events = task.op.hi]
            /\ GoTo("mark")
            /\ UNCHANGED <<dir, checkpoint, wal, tables, memory, outside>>
       ELSE Fails(FALSE)

MarkProjectionApplied ==
    /\ At("mark")
    /\ wal' = [wal EXCEPT ![task.op.id].state = "applied"]
    /\ GoTo("commit")
    /\ UNCHANGED <<dir, checkpoint, file, tables, memory, outside>>

\* appendDsh: a Codex mirror is never written, its first append derives a child
\* from the projected base; a Maintenance session advances from its head only.
\* Version, session and operation receipt are one SQLite transaction.
AppendDsh ==
    /\ At("commit")
    /\ LET op == task.op
           source == canon[op.logical]
           derives == source.scope = "codex"
           target == IF derives THEN op.id ELSE op.logical
           accepted == /\ op.logical = ctx.map.logical
                       /\ ~source.gone
                       /\ IF derives THEN ~Exists(target) ELSE op.base = source.version
           version == canon[target].version + 1
       IN IF accepted
          THEN /\ canon' = [canon EXCEPT ![target] =
                       [version |-> version, body |-> source.body \o Events(op),
                        scope |-> "maintenance", gone |-> FALSE]]
               /\ receipts' = [receipts EXCEPT ![op.id] =
                       [logical |-> target, version |-> version, rev |-> op.hi]]
               /\ GoTo(IF ctx.codex THEN "switch" ELSE "upsert")
               /\ UNCHANGED <<files, row, mapping, memory, outside>>
          ELSE Fails(FALSE)

SwitchLogicalSession ==
    /\ At("switch")
    /\ IF ctx.bridge
       THEN /\ file' = [file EXCEPT !.logical = receipts[task.op.id].logical,
                                    !.base = receipts[task.op.id].version]
            /\ GoTo("upsert")
            /\ UNCHANGED <<dir, checkpoint, wal, tables, memory, outside>>
       ELSE Fails(FALSE)

\* The table refuses a revision that moves backwards.
UpsertProjectionSession ==
    /\ At("upsert")
    /\ LET receipt == receipts[task.op.id] IN
       IF receipt.rev >= mapping.rev
       THEN /\ mapping' = [logical |-> receipt.logical, base |-> receipt.version,
                           rev |-> receipt.rev, last |-> task.op.id]
            /\ ctx' = [ctx EXCEPT !.map = mapping', !.codex = FALSE]
            /\ GoTo("settle")
            /\ UNCHANGED <<files, row, receipts, canon, engine, outside>>
       ELSE Fails(FALSE)

MarkCommitted ==
    /\ At("settle")
    /\ wal' = [wal EXCEPT ![task.op.id].state = IF @ = "applied" THEN "committed" ELSE @]
    /\ GoTo("done")
    /\ UNCHANGED <<dir, checkpoint, file, tables, memory, outside>>

\* Mutant: what was queued while the call was under way counts as acknowledged.
AckedWithQueue(op) == dsh.emitted

\* The plugin drops the events of its batch from the queue.
AckedBy(op) == op.hi

\* The answer of an append or a registration; a lost one is an IoError here.
Reply ==
    /\ At("done")
    /\ task.call \in {"append", "register"}
    /\ task' = NoTask
    /\ plugin' = IF ~Alive THEN plugin
                 ELSE IF task.call = "register"
                 THEN [plugin EXCEPT !.logical = ctx.map.logical, !.base = ctx.map.base]
                 ELSE [acked |-> AckedBy(task.op), batch |-> NoOp,
                       logical |-> receipts[task.op.id].logical,
                       base |-> receipts[task.op.id].version]
    /\ UNCHANGED <<files, tables, memory, dsh, prov, spent>>

NextRecord ==
    /\ At("done")
    /\ task.call \in {"close", "recover"}
    /\ task' = [task EXCEPT !.at = "replay", !.todo = @ \ {task.op.id}]
    /\ UNCHANGED <<files, tables, memory, outside>>

(***************************************************************************)
(* Close and recovery                                                      *)
(***************************************************************************)
\* A normal close needs the broker entry and the plugin's drain; without them it
\* fails at once and the provider recovers.
AskClose ==
    /\ Idle
    /\ dsh.state = "exited" /\ prov = "idle"
    /\ engine.known = "attached" /\ engine.drained
    /\ Begin("close", "begin")
    /\ UNCHANGED <<files, tables, memory, outside>>

\* Mutant: recovery looks in the broker's memory only.
AskRecoverKnown ==
    /\ Idle
    /\ dsh.state = "exited" /\ prov \in {"idle", "recover"}
    /\ engine.known = "attached"
    /\ Begin("recover", "begin")
    /\ UNCHANGED <<files, tables, memory, outside>>

\* recoverRun: a run that never attached is discarded; one the broker does not
\* know is found by its row and its recovery descriptor.
AskRecover ==
    /\ Idle
    /\ dsh.state = "exited" /\ prov \in {"idle", "recover"}
    /\ \/ /\ engine.known = "attached"
          /\ Begin("recover", "begin")
       \/ /\ engine.known = "prepared" /\ ctx.where = "prepared"
          /\ Begin("discard", "begin")
       \/ /\ engine.known = "none" /\ dir = "whole"
          /\ Begin(IF row = "preparing" THEN "discard" ELSE "recover", "begin")
    /\ UNCHANGED <<files, tables, memory, outside>>

BeginClose ==
    /\ At("begin")
    /\ task.call = "close"
    /\ IF ctx.bridge
       THEN /\ row' = "draining"
            /\ ctx' = [ctx EXCEPT !.accepting = FALSE]
            /\ GoTo("list")
            /\ UNCHANGED <<files, mapping, receipts, canon, engine, outside>>
       ELSE Fails(FALSE)

BeginRecover ==
    /\ At("begin")
    /\ task.call \in {"recover", "discard"}
    /\ row' = "recovering"
    /\ ctx' = [ctx EXCEPT !.accepting = FALSE]
    /\ GoTo(IF task.call = "discard" THEN "checkpoint"
            ELSE IF ctx.where = "active" THEN "supersede" ELSE "restore")
    /\ UNCHANGED <<files, mapping, receipts, canon, engine, outside>>

\* restoreRecoveryContext: the mapping against the canonical session and the
\* file.  Before the first commit of the run the revision of the mapping is
\* corrected to the canonical one, which a crash may have left ahead of it.
RestoreContext ==
    /\ At("restore")
    /\ LET session == canon[mapping.logical]
           held == Len(session.body)
           fresh == mapping.last = Root /\ ~session.gone
           corrupt == /\ Known(mapping)
                      /\ \/ session.gone /\ (file.logical # mapping.logical \/ file.events < mapping.rev)
                         \/ fresh /\ (file.events < held \/ held < mapping.rev)
           corrected == Known(mapping) /\ fresh /\ held > mapping.rev
       IN IF corrupt THEN Fails(TRUE)
          ELSE /\ mapping' = IF corrected THEN [mapping EXCEPT !.rev = held] ELSE mapping
               /\ ctx' = [where |-> "active", accepting |-> FALSE, bridge |-> TRUE,
                          codex |-> Known(mapping) /\ session.scope = "codex" /\ ~session.gone,
                          map |-> mapping']
               /\ task' = [task EXCEPT !.fixed = IF corrected THEN held ELSE 0,
                              !.at = IF ~Known(mapping) /\ file.there THEN "adopt" ELSE "supersede"]
               /\ UNCHANGED <<files, row, receipts, canon, engine, outside>>

\* A file without a mapping is accepted as an interrupted registration only while
\* it is empty and has no base version.
AdoptRegistration ==
    /\ At("adopt")
    /\ IF file.torn \/ file.base # 0 \/ file.events # 0
       THEN Fails(TRUE)
       ELSE GoTo("import") /\ UNCHANGED <<files, tables, memory, outside>>

\* Mutant: a tail record is set aside by where it starts, not by where it ends.
StaleByStart == {id \in Pending :
                    /\ wal[id].state = "applied"
                    /\ \/ /\ Known(ctx.map)
                          /\ \/ wal[id].op.logical # ctx.map.logical
                             \/ wal[id].op.base # ctx.map.base
                       \/ id[1] = "tail" /\ wal[id].op.lo <= task.fixed}

\* Applied records that name another logical session or base than the mapping,
\* and tail records that the corrected revision covers.
Stale == {id \in Pending :
             /\ wal[id].state = "applied"
             /\ \/ /\ Known(ctx.map)
                   /\ \/ wal[id].op.logical # ctx.map.logical
                      \/ wal[id].op.base # ctx.map.base
                \/ id[1] = "tail" /\ wal[id].op.hi <= task.fixed}

SupersedeStalePending ==
    /\ At("supersede")
    /\ ~Torn
    /\ IF Stale # {}
       THEN /\ \E id \in Stale : wal' = [wal EXCEPT ![id].state = "none"]
            /\ UNCHANGED task
       ELSE /\ task' = [task EXCEPT !.at = "replay", !.todo = Pending]
            /\ UNCHANGED wal
    /\ UNCHANGED <<dir, checkpoint, file, tables, memory, outside>>

ListPending ==
    /\ At("list")
    /\ ~Torn
    /\ task' = [task EXCEPT !.at = "replay", !.todo = Pending]
    /\ UNCHANGED <<files, tables, memory, outside>>

\* A record that does not parse is a SyntaxError.
ListTorn ==
    /\ At("supersede") \/ At("list")
    /\ Torn
    /\ Fails(TRUE)

\* The records come in the order of their encoded names, which is not the order
\* of the operations.
ReplayPending ==
    /\ At("replay")
    /\ \/ \E id \in task.todo :
              /\ task' = [task EXCEPT !.at = "look", !.op = wal[id].op]
              /\ UNCHANGED <<files, tables, memory, outside>>
       \/ /\ task.todo = {}
          /\ task.call = "recover" \/ Pending = {}
          /\ GoTo(IF task.call = "recover" THEN "tail" ELSE "checkpoint")
          /\ UNCHANGED <<files, tables, memory, outside>>
       \/ /\ task.todo = {}
          /\ task.call = "close" /\ Pending # {}
          /\ Fails(FALSE)

\* recoverySnapshots and recoverRuntimeTail: what DSH stored beyond the committed
\* revision becomes one operation.  Asked again after it, the tail is empty.
RecoverTail ==
    /\ At("tail")
    /\ LET known == Known(ctx.map)
           rev == ctx.map.rev
           lost == \/ dir # "whole"
                   \/ dsh.log > 0 /\ ~known
                   \/ dsh.log \in 1..(rev - 1)
           mismatch == known /\ (file.logical # ctx.map.logical \/ file.events < rev)
       IN CASE dir = "whole" /\ mismatch -> Fails(TRUE)
            [] (dir # "whole" \/ ~mismatch) /\ lost -> Fails(FALSE)
            [] OTHER ->
                 /\ task' = IF dsh.log <= rev THEN [task EXCEPT !.at = "checkpoint"]
                            ELSE [task EXCEPT !.at = "look",
                                     !.op = [id |-> TailId(rev, dsh.log), lo |-> rev, hi |-> dsh.log,
                                             logical |-> ctx.map.logical, base |-> ctx.map.base]]
                 /\ UNCHANGED <<files, tables, memory, outside>>

\* verifyCheckpointAndDetach; a bridge detached by an earlier attempt throws.
CheckpointAndDetach ==
    /\ At("checkpoint")
    /\ IF file.torn THEN Fails(TRUE)
       ELSE /\ checkpoint' = TRUE
            /\ \/ /\ ctx.bridge \/ task.call = "discard"
                  /\ ctx' = [ctx EXCEPT !.bridge = FALSE]
                  /\ GoTo("remove")
                  /\ UNCHANGED <<row, prov>>
               \/ /\ ~ctx.bridge /\ task.call # "discard"
                  /\ AfterThrow(FALSE)
            /\ UNCHANGED <<dir, file, wal, mapping, receipts, canon, engine, dsh, plugin, spent>>

RemoveProjectionRun ==
    /\ At("remove")
    /\ IF dir = "gone" THEN Fails(FALSE)
       ELSE /\ dir' = "gone"
            /\ GoTo("final")
            /\ UNCHANGED <<checkpoint, file, wal, tables, memory, outside>>

FinishRun ==
    /\ At("final")
    /\ row' = IF task.call = "close" THEN "closed" ELSE "recovered"
    /\ engine' = [engine EXCEPT !.known = "none"]
    /\ ctx' = NoContext
    /\ task' = NoTask
    /\ \/ prov' = "done" /\ UNCHANGED spent
       \/ "answer" \in Faulty /\ Fault /\ prov' = ProvAfterError
    /\ UNCHANGED <<files, mapping, receipts, canon, dsh, plugin>>

(***************************************************************************)
(* The dashboard                                                           *)
(***************************************************************************)
\* updateSession makes a new version of the same body.
EditMetadata(l) == canon' = [canon EXCEPT ![l].version = @ + 1]

\* Nothing writes a run_operations row with status pending, so deletion sees no
\* pending write.
DeleteSession(l) == ~canon[l].gone /\ canon' = [canon EXCEPT ![l].gone = TRUE]
RestoreSession(l) == canon[l].gone /\ canon' = [canon EXCEPT ![l].gone = FALSE]

Command ==
    /\ Idle
    /\ spent.edits < MaxEdits
    /\ \E l \in Logicals :
          /\ Exists(l)
          /\ \/ "edit" \in Commands /\ EditMetadata(l)
             \/ "delete" \in Commands /\ DeleteSession(l)
             \/ "restore" \in Commands /\ RestoreSession(l)
    /\ spent' = [spent EXCEPT !.edits = @ + 1]
    /\ UNCHANGED <<files, row, mapping, receipts, memory, task, dsh, plugin, prov>>

(***************************************************************************)
(* Specification                                                           *)
(***************************************************************************)
EngineStep ==
    \/ WriteRegistration \/ ImportNative \/ RebaseRegistration \/ MapRegistration
    \/ LookUp \/ PutPending \/ ApplyAppend \/ MarkProjectionApplied \/ AppendDsh
    \/ SwitchLogicalSession \/ UpsertProjectionSession \/ MarkCommitted
    \/ Reply \/ NextRecord
    \/ BeginClose \/ BeginRecover \/ RestoreContext \/ AdoptRegistration
    \/ SupersedeStalePending \/ ListPending \/ ListTorn \/ ReplayPending
    \/ RecoverTail \/ CheckpointAndDetach \/ RemoveProjectionRun \/ FinishRun

Next ==
    \/ EngineStep \/ IoError \/ Crash \/ Restart
    \/ AttachRun \/ Emit \/ Persist \/ StartDrain \/ DrainRun \/ Exit
    \/ SendRegister \/ SendAppend \/ AskClose \/ AskRecover
    \/ Command

Spec == Init /\ [][Next]_vars

\* A task of the Engine goes on, a dead Engine is started again, and the Launcher
\* repeats a recovery that failed.  Nothing else is forced.
Fairness == WF_vars(EngineStep) /\ WF_vars(Restart) /\ WF_vars(AskRecover)
FairSpec == Spec /\ Fairness

(***************************************************************************)
(* Properties                                                              *)
(***************************************************************************)
\* The session that carries the run's history: the derived one once it exists.
Heir == IF \E id \in OpIds : Exists(id) THEN CHOOSE id \in OpIds : Exists(id) ELSE Root
History == canon[Heir].body

Abstract == INSTANCE AppendOnce WITH
    emitted <- dsh.emitted, saved <- dsh.log, history <- History,
    acked <- plugin.acked, over <- dir # "whole"

\* The run implements AppendOnce: whatever dies or fails, events enter the history
\* in order and once, an acknowledged one is in it, and the directory is removed
\* only when everything DSH saved in it is in the history.
AppendedOnce == Abstract!Spec

\* The first append to a Codex mirror derives at most one session, and the mirror
\* itself never receives an event (appendDsh, design invariants 3, 8 and 13).
OneDerivedSession ==
    /\ \A id, other \in OpIds : Exists(id) /\ Exists(other) => id = other
    /\ canon[Root].scope = "codex" => canon[Root].body = <<>>

\* Intent, projection, canonical commit, mapping, in this order: while the run
\* lasts the file holds every canonical event, a mapping with a last operation
\* agrees with its receipt, and a record marked committed has one.
WriteAheadOrder ==
    /\ dir = "whole" => Len(History) <= file.events
    /\ mapping.last # Root =>
          receipts[mapping.last] =
              [logical |-> mapping.logical, version |-> mapping.base, rev |-> mapping.rev]
    /\ \A id \in OpIds : wal[id].state = "committed" => Receipted(id)

\* Recovery material goes only when it is not needed: a record is set aside, and
\* the directory removed, only if the operation has its receipt, and the removal
\* only after the close checkpoint (design invariant 14).
MaterialKept ==
    [][/\ \A id \in OpIds :
             /\ wal[id].state \in {"pending", "applied"}
             /\ wal'[id].state = "none" \/ dir # dir'
             => Receipted(id)
       /\ dir # dir' => checkpoint]_vars

\* What DSH saved before it exited becomes canonical, unless a torn file of an
\* interrupted exclusive create has quarantined the run.
EventuallyCanonical ==
    dsh.state = "exited" ~> (dsh.log <= Len(History) \/ Torn \/ file.torn)

\* Every run of a DSH process that exited is finalised.
RunEnds == dsh.state = "exited" ~> prov = "done"

\* A session of an unfinished run is not tombstoned while a record of it waits in
\* the write-ahead log.
DeleteWaits ==
    [][\A l \in Logicals :
          canon'[l].gone /\ ~canon[l].gone =>
              \A id \in Pending : wal[id].op.logical = l => Receipted(id)]_vars

\* Recovery reconstructs an interrupted registration instead of giving the run up.
RegistrationRecovered == ~(row = "quarantined" /\ ~Known(mapping) /\ file.there /\ ~file.torn)
=============================================================================
