------------------------- MODULE TransactionEngine -------------------------
(***************************************************************************)
(* The recoverable write transaction of the early DSH write channel:       *)
(* TransactionExecutor (apply, restore), TransactionRecovery (recover),    *)
(* the append-only journal, the SQLite transaction rows, the backup        *)
(* manifest, the root write lock and the DSH write adapter with the DSH    *)
(* host process behind its gateway.                                        *)
(*                                                                         *)
(* One platform root and one target session are modelled: transactions of  *)
(* different roots share nothing, and plans that write the same session    *)
(* are the case in which transactions can disturb each other.              *)
(*                                                                         *)
(* A caller runs one call at a time.  Every await of the code at which     *)
(* other callers, the DSH host, the user of DSH or a crash can intervene   *)
(* is a step boundary.                                                     *)
(***************************************************************************)
EXTENDS Integers, Sequences, FiniteSets

CONSTANTS
    Plans,      \* the immutable sync plans; a plan has at most one transaction
    Callers,    \* concurrent calls the Engine process can be running
    User,       \* the author of edits made in DSH itself
    NoCaller,   \* no caller is inside the in-process lock queue
    NoPlan,     \* the plan of an idle caller
    MaxFaults,  \* bound: crashes, I/O errors and lost messages together
    MaxEdits,   \* bound: edits the user makes in DSH
    MaxLines    \* bound: no explicit restore starts on a longer journal

ASSUME ConstantsAssumption ==
    /\ User \notin Plans
    /\ NoPlan \notin Plans
    /\ NoCaller \notin Callers
    /\ MaxFaults \in Nat
    /\ MaxEdits \in Nat
    /\ MaxLines \in Nat

VARIABLES
    planned,    \* fingerprint of the target each saved plan was made from
    saved,      \* the plans that exist
    status,     \* status column of the transaction row ("none": no row)
    dbSteps,    \* rows of transaction_steps
    journal,    \* journal.jsonl: readable steps and the shape of its end
    backup,     \* captured descriptor and backup manifest
    target,     \* content of the DSH session: who wrote what, in order
    pending,    \* commit requests the DSH host has not executed yet
    restores,   \* restore requests the DSH host still has, whose caller is gone
    lock,       \* the persisted lock file of the root
    holder,     \* the caller at the head of the in-process lock queue
    call,       \* what every caller is doing
    faults,     \* faults injected so far
    edits       \* user edits made so far

durable == <<planned, saved, status, dbSteps, journal, backup>>
requests == <<pending, restores>>
vars == <<planned, saved, status, dbSteps, journal, backup, target, pending,
          restores, lock, holder, call, faults, edits>>

(***************************************************************************)
(* Values                                                                  *)
(***************************************************************************)
Status == {"prepared", "backing-up", "applying", "verifying", "completed",
           "restoring", "restored", "restore-failed", "manual-review"}
Interrupted == {"prepared", "backing-up", "applying", "verifying", "restoring"}
Terminal == {"completed", "restored", "restore-failed", "manual-review"}
Resolved == {"none", "completed", "restored"}

Items == (Plans \cup {User}) \X {"whole", "half"}
Phases == {"idle", "wait", "rewait", "locking", "clear", "clearing", "locked",
           "reconcile", "resume", "journal", "db", "act", "await", "release"}
Outside == {"idle", "wait", "rewait", "clear", "clearing"}
Kinds == {"none", "apply", "restore", "recover"}
CallStates == [kind : Kinds, plan : Plans \cup {NoPlan},
               phase : Phases, status : Status \cup {"none"}]
JournalStates == [steps : Seq(Status), tail : {"clean", "torn", "corrupt"}]
BackupStates == [phase : {"none", "captured", "saved"}, state : Seq(Items)]
IdleCall == [kind |-> "none", plan |-> NoPlan, phase |-> "idle", status |-> "none"]

Whole(p) == <<p, "whole">>
Half(p) == <<p, "half">>
Holds(content, item) == \E i \in DOMAIN content : content[i] = item
\* What the host observes when the commit of p succeeded on its snapshot.
Committed(p) == Append(backup[p].state, Whole(p))

IsPrefixOf(s, t) == Len(s) <= Len(t) /\ \A i \in 1..Len(s) : s[i] = t[i]
Readable(p) == journal[p].tail # "corrupt"
\* journalAndDatabaseAgree, and the checks of reconcileJournal.
Agree(p) == Readable(p) /\ IsPrefixOf(dbSteps[p], journal[p].steps)

Fault == faults < MaxFaults /\ faults' = faults + 1
NoFault == UNCHANGED faults

TypeOK ==
    /\ planned \in [Plans -> Seq(Items)]
    /\ saved \subseteq Plans
    /\ status \in [Plans -> Status \cup {"none"}]
    /\ dbSteps \in [Plans -> Seq(Status)]
    /\ journal \in [Plans -> JournalStates]
    /\ backup \in [Plans -> BackupStates]
    /\ target \in Seq(Items)
    /\ pending \subseteq Plans
    /\ restores \in [Plans -> Nat]
    /\ lock \in {"free", "blank", "live", "stale"}
    /\ holder \in Callers \cup {NoCaller}
    /\ call \in [Callers -> CallStates]
    /\ faults \in Nat
    /\ edits \in Nat

Init ==
    /\ planned = [p \in Plans |-> <<>>]
    /\ saved = {}
    /\ status = [p \in Plans |-> "none"]
    /\ dbSteps = [p \in Plans |-> <<>>]
    /\ journal = [p \in Plans |-> [steps |-> <<>>, tail |-> "clean"]]
    /\ backup = [p \in Plans |-> [phase |-> "none", state |-> <<>>]]
    /\ target = <<>>
    /\ pending = {}
    /\ restores = [p \in Plans |-> 0]
    /\ lock = "free"
    /\ holder = NoCaller
    /\ call = [c \in Callers |-> IdleCall]
    /\ faults = 0
    /\ edits = 0

(***************************************************************************)
(* Calls: what is done before the lock is taken                            *)
(***************************************************************************)
At(c, phase, st) == [call EXCEPT ![c].phase = phase, ![c].status = st]
Begin(c, kind, p) ==
    call' = [call EXCEPT ![c] = [kind |-> kind, plan |-> p, phase |-> "wait", status |-> "none"]]
In(c, phase) == call[c].phase = phase /\ call[c].plan \in Plans

\* The planner fixes the fingerprint the target has now as the precondition.
SavePlan(p) ==
    /\ p \notin saved
    /\ saved' = saved \cup {p}
    /\ planned' = [planned EXCEPT ![p] = target]
    /\ UNCHANGED <<status, dbSteps, journal, backup, target, requests, lock,
                   holder, call, faults, edits>>

\* restoreScope and recoveryScope.  The single-use nonce that confirms a
\* restore or a recovery binds this scope; a caller can always obtain a fresh
\* one, so the nonces themselves are not part of the state.
RestoreScope(p) == status[p] \in {"completed", "restored"} /\ backup[p].phase = "saved"
RecoveryScope(p) == status[p] \in Interrupted

\* apply: a plan with a transaction only returns it; a drifted target is
\* PLAN_STALE.  Both return without changing anything.
ApplyCall(c, p) ==
    /\ call[c] = IdleCall
    /\ p \in saved
    /\ status[p] = "none"
    /\ target = planned[p]
    /\ Begin(c, "apply", p)
    /\ UNCHANGED <<planned, saved, status, dbSteps, journal, backup, target,
                   requests, lock, holder, faults, edits>>

\* restore: a transaction restored since the scope was confirmed is returned.
\* Without the bound the journal of a restore that can never be recorded grows
\* with every further attempt (see AheadIsRepairable).
RestoreCall(c, p) ==
    /\ call[c] = IdleCall
    /\ RestoreScope(p)
    /\ status[p] = "completed"
    /\ Len(journal[p].steps) < MaxLines
    /\ Begin(c, "restore", p)
    /\ UNCHANGED <<target, requests, lock, holder, faults, edits>> /\ UNCHANGED durable

\* recoverConfirmed followed by the first lines of recover.
RecoverCall(c, p) ==
    /\ call[c] = IdleCall
    /\ RecoveryScope(p)
    /\ Begin(c, "recover", p)
    /\ UNCHANGED <<target, requests, lock, holder, faults, edits>> /\ UNCHANGED durable

(***************************************************************************)
(* RootWriteLockManager                                                    *)
(***************************************************************************)
\* The caller tries to create the lock file exclusively.  When it exists apply
\* and restore give up; recover inspects it, once.
CreateFile(c) ==
    /\ call[c].phase \in {"wait", "rewait"}
    /\ \/ /\ lock = "free"
          /\ lock' = "blank"
          /\ holder' = c
          /\ call' = At(c, "locking", "none")
       \/ /\ lock # "free"
          /\ UNCHANGED <<lock, holder>>
          /\ call' = IF call[c].kind = "recover" /\ call[c].phase = "wait"
                     THEN At(c, "clear", "none")
                     ELSE [call EXCEPT ![c] = IdleCall]
    /\ UNCHANGED <<target, requests, faults, edits>> /\ UNCHANGED durable

\* Mutant: a caller does not wait for the one at the head of the queue.
AcquireFileUnqueued(c) == CreateFile(c)

\* withLock: one caller at a time is at the head of the in-process queue.
AcquireFile(c) == holder = NoCaller /\ CreateFile(c)

\* The owner record is written into the new file, or into what was that file if
\* a recovery renamed it away meanwhile.  A failing write leaves the empty file.
WriteOwner(c) ==
    /\ In(c, "locking")
    /\ \/ /\ lock' = IF lock = "blank" THEN "live" ELSE lock
          /\ call' = At(c, "locked", "none")
          /\ UNCHANGED holder /\ NoFault
       \/ /\ call' = [call EXCEPT ![c] = IdleCall]
          /\ holder' = NoCaller
          /\ UNCHANGED lock /\ Fault
    /\ UNCHANGED <<target, requests, edits>> /\ UNCHANGED durable

\* clearStaleLockAfterInspection reads the owner and the journal: only a
\* readable record of a dead process, with an agreeing journal, is stale.
InspectLock(c) ==
    /\ In(c, "clear")
    /\ call' = IF lock = "stale" /\ Agree(call[c].plan)
               THEN At(c, "clearing", "none")
               ELSE [call EXCEPT ![c] = IdleCall]
    /\ UNCHANGED <<target, requests, lock, holder, faults, edits>> /\ UNCHANGED durable

\* The rename takes away whatever lock file is there by now.
ClearLock(c) ==
    /\ In(c, "clearing")
    /\ lock' = "free"
    /\ call' = At(c, "rewait", "none")
    /\ UNCHANGED <<target, requests, holder, faults, edits>> /\ UNCHANGED durable

\* Mutant: a failing unlink rejects the call and the queue never moves on.
ReleaseLockKeepsQueue(c) ==
    /\ In(c, "release")
    /\ \/ lock' = "free" /\ holder' = NoCaller /\ NoFault
       \/ UNCHANGED <<lock, holder>> /\ Fault
    /\ call' = [call EXCEPT ![c] = IdleCall]
    /\ UNCHANGED <<target, requests, edits>> /\ UNCHANGED durable

\* finally: the file is unlinked and a failure to unlink it is swallowed.
ReleaseLock(c) ==
    /\ In(c, "release")
    /\ \/ lock' = "free" /\ NoFault
       \/ UNCHANGED lock /\ Fault
    /\ holder' = NoCaller
    /\ call' = [call EXCEPT ![c] = IdleCall]
    /\ UNCHANGED <<target, requests, edits>> /\ UNCHANGED durable

(***************************************************************************)
(* Under the lock                                                          *)
(***************************************************************************)
\* applyLocked persists the plan file and creates the row.
CreateOr(c, refused) ==
    LET p == call[c].plan IN
    /\ In(c, "locked") /\ call[c].kind = "apply"
    /\ IF refused
       THEN call' = At(c, "release", "none") /\ UNCHANGED status
       ELSE /\ status' = [status EXCEPT ![p] = "prepared"]
            /\ call' = At(c, "journal", "prepared")
    /\ UNCHANGED <<planned, saved, dbSteps, journal, backup, target, requests,
                   lock, holder, faults, edits>>

\* Mutant: unresolved transactions of the root are not looked for.
EnterApplyStacked(c) == CreateOr(c, status[call[c].plan] # "none")

\* apply looks for a transaction of the plan and for unresolved ones again.
EnterApply(c) ==
    CreateOr(c, status[call[c].plan] # "none" \/ \E q \in Plans : status[q] \notin Resolved)

\* restore examines the status a last time.
EnterRestore(c) ==
    /\ In(c, "locked") /\ call[c].kind = "restore"
    /\ call' = IF status[call[c].plan] = "completed"
               THEN At(c, "journal", "restoring")
               ELSE At(c, "release", "none")
    /\ UNCHANGED <<target, requests, lock, holder, faults, edits>> /\ UNCHANGED durable

EnterRecover(c) ==
    /\ In(c, "locked") /\ call[c].kind = "recover"
    /\ call' = IF status[call[c].plan] \in Terminal
               THEN At(c, "release", "none")
               ELSE At(c, "reconcile", "none")
    /\ UNCHANGED <<target, requests, lock, holder, faults, edits>> /\ UNCHANGED durable

\* reconcileJournal: a journal that cannot be trusted closes the transaction,
\* a longer journal is replayed into the database one step at a time.
ReconcileIf(c, trusted) ==
    LET p == call[c].plan IN
    /\ In(c, "reconcile")
    /\ \/ /\ ~trusted
          /\ status' = [status EXCEPT ![p] = "manual-review"]
          /\ call' = At(c, "release", "none")
          /\ UNCHANGED dbSteps
       \/ /\ trusted /\ Len(dbSteps[p]) < Len(journal[p].steps)
          /\ LET step == journal[p].steps[Len(dbSteps[p]) + 1] IN
             /\ dbSteps' = [dbSteps EXCEPT ![p] = Append(@, step)]
             /\ status' = [status EXCEPT ![p] = step]
          /\ UNCHANGED call
       \/ /\ trusted /\ Len(dbSteps[p]) >= Len(journal[p].steps)
          /\ call' = At(c, "resume", status[p])
          /\ UNCHANGED <<dbSteps, status>>
    /\ UNCHANGED <<planned, saved, journal, backup, target, requests, lock,
                   holder, faults, edits>>

\* Mutant: the journal is read but its steps are not compared with the rows.
ReconcileUnchecked(c) == ReconcileIf(c, Readable(call[c].plan))

Reconcile(c) == ReconcileIf(c, Agree(call[c].plan))

\* recoverLocked after the reconciliation: every status that is not handled
\* before falls through to the restore.
Resume(c) ==
    LET st == call[c].status IN
    /\ In(c, "resume")
    /\ call' = IF st = "manual-review" THEN At(c, "release", "none")
               ELSE IF st \in {"prepared", "backing-up"} THEN At(c, "journal", "manual-review")
               ELSE IF st \in {"applying", "verifying"} THEN At(c, "act", "verifying")
               ELSE At(c, "act", "restoring")
    /\ UNCHANGED <<target, requests, lock, holder, faults, edits>> /\ UNCHANGED durable

(***************************************************************************)
(* recordTransition: the journal line first, then the database             *)
(***************************************************************************)
\* Mutant: the catch block of the restore records no status.
AfterThrowUnnamed(c) ==
    IF call[c].status = "restored" THEN At(c, "journal", "none") ELSE At(c, "release", "none")

\* Where an exception of a record leads.
AfterThrow(c) ==
    LET st == call[c].status
        apply == call[c].kind = "apply"
    IN  IF st = "restored" THEN At(c, "journal", "restore-failed")
        ELSE IF apply /\ st \in {"backing-up", "applying"} THEN At(c, "journal", "manual-review")
        ELSE IF apply /\ st \in {"verifying", "completed"} THEN At(c, "journal", "restoring")
        ELSE At(c, "release", "none")

\* The line lands after whatever the file ends with: behind a torn line the
\* two become one line nobody can parse.
AppendJournal(c) ==
    LET p == call[c].plan IN
    /\ In(c, "journal")
    /\ Readable(p)
    /\ journal' = IF journal[p].tail = "clean"
                  THEN [journal EXCEPT ![p].steps = Append(@, call[c].status)]
                  ELSE [journal EXCEPT ![p].tail = "corrupt"]
    /\ call' = At(c, "db", call[c].status)
    /\ UNCHANGED <<planned, saved, status, dbSteps, backup, target, requests,
                   lock, holder, faults, edits>>

\* An unreadable journal throws, and so does a failing write, which may
\* leave part of the line behind.
AppendThrows(c) ==
    LET p == call[c].plan IN
    /\ In(c, "journal")
    /\ \/ ~Readable(p) /\ UNCHANGED journal /\ NoFault
       \/ Readable(p) /\ UNCHANGED journal /\ Fault
       \/ /\ Readable(p) /\ journal[p].tail = "clean" /\ Fault
          /\ journal' = [journal EXCEPT ![p].tail = "torn"]
    /\ call' = AfterThrow(c)
    /\ UNCHANGED <<planned, saved, status, dbSteps, backup, target, requests,
                   lock, holder, edits>>

\* Sequence and previous hash of the line just written continue the rows.
Continues(p) ==
    IF Readable(p)
    THEN /\ Len(journal[p].steps) = Len(dbSteps[p]) + 1
         /\ IsPrefixOf(dbSteps[p], journal[p].steps)
    ELSE dbSteps[p] = journal[p].steps

RecordStep(c) ==
    LET p == call[c].plan
        st == call[c].status
    IN
    /\ In(c, "db")
    /\ Continues(p)
    /\ dbSteps' = [dbSteps EXCEPT ![p] = Append(@, st)]
    /\ status' = [status EXCEPT ![p] = st]
    /\ call' = IF st \in Terminal THEN At(c, "release", "none") ELSE At(c, "act", st)
    /\ UNCHANGED <<planned, saved, journal, backup, target, requests, lock,
                   holder, faults, edits>>

RecordThrows(c) ==
    /\ In(c, "db")
    /\ IF Continues(call[c].plan) THEN Fault ELSE NoFault
    /\ call' = AfterThrow(c)
    /\ UNCHANGED <<target, requests, lock, holder, edits>> /\ UNCHANGED durable

(***************************************************************************)
(* The adapter and the DSH host                                            *)
(***************************************************************************)
\* adapter.prepare only writes the intent.
Prepare(c) ==
    /\ In(c, "act") /\ call[c].status = "prepared"
    /\ \/ call' = At(c, "journal", "backing-up") /\ NoFault
       \/ call' = At(c, "journal", "manual-review") /\ Fault
    /\ UNCHANGED <<target, requests, lock, holder, edits>> /\ UNCHANGED durable

\* adapter.backup captures the session and writes descriptor and objects.
Capture(c) ==
    LET p == call[c].plan IN
    /\ In(c, "act") /\ call[c].status = "backing-up"
    /\ backup[p].phase = "none"
    /\ \/ /\ backup' = [backup EXCEPT ![p] = [phase |-> "captured", state |-> target]]
          /\ UNCHANGED call /\ NoFault
       \/ /\ call' = At(c, "journal", "manual-review")
          /\ UNCHANGED backup /\ Fault
    /\ UNCHANGED <<planned, saved, status, dbSteps, journal, target, requests,
                   lock, holder, edits>>

\* Mutant: the transaction goes on without storing the manifest.
SaveManifestSkipped(c) ==
    LET p == call[c].plan IN
    /\ In(c, "act") /\ call[c].status = "backing-up"
    /\ backup[p].phase = "captured"
    /\ call' = At(c, "journal", "applying")
    /\ UNCHANGED <<target, requests, lock, holder, faults, edits>> /\ UNCHANGED durable

\* saveBackupManifest.
SaveManifest(c) ==
    LET p == call[c].plan IN
    /\ In(c, "act") /\ call[c].status = "backing-up"
    /\ backup[p].phase = "captured"
    /\ \/ /\ backup' = [backup EXCEPT ![p].phase = "saved"]
          /\ call' = At(c, "journal", "applying") /\ NoFault
       \/ /\ call' = At(c, "journal", "manual-review")
          /\ UNCHANGED backup /\ Fault
    /\ UNCHANGED <<planned, saved, status, dbSteps, journal, target, requests,
                   lock, holder, edits>>

\* adapter.commit sends the apply request to the host ...
SendCommit(c) ==
    LET p == call[c].plan IN
    /\ In(c, "act") /\ call[c].status = "applying"
    /\ \/ /\ pending' = pending \cup {p}
          /\ call' = At(c, "await", "applying") /\ NoFault
       \/ /\ call' = At(c, "journal", "restoring")
          /\ UNCHANGED pending /\ Fault
    /\ UNCHANGED <<target, restores, lock, holder, edits>> /\ UNCHANGED durable

\* Only a caller still waiting for the commit hears of it.
Answer(p, st) ==
    call' = [c \in Callers |->
        IF call[c].phase = "await" /\ call[c].plan = p /\ call[c].status = "applying"
        THEN [call[c] EXCEPT !.phase = "journal", !.status = st] ELSE call[c]]

\* ... which executes it under the lock of the session: a target that is not
\* the captured one is PLAN_STALE, a live session is refused; the mutation may
\* stop half way, and the answer to a complete one may be lost.
HostApply(p) ==
    /\ p \in pending
    /\ pending' = pending \ {p}
    /\ \/ /\ target = backup[p].state
          /\ target' = Append(target, Whole(p))
          /\ \/ Answer(p, "verifying") /\ NoFault
             \/ Answer(p, "restoring") /\ Fault
       \/ /\ UNCHANGED target
          /\ IF target = backup[p].state THEN Fault ELSE NoFault
          /\ Answer(p, "restoring")
       \/ /\ target = backup[p].state
          /\ target' = Append(target, Half(p)) /\ Fault
          /\ Answer(p, "restoring")
    /\ UNCHANGED <<restores, lock, holder, edits>> /\ UNCHANGED durable

\* Mutant: a receipt without a digest counts as verified.
VerifyOkByReceipt(c) == call[c].kind = "recover" \/ target = Committed(call[c].plan)

\* A recovery has no receipt of its own, so its verification always fails: the
\* digest it would compare with is missing (adapter.verify).  Otherwise the digest
\* is that of the state the commit answered.
VerifyOk(c) == call[c].kind = "apply" /\ target = Committed(call[c].plan)

Verify(c) ==
    /\ In(c, "act") /\ call[c].status = "verifying"
    /\ \/ NoFault /\ call' = At(c, "journal", IF VerifyOk(c) THEN "completed" ELSE "restoring")
       \/ /\ Fault
          /\ call' = IF call[c].kind = "apply" THEN At(c, "journal", "restoring")
                                               ELSE At(c, "release", "none")
    /\ UNCHANGED <<target, requests, lock, holder, edits>> /\ UNCHANGED durable

\* adapter.restore loads the snapshot and sends the restore request.  The branch of
\* recoverLocked for a missing manifest is dead code: see BackupBeforeCommit.
SendRestore(c) ==
    /\ In(c, "act") /\ call[c].status = "restoring"
    /\ \/ call' = At(c, "await", "restoring") /\ NoFault
       \/ call' = At(c, "journal", "restore-failed") /\ Fault
    /\ UNCHANGED <<target, requests, lock, holder, edits>> /\ UNCHANGED durable

\* The host writes the snapshot back whatever the session holds now, and while
\* commits are still on their way: the gateway probes before it queues for the
\* session.  The request may be refused, fail, or execute and lose its answer.
HostRestore(c) ==
    LET snapshot == backup[call[c].plan].state IN
    /\ In(c, "await") /\ call[c].status = "restoring"
    /\ \/ target' = snapshot /\ call' = At(c, "journal", "restored") /\ NoFault
       \/ target' \in {target, snapshot} /\ call' = At(c, "journal", "restore-failed") /\ Fault
    /\ UNCHANGED <<requests, lock, holder, edits>> /\ UNCHANGED durable

\* The caller loses the connection while the host still has its request.
LoseConnection(c) ==
    LET restoring == call[c].status = "restoring" IN
    /\ In(c, "await")
    /\ Fault
    /\ call' = At(c, "journal", IF restoring THEN "restore-failed" ELSE "restoring")
    /\ restores' = IF restoring THEN [restores EXCEPT ![call[c].plan] = @ + 1] ELSE restores
    /\ UNCHANGED <<target, pending, lock, holder, edits>> /\ UNCHANGED durable

\* A restore request nobody waits for is executed, or refused.
LateRestore(p) ==
    /\ restores[p] > 0
    /\ restores' = [restores EXCEPT ![p] = @ - 1]
    /\ target' \in {target, backup[p].state}
    /\ UNCHANGED <<pending, lock, holder, call, faults, edits>> /\ UNCHANGED durable

(***************************************************************************)
(* The environment                                                         *)
(***************************************************************************)
\* The user continues the session in DSH.
UserEdit ==
    /\ edits < MaxEdits
    /\ edits' = edits + 1
    /\ target' = Append(target, Whole(User))
    /\ UNCHANGED <<requests, lock, holder, call, faults>> /\ UNCHANGED durable

\* The requests of restores the host is left with when the Engine dies: the one a
\* call waits for may or may not have reached it.
RestoresLeft ==
    {restores} \cup {[restores EXCEPT ![call[c].plan] = @ + 1] :
                        c \in {d \in Callers : In(d, "await") /\ call[d].status = "restoring"}}

\* The Engine process dies.  A line being written may be torn, or complete
\* but for its newline; a request may or may not have reached the host.
Crash ==
    /\ Fault
    /\ call' = [c \in Callers |-> IdleCall]
    /\ holder' = NoCaller
    /\ lock' = IF lock = "live" THEN "stale" ELSE lock
    /\ pending' \in SUBSET pending
    /\ restores' \in RestoresLeft
    /\ \/ UNCHANGED journal
       \/ \E c \in Callers :
            /\ In(c, "journal") /\ journal[call[c].plan].tail = "clean"
            /\ \E steps \in {journal[call[c].plan].steps,
                             Append(journal[call[c].plan].steps, call[c].status)} :
                 journal' = [journal EXCEPT ![call[c].plan] = [steps |-> steps, tail |-> "torn"]]
    /\ UNCHANGED <<planned, saved, status, dbSteps, backup, target, edits>>

\* While nothing runs, the last line of a journal file is lost.
LoseJournalLine(p) ==
    /\ Fault
    /\ \A c \in Callers : call[c] = IdleCall
    /\ journal[p].steps # <<>> /\ journal[p].tail = "clean"
    /\ journal' = [journal EXCEPT ![p].steps = SubSeq(@, 1, Len(@) - 1)]
    /\ UNCHANGED <<planned, saved, status, dbSteps, backup, target, requests,
                   lock, holder, call, edits>>

CallStep(c) ==
    \/ WriteOwner(c) \/ InspectLock(c) \/ ClearLock(c) \/ ReleaseLock(c)
    \/ EnterApply(c) \/ EnterRestore(c) \/ EnterRecover(c)
    \/ Reconcile(c) \/ Resume(c)
    \/ AppendJournal(c) \/ AppendThrows(c) \/ RecordStep(c) \/ RecordThrows(c)
    \/ Prepare(c) \/ Capture(c) \/ SaveManifest(c) \/ SendCommit(c)
    \/ Verify(c) \/ SendRestore(c) \/ LoseConnection(c)

Next ==
    \/ \E p \in Plans : SavePlan(p) \/ HostApply(p) \/ LateRestore(p) \/ LoseJournalLine(p)
    \/ \E c \in Callers, p \in Plans : ApplyCall(c, p) \/ RestoreCall(c, p) \/ RecoverCall(c, p)
    \/ \E c \in Callers : AcquireFile(c) \/ CallStep(c) \/ HostRestore(c)
    \/ UserEdit
    \/ Crash

Spec == Init /\ [][Next]_vars

\* A running call keeps being scheduled, the host answers what reached it,
\* and the in-process queue of the lock is first come, first served.
FairSpec ==
    /\ Spec
    /\ \A p \in Plans : WF_vars(HostApply(p))
    /\ \A c \in Callers : WF_vars(CallStep(c)) /\ WF_vars(HostRestore(c)) /\ SF_vars(AcquireFile(c))

(***************************************************************************)
(* Safety                                                                  *)
(***************************************************************************)
\* A call acts on the platform only from rows that are a prefix of the
\* journal, whatever recordTransition, a crash between its two writes or a
\* damaged file did before: reconcileJournal and the sequence check of
\* recordTransactionStep stand before every adapter call.
JournalLeadsDatabase ==
    \A c \in Callers :
        call[c].phase \in {"resume", "act", "await"} /\ Readable(call[c].plan)
            => IsPrefixOf(dbSteps[call[c].plan], journal[call[c].plan].steps)

\* No byte of a plan reaches the platform, and no commit request is even on its
\* way, before the backup manifest is stored and "backup-completed" is in the
\* database (applyLocked persists both before adapter.commit), and no restore,
\* of whichever caller, ever runs or is left with the host without that manifest.
BackupBeforeCommit ==
  /\ \A c \in Callers : call[c].plan \in Plans /\ call[c].phase \in {"act", "await"}
                           /\ call[c].status = "restoring"
        => backup[call[c].plan].phase = "saved"
  /\ \A p \in Plans :
        p \in pending \/ Holds(target, Whole(p)) \/ Holds(target, Half(p))
            => backup[p].phase = "saved" /\ \E i \in DOMAIN dbSteps[p] : dbSteps[p][i] = "applying"
  /\ \A p \in Plans : restores[p] > 0 => backup[p].phase = "saved"

\* Where content of p is: on the platform or in a snapshot it can be restored from.
Contents == {target} \cup {backup[q].state : q \in Plans}
Wrote(content, p) == Holds(content, Whole(p)) \/ Holds(content, Half(p))

\* A transaction writes at most once, wholly or in part, and its report of success is
\* about that write: a commit request still on its way is the first the host gets of
\* it, and of a completed transaction none is on its way and no half write is on the
\* platform or comes back with a snapshot.  Late commits, late restores, replays and
\* repeated recoveries included.
WrittenOnce ==
    \A p \in Plans :
      /\ \A content \in Contents : \A i, j \in DOMAIN content :
            content[i] \in {Whole(p), Half(p)} /\ content[j] \in {Whole(p), Half(p)} => i = j
      /\ p \in pending => \A content \in Contents : ~Wrote(content, p)
      /\ status[p] = "completed" => p \notin pending /\ \A content \in Contents : ~Holds(content, Half(p))

\* Only one call at a time is inside the critical section of the root, and it
\* is the head of the in-process queue.
MutualExclusion ==
    \A c \in Callers : call[c].phase \notin Outside <=> holder = c

\* The restore of q writes its snapshot in this step, for a caller or behind its back.
Restored(q) ==
    \/ \E c \in Callers : /\ call[c].plan = q /\ call[c].phase = "await" /\ call[c].status = "restoring"
                          /\ call'[c].phase = "journal"
    \/ restores'[q] < restores[q]

\* The rollback of a transaction that never completed takes away nothing another
\* transaction wrote: apply refuses to start while any transaction of the root is
\* unresolved, so every snapshot holds what was completed before.  Two restores do
\* take newer content away: the explicit restore of an older transaction, and a request
\* the host executes so late that another recovery has reported the transaction
\* restored and a new one has completed since; a request whose transaction stays
\* restore-failed blocks every new write, and so harms nobody.  (With four
\* transactions that reaches further: content taken away by one restore is brought
\* back by the restore of a third, and the rollback of a fourth, whose snapshot was
\* captured in between, takes it away again.  The property is one of two.)
OthersUntouched ==
    [][\A p \in Plans :
        status[p] = "completed" /\ Holds(target, Whole(p)) /\ ~Holds(target', Whole(p))
            => \E q \in Plans :
                 /\ Restored(q)
                 /\ \/ \E i \in DOMAIN dbSteps[q] : dbSteps[q][i] = "completed"
                    \/ restores'[q] < restores[q] /\ status[q] = "restored"]_vars

\* With a single transaction on the target, the verdict the rows change to is
\* true of the platform at that moment: completed over the written content, and
\* restored over nothing of it once the commit was answered, through every crash,
\* late restore and replay of the journal.  (Before the answer the commit may still
\* land behind the restore: RestoredStaysRestored.)
VerdictMatchesContent ==
    [][\A p \in Plans : status'[p] # status[p] =>
        /\ status'[p] = "completed" => Holds(target, Whole(p))
        /\ status'[p] = "restored" /\ (\E i \in DOMAIN dbSteps[p] : dbSteps[p][i] = "verifying")
              => ~Wrote(target, p)]_vars

(***************************************************************************)
(* Liveness                                                                *)
(***************************************************************************)
\* Every call returns: no caller waits for ever in the lock queue or for the
\* host, whatever faults and crashes happen meanwhile.
CallsReturn == \A c \in Callers : (call[c] # IdleCall) ~> (call[c] = IdleCall)

(***************************************************************************)
(* Statements of the documentation the code does not keep                  *)
(***************************************************************************)
\* "Only a completed transaction with a verified backup can be restored
\* explicitly; recovery is for interrupted states": recovery never turns a
\* transaction its own rows call completed into anything else.
CompletedOnlyUndoneByRestore ==
    [][\A p \in Plans : status[p] = "completed" /\ status'[p] # "completed"
        => \E c \in Callers : call[c].kind = "restore" /\ call[c].plan = p]_vars

\* "Matching expected state completes": recovery does not roll back a target
\* that holds exactly what the commit was to write.
MatchingStateCompletes ==
    [][\A c \in Callers :
        /\ call[c].kind = "recover" /\ call[c].phase = "act" /\ call[c].status = "verifying"
        /\ call'[c].status = "restoring"
        => target # Committed(call[c].plan)]_vars

\* "Any third state requires explicit restore or manual review": a recovery
\* only overwrites the captured state or what its own commit made of it.
ThirdStateNeedsReview ==
    [][\A c \in Callers :
        call[c].kind = "recover" /\ target' # target /\ HostRestore(c)
        => LET p == call[c].plan
           IN target \in {Committed(p), Append(backup[p].state, Half(p))}]_vars

\* "A truncated final line is ignored": one torn line does not make the
\* journal unreadable.
TornLineIsIgnored == \A p \in Plans : Readable(p)

\* "A journal with more steps than SQLite can be completed along its hash chain":
\* a readable journal that is ahead of the rows is never the end, the recovery of
\* the transaction is still allowed.
AheadIsRepairable ==
    \A p \in Plans :
        /\ \A c \in Callers : call[c].plan # p
        /\ Agree(p) /\ Len(journal[p].steps) > Len(dbSteps[p])
        => RecoveryScope(p) \/ status[p] = "manual-review"

\* "No new write is stacked on an undetermined platform state": nothing is
\* restored while another transaction of the root is unresolved ...
NoStackedWrites ==
    [][\A c \in Callers :
        call[c].kind = "restore" /\ HostRestore(c)
        => \A q \in Plans \ {call[c].plan} : status[q] \in Resolved]_vars

\* ... and no commit is sent while the host still has a request of another one.
NoStackedRequests ==
    [][\A p \in Plans : p \in pending' \ pending => \A q \in Plans : restores[q] = 0 /\ q \notin pending]_vars

\* "Every injected post-mutation fault either restores fully or enters an explicit
\* non-writable recovery state": no content appears in a restored transaction.
RestoredStaysRestored ==
    [][\A p \in Plans : HostApply(p) /\ status[p] = "restored" => target' = target]_vars

\* "A stale precondition produces PLAN_STALE and zero platform writes": a
\* transaction whose commit was refused leaves the session as it is.
StaleCommitWritesNothing ==
    [][\A c \in Callers :
        call[c].kind = "apply" /\ target' # target /\ HostRestore(c)
        => Holds(target, Whole(call[c].plan)) \/ Holds(target, Half(call[c].plan))]_vars

\* "A fingerprint mismatch before the write is PLAN_STALE without any platform
\* mutation": a commit is only requested on the state the plan was made from.
StalePlanNeverCommits == \A p \in pending : backup[p].state = planned[p]
=============================================================================
