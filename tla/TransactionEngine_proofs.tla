----------------------- MODULE TransactionEngine_proofs -----------------------
(***************************************************************************)
(* Theorems about TransactionEngine, for every set of plans and callers and *)
(* every value of the bounds.                                              *)
(***************************************************************************)
EXTENDS TransactionEngine, TLAPS

\* A step names the requests that are on their way together, a proof needs them one by one.
USE DEF requests

\* A step of a call only moves it to another phase and status.
LEMMA AtType ==
    ASSUME TypeOK, NEW c \in Callers, NEW phase \in Phases, NEW st \in Status \cup {"none"}
    PROVE  At(c, phase, st) \in [Callers -> CallStates]
BY ZenonT(60) DEF TypeOK, At, CallStates

LEMMA IdleType ==
    ASSUME TypeOK, NEW c \in Callers
    PROVE  [call EXCEPT ![c] = IdleCall] \in [Callers -> CallStates]
BY DEF TypeOK, IdleCall, CallStates, Kinds, Phases

LEMMA AnswerType ==
    ASSUME TypeOK, NEW p \in Plans, NEW st \in {"verifying", "restoring"}, Answer(p, st)
    PROVE  call' \in [Callers -> CallStates]
<1>1. ASSUME NEW c \in Callers
      PROVE  [call[c] EXCEPT !.phase = "journal", !.status = st] \in CallStates
  <2>1. call[c] \in CallStates
    BY DEF TypeOK
  <2>2. "journal" \in Phases /\ st \in Status \cup {"none"}
    BY DEF Phases, Status
  <2> QED BY <2>1, <2>2 DEF CallStates
<1>2. \A c \in Callers : call[c] \in CallStates
  BY DEF TypeOK
<1> QED BY <1>1, <1>2 DEF Answer

LEMMA AfterThrowType ==
    ASSUME TypeOK, NEW c \in Callers
    PROVE  AfterThrow(c) \in [Callers -> CallStates]
BY AtType DEF AfterThrow, Phases, Status

LEMMA FaultType ==
    ASSUME TypeOK, Fault \/ NoFault
    PROVE  faults' \in Nat
BY DEF TypeOK, Fault, NoFault

\* The plan of a call inside the transaction is a plan.
LEMMA InPlan ==
    ASSUME TypeOK, NEW c \in Callers, NEW phase, In(c, phase)
    PROVE  call[c].plan \in Plans
BY DEF In

LEMMA SnapshotType ==
    ASSUME TypeOK, NEW p \in Plans
    PROVE  backup[p] \in BackupStates /\ backup[p].state \in Seq(Items)
BY DEF TypeOK, BackupStates

\* A request more or less is a number of requests.
LEMMA RestoresType ==
    ASSUME TypeOK, NEW p \in Plans
    PROVE  /\ [restores EXCEPT ![p] = @ + 1] \in [Plans -> Nat]
           /\ restores[p] > 0 => [restores EXCEPT ![p] = @ - 1] \in [Plans -> Nat]
BY DEF TypeOK

LEMMA StepsType ==
    ASSUME TypeOK, NEW p \in Plans
    PROVE  /\ journal[p] \in JournalStates
           /\ journal[p].steps \in Seq(Status) /\ dbSteps[p] \in Seq(Status)
BY DEF TypeOK, JournalStates

LEMMA ItemType ==
    ASSUME NEW a \in Plans \cup {User}
    PROVE  Whole(a) \in Items /\ Half(a) \in Items
BY DEF Whole, Half, Items

LEMMA BeginType ==
    ASSUME TypeOK, NEW c \in Callers, NEW p \in Plans, NEW kind \in Kinds, Begin(c, kind, p)
    PROVE  call' \in [Callers -> CallStates]
<1>1. [kind |-> kind, plan |-> p, phase |-> "wait", status |-> "none"] \in CallStates
  BY DEF CallStates, Phases
<1> QED BY <1>1 DEF TypeOK, Begin

\* Where a call stands after a step moved it.
LEMMA Moved ==
    ASSUME TypeOK, NEW c \in Callers, NEW phase, NEW st, call' = At(c, phase, st)
    PROVE  /\ call'[c].phase = phase /\ call'[c].status = st
           /\ call'[c].plan = call[c].plan /\ call'[c].kind = call[c].kind
           /\ \A d \in Callers : d # c => call'[d] = call[d]
BY DEF TypeOK, At, CallStates

LEMMA Idled ==
    ASSUME TypeOK, NEW c \in Callers, call' = [call EXCEPT ![c] = IdleCall]
    PROVE  /\ call'[c] = IdleCall
           /\ \A d \in Callers : d # c => call'[d] = call[d]
BY DEF TypeOK

\* What a call is about to record is a status: without it the type of the journal
\* is not inductive.
RecordsStatus ==
    \A c \in Callers : call[c].phase \in {"journal", "db"} => call[c].status \in Status

TypeInv == TypeOK /\ RecordsStatus

\* Type correctness of the transaction engine: every step keeps every variable in
\* the set TypeOK gives it.
LEMMA TypeStep ==
    TypeInv /\ [Next]_vars => TypeOK'
<1> SUFFICES ASSUME TypeOK, RecordsStatus, [Next]_vars PROVE TypeOK'
  BY DEF TypeInv
<1>1. CASE UNCHANGED vars
  BY <1>1 DEF TypeOK, vars
<1>2. ASSUME NEW p \in Plans, SavePlan(p) PROVE TypeOK'
  BY <1>2 DEF TypeOK, SavePlan
<1>3. ASSUME NEW p \in Plans, HostApply(p) PROVE TypeOK'
  <2>1. target' \in Seq(Items)
    <3>1. target' \in {target, Append(target, Whole(p)), Append(target, Half(p))}
      BY <1>3 DEF HostApply
    <3>2. Whole(p) \in Items /\ Half(p) \in Items
      BY ItemType
    <3>3. target \in Seq(Items)
      BY DEF TypeOK
    <3>4. \A e \in Items : Append(target, e) \in Seq(Items)
      BY <3>3
    <3> QED BY <3>1, <3>2, <3>3, <3>4
  <2>2. call' \in [Callers -> CallStates]
    BY <1>3, AnswerType DEF HostApply
  <2> QED BY <1>3, <2>1, <2>2, FaultType DEF TypeOK, HostApply, durable
<1>4. ASSUME NEW p \in Plans, LoseJournalLine(p) PROVE TypeOK'
  <2>1. SubSeq(journal[p].steps, 1, Len(journal[p].steps) - 1) \in Seq(Status)
    BY <1>4, StepsType DEF LoseJournalLine
  <2>2. [journal[p] EXCEPT !.steps = SubSeq(journal[p].steps, 1, Len(journal[p].steps) - 1)]
            \in JournalStates
    BY <2>1, StepsType DEF JournalStates
  <2>3. journal' \in [Plans -> JournalStates]
    BY <1>4, <2>2 DEF TypeOK, LoseJournalLine
  <2> QED BY <1>4, <2>3, FaultType DEF TypeOK, LoseJournalLine
<1>5. ASSUME NEW c \in Callers, NEW p \in Plans,
             ApplyCall(c, p) \/ RestoreCall(c, p) \/ RecoverCall(c, p)
      PROVE  TypeOK'
  <2>1. call' \in [Callers -> CallStates]
    BY <1>5, BeginType DEF ApplyCall, RestoreCall, RecoverCall, Kinds
  <2> QED BY <1>5, <2>1 DEF TypeOK, ApplyCall, RestoreCall, RecoverCall, durable
<1>6. ASSUME NEW c \in Callers, AcquireFile(c) PROVE TypeOK'
  <2>1. call' \in [Callers -> CallStates]
    <3>1. At(c, "locking", "none") \in [Callers -> CallStates]
      BY AtType DEF Phases
    <3>2. At(c, "clear", "none") \in [Callers -> CallStates]
      BY AtType DEF Phases
    <3> QED BY <1>6, <3>1, <3>2, IdleType DEF AcquireFile, CreateFile
  <2> QED BY <1>6, <2>1 DEF TypeOK, AcquireFile, CreateFile, durable
<1>7. ASSUME NEW c \in Callers, WriteOwner(c) \/ InspectLock(c) \/ ClearLock(c) \/ ReleaseLock(c)
      PROVE  TypeOK'
  <2>1. call' \in [Callers -> CallStates]
    BY <1>7, AtType, IdleType DEF WriteOwner, InspectLock, ClearLock, ReleaseLock, Phases
  <2> QED BY <1>7, <2>1, FaultType
          DEF TypeOK, WriteOwner, InspectLock, ClearLock, ReleaseLock, durable, NoFault
<1>8. ASSUME NEW c \in Callers, EnterApply(c) \/ EnterRestore(c) \/ EnterRecover(c)
      PROVE  TypeOK'
  <2>1. call' \in [Callers -> CallStates]
    BY SMTT(60), <1>8, AtType DEF EnterApply, CreateOr, EnterRestore, EnterRecover, Phases, Status
  <2>2. status' \in [Plans -> Status \cup {"none"}]
    BY <1>8, InPlan DEF TypeOK, EnterApply, CreateOr, EnterRestore, EnterRecover, durable, Status
  <2> QED BY <1>8, <2>1, <2>2
          DEF TypeOK, EnterApply, CreateOr, EnterRestore, EnterRecover, durable
<1>9. ASSUME NEW c \in Callers, Reconcile(c) PROVE TypeOK'
  <2> DEFINE p == call[c].plan
             step == journal[p].steps[Len(dbSteps[p]) + 1]
  <2>1. p \in Plans
    BY <1>9, InPlan DEF Reconcile, ReconcileIf
  <2>2. journal[p].steps \in Seq(Status) /\ dbSteps[p] \in Seq(Status)
    BY <2>1, StepsType
  <2>3. Len(dbSteps[p]) < Len(journal[p].steps) => step \in Status
    BY SMTT(60), <2>2
  <2>4. call' \in [Callers -> CallStates]
    <3>1. status[p] \in Status \cup {"none"}
      BY <2>1 DEF TypeOK
    <3>2. /\ At(c, "release", "none") \in [Callers -> CallStates]
          /\ At(c, "resume", status[p]) \in [Callers -> CallStates]
      BY <3>1, AtType DEF Phases
    <3> QED BY <1>9, <3>2 DEF TypeOK, Reconcile, ReconcileIf
  <2>5. /\ status' \in [Plans -> Status \cup {"none"}]
        /\ dbSteps' \in [Plans -> Seq(Status)]
    <3>1. CASE /\ Len(dbSteps[p]) < Len(journal[p].steps)
               /\ dbSteps' = [dbSteps EXCEPT ![p] = Append(dbSteps[p], step)]
               /\ status' = [status EXCEPT ![p] = step]
      <4>1. Append(dbSteps[p], step) \in Seq(Status)
        BY <2>2, <2>3, <3>1
      <4> QED BY <2>1, <2>3, <3>1, <4>1 DEF TypeOK
    <3>2. CASE /\ dbSteps' = dbSteps
               /\ status' = status \/ status' = [status EXCEPT ![p] = "manual-review"]
      BY <2>1, <3>2 DEF TypeOK, Status
    <3> QED BY <1>9, <3>1, <3>2 DEF Reconcile, ReconcileIf
  <2> QED BY <1>9, <2>4, <2>5 DEF TypeOK, Reconcile, ReconcileIf
<1>10. ASSUME NEW c \in Callers, Resume(c) PROVE TypeOK'
  <2>1. call' \in [Callers -> CallStates]
    BY <1>10, AtType DEF Resume, Phases, Status
  <2> QED BY <1>10, <2>1 DEF TypeOK, Resume, durable
<1>11. ASSUME NEW c \in Callers, AppendJournal(c) PROVE TypeOK'
  <2> DEFINE p == call[c].plan
  <2>1. p \in Plans
    BY <1>11, InPlan DEF AppendJournal
  <2>2. call[c].status \in Status
    BY <1>11 DEF AppendJournal, In, RecordsStatus
  <2>3. journal' \in [Plans -> JournalStates]
    <3>1. Append(journal[p].steps, call[c].status) \in Seq(Status)
      BY <2>1, <2>2, StepsType
    <3>2. /\ [journal[p] EXCEPT !.steps = Append(journal[p].steps, call[c].status)] \in JournalStates
          /\ [journal[p] EXCEPT !.tail = "corrupt"] \in JournalStates
      BY <2>1, <3>1, StepsType DEF JournalStates
    <3>3. \/ journal' = [journal EXCEPT ![p] =
                  [journal[p] EXCEPT !.steps = Append(journal[p].steps, call[c].status)]]
          \/ journal' = [journal EXCEPT ![p] = [journal[p] EXCEPT !.tail = "corrupt"]]
      BY <1>11, <2>1 DEF TypeOK, AppendJournal
    <3> QED BY <2>1, <3>2, <3>3 DEF TypeOK
  <2>4. call' \in [Callers -> CallStates]
    BY <1>11, <2>2, AtType DEF AppendJournal, Phases
  <2> QED BY <1>11, <2>3, <2>4 DEF TypeOK, AppendJournal
<1>12. ASSUME NEW c \in Callers, AppendThrows(c) PROVE TypeOK'
  <2>1. call[c].plan \in Plans
    BY <1>12, InPlan DEF AppendThrows
  <2>2. journal' \in [Plans -> JournalStates]
    <3>1. [journal[call[c].plan] EXCEPT !.tail = "torn"] \in JournalStates
      BY <2>1, StepsType DEF JournalStates
    <3>2. \/ UNCHANGED journal
          \/ journal' = [journal EXCEPT ![call[c].plan] =
                            [journal[call[c].plan] EXCEPT !.tail = "torn"]]
      BY <1>12, <2>1 DEF TypeOK, AppendThrows
    <3> QED BY <2>1, <3>1, <3>2 DEF TypeOK
  <2>3. faults' \in Nat
    BY <1>12, FaultType DEF AppendThrows
  <2> QED BY <1>12, <2>2, <2>3, AfterThrowType DEF TypeOK, AppendThrows
<1>13. ASSUME NEW c \in Callers, RecordStep(c) PROVE TypeOK'
  <2> DEFINE p == call[c].plan
  <2>1. p \in Plans
    BY <1>13, InPlan DEF RecordStep
  <2>2. call[c].status \in Status
    BY <1>13 DEF RecordStep, In, RecordsStatus
  <2>3. /\ dbSteps' \in [Plans -> Seq(Status)]
        /\ status' \in [Plans -> Status \cup {"none"}]
    BY <1>13, <2>1, <2>2 DEF TypeOK, RecordStep
  <2>4. call' \in [Callers -> CallStates]
    BY <1>13, <2>2, AtType DEF RecordStep, Phases
  <2> QED BY <1>13, <2>3, <2>4 DEF TypeOK, RecordStep
<1>14. ASSUME NEW c \in Callers, RecordThrows(c) PROVE TypeOK'
  <2>1. faults' \in Nat
    BY <1>14, FaultType DEF RecordThrows
  <2> QED BY <1>14, <2>1, AfterThrowType DEF TypeOK, RecordThrows, durable
<1>15. ASSUME NEW c \in Callers,
              Prepare(c) \/ SendCommit(c) \/ LoseConnection(c) \/ Verify(c)
       PROVE  TypeOK'
  <2>1. call' \in [Callers -> CallStates]
    <3>1. /\ "journal" \in Phases /\ "await" \in Phases /\ "release" \in Phases
          /\ {"backing-up", "manual-review", "applying", "completed", "restoring", "restore-failed", "none"}
                 \subseteq Status \cup {"none"}
      BY DEF Phases, Status
    <3>2. CASE Prepare(c) \/ SendCommit(c)
      BY <3>1, <3>2, AtType DEF Prepare, SendCommit
    <3>3. CASE LoseConnection(c) \/ Verify(c)
      BY <3>1, <3>3, AtType DEF LoseConnection, Verify
    <3> QED BY <1>15, <3>2, <3>3
  <2>2. faults' \in Nat
    BY <1>15, FaultType DEF Prepare, SendCommit, LoseConnection, Verify
  <2>3. pending' \subseteq Plans
    <3>1. pending' = pending \/ (SendCommit(c) /\ pending' = pending \cup {call[c].plan})
      BY <1>15 DEF Prepare, SendCommit, LoseConnection, Verify
    <3>2. SendCommit(c) => call[c].plan \in Plans
      BY InPlan DEF SendCommit
    <3> QED BY <3>1, <3>2 DEF TypeOK
  <2>4. restores' \in [Plans -> Nat]
    <3>1. LoseConnection(c) => call[c].plan \in Plans
      BY InPlan DEF LoseConnection
    <3>2. CASE LoseConnection(c)
      BY <3>1, <3>2, RestoresType DEF LoseConnection, TypeOK
    <3>3. CASE ~LoseConnection(c)
      BY <1>15, <3>3 DEF Prepare, SendCommit, Verify, TypeOK
    <3> QED BY <3>2, <3>3
  <2> QED BY <1>15, <2>1, <2>2, <2>3, <2>4
          DEF TypeOK, Prepare, SendCommit, LoseConnection, Verify, durable
<1>16. ASSUME NEW c \in Callers, Capture(c) \/ SaveManifest(c) PROVE TypeOK'
  <2> DEFINE p == call[c].plan
  <2>1. p \in Plans
    BY <1>16, InPlan DEF Capture, SaveManifest
  <2>2. backup' \in [Plans -> BackupStates]
    <3>1. /\ [phase |-> "captured", state |-> target] \in BackupStates
          /\ [backup[p] EXCEPT !.phase = "saved"] \in BackupStates
      BY <2>1, SnapshotType DEF TypeOK, BackupStates
    <3>2. \/ UNCHANGED backup
          \/ backup' = [backup EXCEPT ![p] = [phase |-> "captured", state |-> target]]
          \/ backup' = [backup EXCEPT ![p] = [backup[p] EXCEPT !.phase = "saved"]]
      BY <1>16, <2>1 DEF TypeOK, Capture, SaveManifest
    <3> QED BY <2>1, <3>1, <3>2 DEF TypeOK
  <2>3. call' \in [Callers -> CallStates]
    <3>1. /\ At(c, "journal", "manual-review") \in [Callers -> CallStates]
          /\ At(c, "journal", "applying") \in [Callers -> CallStates]
      BY AtType DEF Phases, Status
    <3> QED BY <1>16, <3>1 DEF TypeOK, Capture, SaveManifest
  <2>4. faults' \in Nat
    BY <1>16, FaultType DEF Capture, SaveManifest
  <2> QED BY <1>16, <2>2, <2>3, <2>4 DEF TypeOK, Capture, SaveManifest
<1>17. ASSUME NEW c \in Callers, SendRestore(c) \/ HostRestore(c) PROVE TypeOK'
  <2>1. backup[call[c].plan].state \in Seq(Items)
    BY <1>17, InPlan, SnapshotType DEF SendRestore, HostRestore
  <2>2. target' \in Seq(Items)
    BY <1>17, <2>1 DEF TypeOK, SendRestore, HostRestore
  <2>3. call' \in [Callers -> CallStates]
    BY <1>17, AtType DEF SendRestore, HostRestore, Phases, Status
  <2>4. faults' \in Nat
    BY <1>17, FaultType DEF SendRestore, HostRestore
  <2> QED BY <1>17, <2>2, <2>3, <2>4 DEF TypeOK, SendRestore, HostRestore, durable
<1>18. CASE UserEdit
  BY <1>18 DEF TypeOK, UserEdit, Whole, Items, durable
<1>19. CASE Crash
  <2>1. journal' \in [Plans -> JournalStates]
    <3>1. CASE UNCHANGED journal
      BY <3>1 DEF TypeOK
    <3>2. ASSUME NEW c \in Callers, In(c, "journal"),
                 NEW steps \in {journal[call[c].plan].steps,
                                Append(journal[call[c].plan].steps, call[c].status)},
                 journal' = [journal EXCEPT ![call[c].plan] = [steps |-> steps, tail |-> "torn"]]
          PROVE  journal' \in [Plans -> JournalStates]
      <4>1. call[c].plan \in Plans /\ call[c].status \in Status
        BY <3>2 DEF In, RecordsStatus
      <4>2. steps \in Seq(Status)
        BY SMTT(60), <3>2, <4>1, StepsType
      <4>3. [steps |-> steps, tail |-> "torn"] \in JournalStates
        BY <4>2 DEF JournalStates
      <4> QED BY <3>2, <4>1, <4>3 DEF TypeOK
    <3> QED BY <1>19, <3>1, <3>2 DEF Crash
  <2>2. call' \in [Callers -> CallStates]
    BY <1>19 DEF Crash, IdleCall, CallStates, Kinds, Phases
  <2>3. restores' \in [Plans -> Nat]
    <3>1. restores \in [Plans -> Nat]
      BY DEF TypeOK
    <3>2. ASSUME NEW c \in Callers, In(c, "await")
          PROVE  [restores EXCEPT ![call[c].plan] = @ + 1] \in [Plans -> Nat]
      BY <3>2, InPlan, RestoresType
    <3> QED BY <1>19, <3>1, <3>2 DEF Crash, RestoresLeft
  <2> QED BY <1>19, <2>1, <2>2, <2>3, FaultType DEF TypeOK, Crash
<1>20. ASSUME NEW p \in Plans, LateRestore(p) PROVE TypeOK'
  <2>1. target' \in Seq(Items) /\ restores' \in [Plans -> Nat]
    BY <1>20, SnapshotType, RestoresType DEF LateRestore, TypeOK
  <2> QED BY <1>20, <2>1 DEF TypeOK, LateRestore, durable
<1> QED
  BY <1>1, <1>2, <1>3, <1>4, <1>5, <1>6, <1>7, <1>8, <1>9, <1>10, <1>11, <1>12,
     <1>13, <1>14, <1>15, <1>16, <1>17, <1>18, <1>19, <1>20 DEF Next, CallStep

LEMMA RecordsMoved ==
    ASSUME TypeOK, RecordsStatus, NEW c \in Callers, NEW phase, NEW st,
           call' = At(c, phase, st), phase \in {"journal", "db"} => st \in Status
    PROVE  RecordsStatus'
BY Moved DEF RecordsStatus

LEMMA RecordsIdled ==
    ASSUME TypeOK, RecordsStatus, NEW c \in Callers, call' = [call EXCEPT ![c] = IdleCall]
    PROVE  RecordsStatus'
BY Idled DEF RecordsStatus, IdleCall

LEMMA RecordsAfterThrow ==
    ASSUME TypeOK, RecordsStatus, NEW c \in Callers, call' = AfterThrow(c)
    PROVE  RecordsStatus'
BY RecordsMoved DEF AfterThrow, Status

LEMMA RecordsStep ==
    TypeInv /\ [Next]_vars => RecordsStatus'
<1> SUFFICES ASSUME TypeOK, RecordsStatus, [Next]_vars PROVE RecordsStatus'
  BY DEF TypeInv
<1>1. CASE UNCHANGED call
  BY <1>1 DEF RecordsStatus
<1>2. ASSUME NEW p \in Plans, SavePlan(p) \/ LateRestore(p) \/ LoseJournalLine(p) PROVE RecordsStatus'
  BY <1>1, <1>2 DEF SavePlan, LateRestore, LoseJournalLine
<1>3. ASSUME NEW p \in Plans, HostApply(p) PROVE RecordsStatus'
  <2>1. PICK st \in {"verifying", "restoring"} : Answer(p, st)
    BY <1>3 DEF HostApply
  <2>2. ASSUME NEW c \in Callers
        PROVE  call'[c] = call[c] \/ call'[c].status = st
    BY <2>1 DEF TypeOK, Answer, CallStates
  <2> QED BY <2>2 DEF RecordsStatus, Status
<1>4. ASSUME NEW c \in Callers, NEW p \in Plans,
             ApplyCall(c, p) \/ RestoreCall(c, p) \/ RecoverCall(c, p)
      PROVE  RecordsStatus'
  <2>1. /\ call'[c].phase = "wait"
        /\ \A d \in Callers : d # c => call'[d] = call[d]
    BY <1>4 DEF TypeOK, ApplyCall, RestoreCall, RecoverCall, Begin
  <2> QED BY <2>1 DEF RecordsStatus
<1>5. ASSUME NEW c \in Callers, AcquireFile(c) PROVE RecordsStatus'
  BY <1>5, RecordsMoved, RecordsIdled DEF AcquireFile, CreateFile
<1>6. ASSUME NEW c \in Callers, WriteOwner(c) \/ InspectLock(c) \/ ClearLock(c) \/ ReleaseLock(c)
      PROVE  RecordsStatus'
  BY <1>6, RecordsMoved, RecordsIdled DEF WriteOwner, InspectLock, ClearLock, ReleaseLock
<1>7. ASSUME NEW c \in Callers, EnterApply(c) \/ EnterRestore(c) \/ EnterRecover(c)
      PROVE  RecordsStatus'
  BY <1>7, RecordsMoved DEF EnterApply, CreateOr, EnterRestore, EnterRecover, Status
<1>8. ASSUME NEW c \in Callers, Reconcile(c) \/ Resume(c) PROVE RecordsStatus'
  BY <1>1, <1>8, RecordsMoved DEF Reconcile, ReconcileIf, Resume, Status
<1>9. ASSUME NEW c \in Callers, AppendJournal(c) \/ RecordStep(c) PROVE RecordsStatus'
  <2>1. call[c].status \in Status
    BY <1>9 DEF AppendJournal, RecordStep, In, RecordsStatus
  <2> QED BY <1>9, <2>1, RecordsMoved DEF AppendJournal, RecordStep
<1>10. ASSUME NEW c \in Callers, AppendThrows(c) \/ RecordThrows(c) PROVE RecordsStatus'
  BY <1>10, RecordsAfterThrow DEF AppendThrows, RecordThrows
<1>11. ASSUME NEW c \in Callers,
              \/ Prepare(c) \/ Capture(c) \/ SaveManifest(c) \/ SendCommit(c)
              \/ LoseConnection(c) \/ Verify(c) \/ SendRestore(c) \/ HostRestore(c)
       PROVE  RecordsStatus'
  BY <1>1, <1>11, RecordsMoved
     DEF Prepare, Capture, SaveManifest, SendCommit, LoseConnection, Verify, SendRestore,
         HostRestore, Status
<1>12. CASE Crash
  BY <1>12 DEF Crash, RecordsStatus, IdleCall
<1> QED
  BY <1>1, <1>2, <1>3, <1>4, <1>5, <1>6, <1>7, <1>8, <1>9, <1>10, <1>11, <1>12
     DEF Next, CallStep, UserEdit, vars

LEMMA TypeInit == Init => TypeInv
BY ConstantsAssumption
   DEF Init, TypeInv, TypeOK, RecordsStatus, IdleCall, CallStates, Kinds, Phases,
       JournalStates, BackupStates

\* The variables keep their types: nothing is ever recorded that is not a status,
\* no call belongs to anything but a plan.
THEOREM TypeCorrect == Spec => []TypeOK
<1>1. TypeInv /\ [Next]_vars => TypeInv'
  BY TypeStep, RecordsStep DEF TypeInv
<1>2. TypeInv => TypeOK
  BY DEF TypeInv
<1> QED BY TypeInit, <1>1, <1>2, PTL DEF Spec

(***************************************************************************)
(* Mutual exclusion                                                        *)
(***************************************************************************)
LEMMA InsideMoved ==
    ASSUME TypeOK, MutualExclusion, NEW c \in Callers, NEW phase, NEW st,
           call' = At(c, phase, st), holder' = holder,
           call[c].phase \in Outside <=> phase \in Outside
    PROVE  MutualExclusion'
BY Moved DEF MutualExclusion

LEMMA InsideAfterThrow ==
    ASSUME TypeOK, MutualExclusion, NEW c \in Callers, call' = AfterThrow(c),
           holder' = holder, call[c].phase \notin Outside
    PROVE  MutualExclusion'
BY InsideMoved DEF AfterThrow, Outside

LEMMA MutualStep ==
    TypeOK /\ MutualExclusion /\ [Next]_vars => MutualExclusion'
<1> SUFFICES ASSUME TypeOK, MutualExclusion, [Next]_vars PROVE MutualExclusion'
  OBVIOUS
<1>1. CASE UNCHANGED <<call, holder>>
  BY <1>1 DEF MutualExclusion
<1>2. ASSUME NEW p \in Plans, SavePlan(p) \/ LateRestore(p) \/ LoseJournalLine(p) PROVE MutualExclusion'
  BY <1>1, <1>2 DEF SavePlan, LateRestore, LoseJournalLine
<1>3. ASSUME NEW p \in Plans, HostApply(p) PROVE MutualExclusion'
  <2>1. PICK st \in {"verifying", "restoring"} : Answer(p, st)
    BY <1>3 DEF HostApply
  <2>2. ASSUME NEW c \in Callers
        PROVE  \/ call'[c] = call[c]
               \/ call[c].phase = "await" /\ call'[c].phase = "journal"
    BY <2>1 DEF TypeOK, Answer, CallStates
  <2> QED BY <1>3, <2>2 DEF HostApply, MutualExclusion, Outside
<1>4. ASSUME NEW c \in Callers, NEW p \in Plans,
             ApplyCall(c, p) \/ RestoreCall(c, p) \/ RecoverCall(c, p)
      PROVE  MutualExclusion'
  <2>1. /\ call[c].phase = "idle" /\ call'[c].phase = "wait" /\ holder' = holder
        /\ \A d \in Callers : d # c => call'[d] = call[d]
    BY <1>4 DEF TypeOK, ApplyCall, RestoreCall, RecoverCall, Begin, IdleCall
  <2> QED BY <2>1 DEF MutualExclusion, Outside
<1>5. ASSUME NEW c \in Callers, AcquireFile(c) PROVE MutualExclusion'
  <2>1. CASE holder' = c /\ call' = At(c, "locking", "none")
    BY <1>5, <2>1, Moved, ConstantsAssumption
       DEF AcquireFile, CreateFile, MutualExclusion, Outside
  <2>2. CASE holder' = holder /\ call' = At(c, "clear", "none")
    BY <1>5, <2>2, InsideMoved DEF AcquireFile, CreateFile, Outside
  <2>3. CASE holder' = holder /\ call' = [call EXCEPT ![c] = IdleCall]
    BY <1>5, <2>3, Idled DEF AcquireFile, CreateFile, MutualExclusion, Outside, IdleCall
  <2> QED BY <1>5, <2>1, <2>2, <2>3 DEF AcquireFile, CreateFile
<1>6. ASSUME NEW c \in Callers, WriteOwner(c) \/ ReleaseLock(c) PROVE MutualExclusion'
  <2>1. CASE holder' = holder /\ call' = At(c, "locked", "none")
    BY <1>6, <2>1, InsideMoved DEF WriteOwner, ReleaseLock, In, Outside
  <2>2. CASE holder' = NoCaller /\ call' = [call EXCEPT ![c] = IdleCall]
    <3>1. holder = c
      BY <1>6 DEF WriteOwner, ReleaseLock, In, MutualExclusion, Outside
    <3>2. call'[c].phase = "idle" /\ \A d \in Callers : d # c => call'[d] = call[d]
      <4>1. call'[c] = IdleCall /\ \A d \in Callers : d # c => call'[d] = call[d]
        BY <2>2, Idled
      <4> QED BY <4>1 DEF IdleCall
    <3> QED BY <2>2, <3>1, <3>2, ConstantsAssumption DEF MutualExclusion, Outside
  <2> QED BY <1>6, <2>1, <2>2 DEF WriteOwner, ReleaseLock
<1>7. ASSUME NEW c \in Callers, InspectLock(c) \/ ClearLock(c) PROVE MutualExclusion'
  <2>1. holder' = holder /\ call[c].phase \in Outside
    BY <1>7 DEF InspectLock, ClearLock, In, Outside
  <2>2. CASE call' = [call EXCEPT ![c] = IdleCall]
    BY <2>1, <2>2, Idled DEF MutualExclusion, Outside, IdleCall
  <2>3. CASE call' = At(c, "clearing", "none") \/ call' = At(c, "rewait", "none")
    BY <2>1, <2>3, InsideMoved DEF Outside
  <2> QED BY <1>7, <2>2, <2>3 DEF InspectLock, ClearLock
<1>8. ASSUME NEW c \in Callers, EnterApply(c) \/ EnterRestore(c) \/ EnterRecover(c)
      PROVE  MutualExclusion'
  BY <1>8, InsideMoved
     DEF EnterApply, CreateOr, EnterRestore, EnterRecover, In, Outside
<1>9. ASSUME NEW c \in Callers, Reconcile(c) \/ Resume(c) PROVE MutualExclusion'
  BY <1>1, <1>9, InsideMoved DEF Reconcile, ReconcileIf, Resume, In, Outside
<1>10. ASSUME NEW c \in Callers, AppendJournal(c) \/ RecordStep(c) PROVE MutualExclusion'
  BY <1>10, InsideMoved DEF AppendJournal, RecordStep, In, Outside
<1>11. ASSUME NEW c \in Callers, AppendThrows(c) \/ RecordThrows(c) PROVE MutualExclusion'
  BY <1>11, InsideAfterThrow DEF AppendThrows, RecordThrows, In, Outside
<1>12. ASSUME NEW c \in Callers,
              \/ Prepare(c) \/ Capture(c) \/ SaveManifest(c) \/ SendCommit(c)
              \/ LoseConnection(c) \/ Verify(c) \/ SendRestore(c) \/ HostRestore(c)
       PROVE  MutualExclusion'
  BY <1>1, <1>12, InsideMoved
     DEF Prepare, Capture, SaveManifest, SendCommit, LoseConnection, Verify, SendRestore,
         HostRestore, In, Outside
<1>13. CASE Crash
  BY <1>13, ConstantsAssumption DEF Crash, MutualExclusion, IdleCall, Outside
<1> QED
  BY <1>1, <1>2, <1>3, <1>4, <1>5, <1>6, <1>7, <1>8, <1>9, <1>10, <1>11, <1>12, <1>13
     DEF Next, CallStep, UserEdit, vars

\* A recovery that clears a stale lock can take away the lock file of another; the
\* in-process queue alone keeps the critical section of the root exclusive.
THEOREM Exclusive == Spec => []MutualExclusion
<1>1. Init => MutualExclusion
  BY ConstantsAssumption DEF Init, MutualExclusion, IdleCall, Outside
<1>2. TypeOK /\ TypeOK' /\ MutualExclusion /\ [Next]_vars => MutualExclusion'
  BY MutualStep
<1> QED BY <1>1, <1>2, TypeCorrect, PTL DEF Spec

(***************************************************************************)
(* The backup exists before anything is committed                          *)
(***************************************************************************)
\* The statuses a transaction only reaches once its manifest is stored.
Late == {"applying", "verifying", "completed", "restoring", "restored", "restore-failed"}
Stored(p) == backup[p].phase = "saved"
Begun(p) == Stored(p) /\ \E i \in DOMAIN dbSteps[p] : dbSteps[p][i] = "applying"

LateCalls ==
    \A c \in Callers :
        /\ call[c].plan \in Plans
        /\ \/ call[c].phase \in {"journal", "db", "act", "resume"} /\ call[c].status \in Late
           \/ call[c].phase = "await"
        => Stored(call[c].plan)
LateRows == \A p \in Plans : status[p] \in Late => Stored(p)
LateLines ==
    \A p \in Plans : \A i \in DOMAIN journal[p].steps :
        journal[p].steps[i] \in Late => Stored(p)
\* Recovery only runs for transactions that have a row.
RecoverHasRow ==
    \A c \in Callers :
        /\ call[c].kind = "recover" /\ call[c].plan \in Plans => status[call[c].plan] # "none"
        /\ call[c].phase = "resume" => call[c].status # "none"
        /\ call[c].phase = "reconcile" => call[c].kind = "recover"
Requests ==
    /\ \A c \in Callers :
         call[c].plan \in Plans /\ call[c].phase = "act" /\ call[c].status = "applying"
            => Begun(call[c].plan)
    /\ \A p \in pending : Begun(p)
    /\ \A p \in Plans : restores[p] > 0 => Stored(p)
Origins ==
    \A p \in Plans :
        /\ Wrote(target, p) => Begun(p)
        /\ \A q \in Plans : Wrote(backup[q].state, p) => Begun(p)

\* The inductive invariant: the manifest is behind every late status, wherever
\* it is kept (call, row, journal line), and the content of a transaction is only
\* where a request that was allowed to leave has put it, or a snapshot of that.
BackupInv ==
    LateCalls /\ LateRows /\ LateLines /\ RecoverHasRow /\ Requests /\ Origins

\* A stored manifest and a recorded step are never taken back.
LEMMA BegunStays ==
    ASSUME TypeInv, [Next]_vars, NEW p \in Plans
    PROVE  (Stored(p) => Stored(p)') /\ (Begun(p) => Begun(p)')
<1>1. \/ UNCHANGED backup
      \/ \E c \in Callers : Capture(c) \/ SaveManifest(c)
  BY ZenonT(60) DEF Next, CallStep, vars, durable, SavePlan, HostApply, LoseJournalLine, ApplyCall,
     RestoreCall, RecoverCall, AcquireFile, CreateFile, WriteOwner, InspectLock, ClearLock,
     ReleaseLock, EnterApply, CreateOr, EnterRestore, EnterRecover, Reconcile, ReconcileIf,
     Resume, AppendJournal, AppendThrows, RecordStep, RecordThrows, Prepare, SendCommit,
     LoseConnection, Verify, SendRestore, HostRestore, LateRestore, UserEdit, Crash
<1>2. \/ UNCHANGED dbSteps
      \/ \E c \in Callers : Reconcile(c) \/ RecordStep(c)
  BY ZenonT(60) DEF Next, CallStep, vars, durable, SavePlan, HostApply, LoseJournalLine, ApplyCall,
     RestoreCall, RecoverCall, AcquireFile, CreateFile, WriteOwner, InspectLock, ClearLock,
     ReleaseLock, EnterApply, CreateOr, EnterRestore, EnterRecover, Resume, AppendJournal,
     AppendThrows, RecordThrows, Prepare, Capture, SaveManifest, SendCommit,
     LoseConnection, Verify, SendRestore, HostRestore, LateRestore, UserEdit, Crash
<1>3. Stored(p) => Stored(p)'
  <2>1. ASSUME NEW c \in Callers, Capture(c) \/ SaveManifest(c), Stored(p)
        PROVE  Stored(p)'
    BY <2>1, InPlan DEF TypeInv, TypeOK, Capture, SaveManifest, Stored, BackupStates
  <2> QED BY <1>1, <2>1 DEF Stored
<1>4. ASSUME NEW i \in DOMAIN dbSteps[p], dbSteps[p][i] = "applying"
      PROVE  i \in DOMAIN dbSteps'[p] /\ dbSteps'[p][i] = "applying"
  <2>1. CASE UNCHANGED dbSteps
    BY <1>4, <2>1
  <2>2. ASSUME NEW c \in Callers, Reconcile(c) \/ RecordStep(c)
        PROVE  i \in DOMAIN dbSteps'[p] /\ dbSteps'[p][i] = "applying"
    <3>1. call[c].plan \in Plans /\ dbSteps[p] \in Seq(Status)
      BY <2>2, InPlan, StepsType DEF Reconcile, ReconcileIf, RecordStep, TypeInv
    <3>2. dbSteps'[p] = dbSteps[p] \/ \E st : dbSteps'[p] = Append(dbSteps[p], st)
      <4>1. \/ dbSteps' = dbSteps
            \/ \E st : dbSteps' = [dbSteps EXCEPT ![call[c].plan] = Append(dbSteps[call[c].plan], st)]
        <5>1. CASE Reconcile(c)
          BY <5>1 DEF Reconcile, ReconcileIf
        <5>2. CASE RecordStep(c)
          BY <5>2 DEF RecordStep
        <5> QED BY <2>2, <5>1, <5>2
      <4> QED BY ZenonT(60), <3>1, <4>1 DEF TypeInv, TypeOK
    <3> QED BY <1>4, <3>1, <3>2
  <2> QED BY <1>2, <2>1, <2>2
<1> QED BY <1>3, <1>4 DEF Begun

LEMMA LateRowsStep ==
    TypeInv /\ BackupInv /\ [Next]_vars => LateRows'
<1> SUFFICES ASSUME TypeInv, BackupInv, [Next]_vars, NEW p \in Plans, status'[p] \in Late
             PROVE  Stored(p)'
  BY DEF LateRows, Stored
<1>1. \/ UNCHANGED status
      \/ \E c \in Callers : EnterApply(c) \/ Reconcile(c) \/ RecordStep(c)
  BY ZenonT(60) DEF Next, CallStep, vars, durable, SavePlan, HostApply, LoseJournalLine, ApplyCall,
     RestoreCall, RecoverCall, AcquireFile, CreateFile, WriteOwner, InspectLock, ClearLock,
     ReleaseLock, EnterRestore, EnterRecover, Resume, AppendJournal,
     AppendThrows, RecordThrows, Prepare, Capture, SaveManifest, SendCommit,
     LoseConnection, Verify, SendRestore, HostRestore, LateRestore, UserEdit, Crash
<1>2. status[p] \in Late => Stored(p)
  BY DEF BackupInv, LateRows
<1>3. ASSUME NEW c \in Callers, EnterApply(c) PROVE Stored(p)
  BY <1>2, <1>3 DEF EnterApply, CreateOr, TypeInv, TypeOK, Late
<1>4. ASSUME NEW c \in Callers, Reconcile(c) PROVE Stored(p)
  <2> DEFINE q == call[c].plan
             step == journal[q].steps[Len(dbSteps[q]) + 1]
  <2>1. q \in Plans
    BY <1>4, InPlan DEF Reconcile, ReconcileIf, TypeInv
  <2>2. journal[q].steps \in Seq(Status) /\ dbSteps[q] \in Seq(Status)
    BY <2>1, StepsType DEF TypeInv
  <2>3. CASE Len(dbSteps[q]) < Len(journal[q].steps) /\ status' = [status EXCEPT ![q] = step]
    <3>1. step \in Late => Stored(q)
      BY <2>1, <2>2, <2>3 DEF BackupInv, LateLines
    <3> QED BY <1>2, <2>1, <2>3, <3>1 DEF TypeInv, TypeOK
  <2>4. CASE UNCHANGED status \/ status' = [status EXCEPT ![q] = "manual-review"]
    BY <1>2, <2>1, <2>4 DEF TypeInv, TypeOK, Late
  <2> QED BY <1>4, <2>3, <2>4 DEF Reconcile, ReconcileIf
<1>5. ASSUME NEW c \in Callers, RecordStep(c) PROVE Stored(p)
  <2>1. call[c].plan \in Plans /\ call[c].phase = "db"
    BY <1>5, InPlan DEF RecordStep, In, TypeInv
  <2>2. status' = [status EXCEPT ![call[c].plan] = call[c].status]
    BY <1>5 DEF RecordStep
  <2>3. call[c].status \in Late => Stored(call[c].plan)
    BY <2>1 DEF BackupInv, LateCalls
  <2> QED BY <1>2, <2>1, <2>2, <2>3 DEF TypeInv, TypeOK
<1>6. Stored(p)
  BY <1>1, <1>2, <1>3, <1>4, <1>5
<1> QED BY <1>6, BegunStays

\* What a step does to the lines of a journal: a call that records writes one; the last may be lost.
Grew(p) ==
    \/ journal'[p].steps = journal[p].steps
    \/ /\ journal[p].steps # <<>> /\ UNCHANGED status
       /\ journal'[p].steps = SubSeq(journal[p].steps, 1, Len(journal[p].steps) - 1)
    \/ \E c \in Callers :
          /\ In(c, "journal") /\ call[c].plan = p
          /\ journal'[p].steps = Append(journal[p].steps, call[c].status)

LEMMA LineChange == ASSUME TypeInv, [Next]_vars, NEW p \in Plans PROVE Grew(p)
<1> USE DEF Grew
<1>1. CASE UNCHANGED journal
  BY <1>1
<1>2. ASSUME NEW c \in Callers, AppendJournal(c) PROVE Grew(p)
  <2>1. call[c].plan \in Plans
    BY <1>2, InPlan DEF AppendJournal, TypeInv
  <2> QED BY <1>2, <2>1 DEF AppendJournal, TypeInv, TypeOK, JournalStates
<1>3. ASSUME NEW c \in Callers, AppendThrows(c) PROVE Grew(p)
  <2>1. call[c].plan \in Plans
    BY <1>3, InPlan DEF AppendThrows, TypeInv
  <2>2. \/ UNCHANGED journal
        \/ journal' = [journal EXCEPT ![call[c].plan].tail = "torn"]
    BY <1>3 DEF AppendThrows
  <2>3. journal[call[c].plan] \in JournalStates /\ journal[p] \in JournalStates
    BY <2>1, StepsType DEF TypeInv
  <2>4. CASE call[c].plan = p
    BY <2>1, <2>2, <2>3, <2>4 DEF TypeInv, TypeOK, JournalStates
  <2>5. CASE call[c].plan # p
    BY <2>1, <2>2, <2>5 DEF TypeInv, TypeOK
  <2> QED BY <2>4, <2>5
<1>4. CASE Crash
  <2>1. ASSUME NEW c \in Callers, In(c, "journal"),
               NEW steps \in {journal[call[c].plan].steps,
                              Append(journal[call[c].plan].steps, call[c].status)},
               journal' = [journal EXCEPT ![call[c].plan] = [steps |-> steps, tail |-> "torn"]]
        PROVE Grew(p)
    <3>1. call[c].plan \in Plans
      BY <2>1, InPlan DEF TypeInv
    <3>2. CASE call[c].plan = p
      BY <2>1, <3>1, <3>2 DEF TypeInv, TypeOK
    <3>3. CASE call[c].plan # p
      BY <2>1, <3>1, <3>3 DEF TypeInv, TypeOK
    <3> QED BY <3>2, <3>3
  <2> QED BY <1>1, <1>4, <2>1 DEF Crash
<1>5. \/ UNCHANGED journal \/ Crash
      \/ \E q \in Plans : LoseJournalLine(q)
      \/ \E c \in Callers : AppendJournal(c) \/ AppendThrows(c)
  BY ZenonT(60) DEF Next, CallStep, vars, durable, SavePlan, HostApply, ApplyCall,
     RestoreCall, RecoverCall, AcquireFile, CreateFile, WriteOwner, InspectLock, ClearLock,
     ReleaseLock, EnterApply, CreateOr, EnterRestore, EnterRecover, Reconcile, ReconcileIf,
     Resume, RecordStep, RecordThrows, Prepare, Capture, SaveManifest, SendCommit,
     LoseConnection, Verify, SendRestore, HostRestore, LateRestore, UserEdit
<1>6. ASSUME NEW q \in Plans, LoseJournalLine(q) PROVE Grew(p)
  <2>1. journal \in [Plans -> JournalStates] /\ UNCHANGED status /\ journal[q].steps # <<>>
        /\ journal' = [journal EXCEPT ![q].steps = SubSeq(@, 1, Len(@) - 1)]
    BY <1>6 DEF LoseJournalLine, TypeInv, TypeOK
  <2>2. journal'[p] = IF q = p THEN [journal[p] EXCEPT !.steps = SubSeq(@, 1, Len(@) - 1)] ELSE journal[p]
    BY <2>1
  <2> QED BY <2>1, <2>2 DEF JournalStates
<1> QED BY <1>1, <1>2, <1>3, <1>4, <1>5, <1>6

LEMMA LateLinesStep ==
    TypeInv /\ BackupInv /\ [Next]_vars => LateLines'
<1> SUFFICES ASSUME TypeInv, BackupInv, [Next]_vars, NEW p \in Plans,
                    NEW i \in DOMAIN journal'[p].steps, journal'[p].steps[i] \in Late
             PROVE  Stored(p)'
  BY DEF LateLines, Stored
<1>1. \A j \in DOMAIN journal[p].steps : journal[p].steps[j] \in Late => Stored(p)
  BY DEF BackupInv, LateLines
<1>2. journal[p].steps \in Seq(Status)
  BY StepsType DEF TypeInv
<1>3. ASSUME NEW c \in Callers, In(c, "journal")
      PROVE  call[c].status \in Late => Stored(call[c].plan)
  BY <1>3 DEF BackupInv, LateCalls, In
<1>4. Grew(p)
  BY LineChange
<1>5. ASSUME journal'[p].steps = SubSeq(journal[p].steps, 1, Len(journal[p].steps) - 1) PROVE Stored(p)
  <2>1. i \in DOMAIN journal[p].steps /\ journal'[p].steps[i] = journal[p].steps[i]
    BY <1>2, <1>5
  <2> QED BY <1>1, <2>1
<1>6. ASSUME NEW c \in Callers, In(c, "journal"), call[c].plan = p,
             journal'[p].steps = Append(journal[p].steps, call[c].status)
      PROVE  Stored(p)
  <2>1. \/ i \in DOMAIN journal[p].steps /\ journal'[p].steps[i] = journal[p].steps[i]
        \/ journal'[p].steps[i] = call[c].status
    BY <1>2, <1>6
  <2> QED BY <1>1, <1>3, <1>6, <2>1
<1>7. Stored(p)
  BY <1>1, <1>4, <1>5, <1>6 DEF Grew
<1> QED BY <1>7, BegunStays

LEMMA RecoverHasRowStep ==
    TypeInv /\ BackupInv /\ [Next]_vars => RecoverHasRow'
<1> SUFFICES ASSUME TypeInv, BackupInv, [Next]_vars PROVE RecoverHasRow'
  OBVIOUS
<1> USE DEF TypeInv
<1>1. \A p \in Plans : status[p] # "none" => status'[p] # "none"
  <2>1. \/ UNCHANGED status
        \/ \E c \in Callers : EnterApply(c) \/ Reconcile(c) \/ RecordStep(c)
    BY ZenonT(60) DEF Next, CallStep, vars, durable, SavePlan, HostApply, LoseJournalLine, ApplyCall,
       RestoreCall, RecoverCall, AcquireFile, CreateFile, WriteOwner, InspectLock, ClearLock,
       ReleaseLock, EnterRestore, EnterRecover, Resume, AppendJournal,
       AppendThrows, RecordThrows, Prepare, Capture, SaveManifest, SendCommit,
       LoseConnection, Verify, SendRestore, HostRestore, LateRestore, UserEdit, Crash
  <2>2. ASSUME NEW c \in Callers, EnterApply(c), NEW p \in Plans, status[p] # "none"
        PROVE  status'[p] # "none"
    BY <2>2 DEF EnterApply, CreateOr, TypeOK
  <2>3. ASSUME NEW c \in Callers, Reconcile(c), NEW p \in Plans, status[p] # "none"
        PROVE  status'[p] # "none"
    <3> DEFINE q == call[c].plan
               step == journal[q].steps[Len(dbSteps[q]) + 1]
    <3>1. q \in Plans
      BY <2>3, InPlan DEF Reconcile, ReconcileIf
    <3>2. Len(dbSteps[q]) < Len(journal[q].steps) => step \in Status
      BY <3>1, StepsType
    <3>3. \/ UNCHANGED status
          \/ status' = [status EXCEPT ![q] = "manual-review"]
          \/ Len(dbSteps[q]) < Len(journal[q].steps) /\ status' = [status EXCEPT ![q] = step]
      BY <2>3 DEF Reconcile, ReconcileIf
    <3> QED BY <2>3, <3>1, <3>2, <3>3 DEF TypeOK, Status
  <2>4. ASSUME NEW c \in Callers, RecordStep(c), NEW p \in Plans, status[p] # "none"
        PROVE  status'[p] # "none"
    <3>1. call[c].status \in Status
      BY <2>4 DEF RecordStep, In, RecordsStatus
    <3> QED BY <2>4, <3>1 DEF RecordStep, TypeOK, Status
  <2> QED BY <2>1, <2>2, <2>3, <2>4
\* A call that goes on keeps its kind and its plan.
<1>2. ASSUME NEW d \in Callers, call'[d].kind = call[d].kind, call'[d].plan = call[d].plan,
             \/ call'[d].phase \notin {"resume", "reconcile"}
             \/ call'[d].phase = call[d].phase /\ call'[d].status = call[d].status
             \/ call'[d].phase = "reconcile" /\ call[d].kind = "recover"
             \/ call'[d].phase = "resume" /\ call'[d].status # "none"
      PROVE  /\ call'[d].kind = "recover" /\ call'[d].plan \in Plans
                    => status'[call'[d].plan] # "none"
             /\ call'[d].phase = "resume" => call'[d].status # "none"
             /\ call'[d].phase = "reconcile" => call'[d].kind = "recover"
  BY <1>1, <1>2 DEF BackupInv, RecoverHasRow
<1>3. ASSUME NEW d \in Callers, call'[d] = IdleCall
      PROVE  /\ call'[d].kind = "recover" /\ call'[d].plan \in Plans
                    => status'[call'[d].plan] # "none"
             /\ call'[d].phase = "resume" => call'[d].status # "none"
             /\ call'[d].phase = "reconcile" => call'[d].kind = "recover"
  BY <1>3 DEF IdleCall
<1>4. ASSUME UNCHANGED call PROVE RecoverHasRow'
  BY <1>2, <1>4 DEF RecoverHasRow
<1>5. ASSUME NEW c \in Callers, NEW phase, NEW st, call' = At(c, phase, st),
             \/ phase \notin {"resume", "reconcile"}
             \/ phase = "reconcile" /\ call[c].kind = "recover"
             \/ phase = "resume" /\ st # "none"
      PROVE  RecoverHasRow'
  BY <1>2, <1>5, Moved DEF RecoverHasRow
<1>6. ASSUME NEW c \in Callers, call' = [call EXCEPT ![c] = IdleCall] PROVE RecoverHasRow'
  <2>1. call'[c] = IdleCall /\ \A d \in Callers : d # c => call'[d] = call[d]
    BY <1>6, Idled
  <2> QED BY <1>2, <1>3, <2>1 DEF RecoverHasRow
<1>7. ASSUME NEW c \in Callers, NEW p \in Plans,
             ApplyCall(c, p) \/ RestoreCall(c, p) \/ RecoverCall(c, p)
      PROVE  RecoverHasRow'
  <2>1. /\ call'[c].plan = p /\ call'[c].phase = "wait"
        /\ call'[c].kind = "recover" => status[p] \in Interrupted
        /\ \A d \in Callers : d # c => call'[d] = call[d]
    BY <1>7 DEF TypeOK, ApplyCall, RestoreCall, RecoverCall, RecoveryScope, Begin
  <2> QED BY <1>1, <1>2, <2>1 DEF RecoverHasRow, Interrupted
<1>8. ASSUME NEW p \in Plans, HostApply(p) PROVE RecoverHasRow'
  <2>1. PICK st \in {"verifying", "restoring"} : Answer(p, st)
    BY <1>8 DEF HostApply
  <2>2. ASSUME NEW d \in Callers
        PROVE  \/ call'[d] = call[d]
               \/ /\ call'[d].phase = "journal" /\ call'[d].kind = call[d].kind
                  /\ call'[d].plan = call[d].plan
    BY <2>1 DEF TypeOK, Answer, CallStates
  <2> QED BY <1>2, <2>2 DEF RecoverHasRow
<1>9. ASSUME NEW c \in Callers, Reconcile(c) PROVE RecoverHasRow'
  <2>1. call[c].plan \in Plans /\ call[c].kind = "recover"
    BY <1>9, InPlan DEF Reconcile, ReconcileIf, In, BackupInv, RecoverHasRow
  <2>2. status[call[c].plan] # "none"
    BY <2>1 DEF BackupInv, RecoverHasRow
  <2> QED BY <1>4, <1>5, <1>9, <2>2 DEF Reconcile, ReconcileIf
<1>10. ASSUME NEW c \in Callers, CallStep(c) \/ HostRestore(c), ~Reconcile(c) PROVE RecoverHasRow'
  BY <1>4, <1>5, <1>6, <1>10
     DEF CallStep, WriteOwner, InspectLock, ClearLock, ReleaseLock, EnterApply, CreateOr,
         EnterRestore, EnterRecover, Resume, AppendJournal, AppendThrows, RecordStep,
         RecordThrows, AfterThrow, Prepare, Capture, SaveManifest, SendCommit, LoseConnection,
         Verify, SendRestore, HostRestore
<1>11. ASSUME NEW c \in Callers, AcquireFile(c) PROVE RecoverHasRow'
  BY <1>5, <1>6, <1>11 DEF AcquireFile, CreateFile
<1>12. CASE Crash
  BY <1>3, <1>12 DEF Crash, RecoverHasRow, IdleCall
<1> QED
  BY <1>4, <1>7, <1>8, <1>9, <1>10, <1>11, <1>12
     DEF Next, vars, SavePlan, LateRestore, LoseJournalLine, UserEdit

LEMMA LateCallsStep ==
    TypeInv /\ BackupInv /\ [Next]_vars => LateCalls'
<1> SUFFICES ASSUME TypeInv, BackupInv, [Next]_vars PROVE LateCalls'
  OBVIOUS
<1> USE DEF TypeInv
<1>1. \A p \in Plans : Stored(p) => Stored(p)'
  BY BegunStays
<1>2. ASSUME NEW d \in Callers, call'[d].plan \in Plans,
             \/ call'[d].phase \in {"journal", "db", "act", "resume"} /\ call'[d].status \in Late
             \/ call'[d].phase = "await",
             call'[d] = call[d]
      PROVE  backup'[call'[d].plan].phase = "saved"
  BY <1>1, <1>2 DEF BackupInv, LateCalls, Stored
<1>3. ASSUME UNCHANGED call PROVE LateCalls'
  BY <1>2, <1>3 DEF LateCalls, Stored
\* A step that moves c to a late status needs the manifest, the other calls have it.
<1>4. ASSUME NEW c \in Callers, NEW phase, NEW st, call' = At(c, phase, st),
             \/ ~(phase \in {"journal", "db", "act", "resume"} /\ st \in Late) /\ phase # "await"
             \/ Stored(call[c].plan)
             \/ Stored(call[c].plan)'
      PROVE  LateCalls'
  <2>1. /\ call'[c].phase = phase /\ call'[c].status = st /\ call'[c].plan = call[c].plan
        /\ \A d \in Callers : d # c => call'[d] = call[d]
    BY <1>4, Moved
  <2> QED BY <1>1, <1>2, <1>4, <2>1 DEF LateCalls, Stored
<1>5. ASSUME NEW c \in Callers, call' = [call EXCEPT ![c] = IdleCall] PROVE LateCalls'
  <2>1. call'[c] = IdleCall /\ \A d \in Callers : d # c => call'[d] = call[d]
    BY <1>5, Idled
  <2>2. call'[c].phase = "idle"
    BY <2>1 DEF IdleCall
  <2> QED BY <1>2, <2>1, <2>2 DEF LateCalls, Stored
<1>6. ASSUME NEW c \in Callers, NEW p \in Plans,
             ApplyCall(c, p) \/ RestoreCall(c, p) \/ RecoverCall(c, p)
      PROVE  LateCalls'
  <2>1. /\ call'[c].phase = "wait"
        /\ \A d \in Callers : d # c => call'[d] = call[d]
    BY <1>6 DEF TypeOK, ApplyCall, RestoreCall, RecoverCall, Begin
  <2> QED BY <1>2, <2>1 DEF LateCalls, Stored
<1>7. ASSUME NEW p \in Plans, HostApply(p) PROVE LateCalls'
  <2>1. PICK st \in {"verifying", "restoring"} : Answer(p, st)
    BY <1>7 DEF HostApply
  <2>2. ASSUME NEW d \in Callers
        PROVE  call'[d] = call[d] \/ (call'[d].plan = p /\ Stored(p))
    <3>1. Stored(p)
      BY <1>7 DEF HostApply, BackupInv, Requests, Begun
    <3> QED BY <2>1, <3>1 DEF TypeOK, Answer, CallStates
  <2> QED BY <1>1, <1>2, <2>2 DEF LateCalls, Stored
<1>8. ASSUME NEW c \in Callers, NEW phase, In(c, phase),
             (phase \in {"journal", "db", "act", "resume"} /\ call[c].status \in Late) \/ phase = "await"
      PROVE  Stored(call[c].plan)
  BY <1>8 DEF In, BackupInv, LateCalls
<1>9. ASSUME NEW c \in Callers,
             WriteOwner(c) \/ InspectLock(c) \/ ClearLock(c) \/ ReleaseLock(c) \/ EnterApply(c)
                 \/ EnterRecover(c) \/ AcquireFile(c)
      PROVE  LateCalls'
  BY <1>4, <1>5, <1>9
     DEF WriteOwner, InspectLock, ClearLock, ReleaseLock, EnterApply, CreateOr, EnterRecover,
         AcquireFile, CreateFile, Late
<1>10. ASSUME NEW c \in Callers, EnterRestore(c) PROVE LateCalls'
  <2>1. status[call[c].plan] = "completed" => Stored(call[c].plan)
    BY <1>10 DEF EnterRestore, In, BackupInv, LateRows, Late
  <2> QED BY <1>4, <1>10, <2>1 DEF EnterRestore, Late
<1>11. ASSUME NEW c \in Callers, Reconcile(c) PROVE LateCalls'
  <2>1. status[call[c].plan] \in Late => Stored(call[c].plan)
    BY <1>11 DEF Reconcile, ReconcileIf, In, BackupInv, LateRows
  <2>2. \/ UNCHANGED call
        \/ call' = At(c, "release", "none")
        \/ call' = At(c, "resume", status[call[c].plan])
    BY <1>11 DEF Reconcile, ReconcileIf
  <2> QED BY <1>3, <1>4, <2>1, <2>2 DEF Late
<1>12. ASSUME NEW c \in Callers, Resume(c) PROVE LateCalls'
  <2> DEFINE st == call[c].status
  <2>1. st \in Late => Stored(call[c].plan)
    BY <1>8, <1>12 DEF Resume
  <2>2. st \in Status
    BY <1>12 DEF Resume, In, BackupInv, RecoverHasRow, TypeOK, CallStates
  <2>3. st \in Late \/ st \in {"manual-review", "prepared", "backing-up"}
    BY <2>2 DEF Status, Late
  <2> QED BY <1>4, <1>12, <2>1, <2>3 DEF Resume, Late
<1>13. ASSUME NEW c \in Callers, AppendJournal(c) \/ RecordStep(c) PROVE LateCalls'
  BY <1>4, <1>8, <1>13 DEF AppendJournal, RecordStep, Late
<1>14. ASSUME NEW c \in Callers, AppendThrows(c) \/ RecordThrows(c) PROVE LateCalls'
  <2>1. call[c].status \in Late => Stored(call[c].plan)
    BY <1>8, <1>14 DEF AppendThrows, RecordThrows
  <2>2. call' = AfterThrow(c)
    BY <1>14 DEF AppendThrows, RecordThrows
  <2>3. CASE call[c].status \in Late
    BY <1>4, <2>1, <2>2, <2>3 DEF AfterThrow
  <2>4. CASE call[c].status \notin Late
    BY <1>4, <2>2, <2>4 DEF AfterThrow, Late
  <2> QED BY <2>3, <2>4
<1>15. ASSUME NEW c \in Callers, Prepare(c) \/ Capture(c) PROVE LateCalls'
  BY <1>3, <1>4, <1>15 DEF Prepare, Capture, Late
<1>16. ASSUME NEW c \in Callers, SaveManifest(c) PROVE LateCalls'
  <2>1. CASE call' = At(c, "journal", "applying") /\ backup' = [backup EXCEPT ![call[c].plan].phase = "saved"]
    <3>1. call[c].plan \in Plans
      BY <1>16, InPlan DEF SaveManifest
    <3>2. Stored(call[c].plan)'
      BY <2>1, <3>1, <1>16, Moved, SnapshotType DEF TypeOK, BackupStates, Stored
    <3> QED BY <1>4, <2>1, <3>2
  <2>2. CASE call' = At(c, "journal", "manual-review")
    BY <1>4, <2>2 DEF Late
  <2> QED BY <1>16, <2>1, <2>2 DEF SaveManifest
<1>17. ASSUME NEW c \in Callers,
              SendCommit(c) \/ LoseConnection(c) \/ Verify(c) \/ SendRestore(c) \/ HostRestore(c)
       PROVE  LateCalls'
  <2>1. Stored(call[c].plan)
    BY <1>8, <1>17 DEF SendCommit, LoseConnection, Verify, SendRestore, HostRestore, In, Late
  <2> QED BY <1>4, <1>17, <2>1 DEF SendCommit, LoseConnection, Verify, SendRestore, HostRestore
<1>18. CASE Crash
  BY <1>18 DEF Crash, LateCalls, IdleCall
<1> QED
  BY <1>3, <1>6, <1>7, <1>9, <1>10, <1>11, <1>12, <1>13, <1>14, <1>15, <1>16, <1>17, <1>18
     DEF Next, CallStep, vars, SavePlan, LateRestore, LoseJournalLine, UserEdit

\* A restore request is left with the host by the call that waits for it.
LEMMA RestoreLeft ==
    ASSUME TypeInv, [Next]_vars, NEW p \in Plans, restores'[p] > 0
    PROVE  restores[p] > 0 \/ \E c \in Callers : In(c, "await") /\ call[c].plan = p
<1> USE DEF TypeInv
<1>1. \/ UNCHANGED restores
      \/ Crash
      \/ \E q \in Plans : LateRestore(q)
      \/ \E c \in Callers : LoseConnection(c)
  BY ZenonT(60) DEF Next, CallStep, vars, durable, SavePlan, HostApply, LoseJournalLine, ApplyCall,
     RestoreCall, RecoverCall, AcquireFile, CreateFile, WriteOwner, InspectLock, ClearLock,
     ReleaseLock, EnterApply, CreateOr, EnterRestore, EnterRecover, Reconcile, ReconcileIf,
     Resume, AppendJournal, AppendThrows, RecordStep, RecordThrows, Prepare, Capture,
     SaveManifest, SendCommit, Verify, SendRestore, HostRestore, UserEdit
<1>2. ASSUME NEW c \in Callers, In(c, "await"),
             restores' \in {restores, [restores EXCEPT ![call[c].plan] = @ + 1]}
      PROVE  restores[p] > 0 \/ (In(c, "await") /\ call[c].plan = p)
  BY <1>2 DEF TypeOK, In
<1>3. CASE Crash
  BY <1>2, <1>3 DEF Crash, RestoresLeft
<1>4. ASSUME NEW q \in Plans, LateRestore(q) PROVE restores[p] > 0
  BY <1>4 DEF LateRestore, TypeOK
<1>5. ASSUME NEW c \in Callers, LoseConnection(c)
      PROVE  In(c, "await") /\ restores' \in {restores, [restores EXCEPT ![call[c].plan] = @ + 1]}
  BY <1>5 DEF LoseConnection
<1> QED BY <1>1, <1>2, <1>3, <1>4, <1>5

LEMMA RequestsStep ==
    TypeInv /\ BackupInv /\ [Next]_vars => Requests'
<1> SUFFICES ASSUME TypeInv, BackupInv, [Next]_vars PROVE Requests'
  OBVIOUS
<1> USE DEF TypeInv
<1>1. \A p \in Plans : Begun(p) => Begun(p)'
  BY BegunStays
<1>2. \A p \in pending' : Begun(p)'
  <2>1. \/ \A p \in pending' : p \in pending
        \/ \E c \in Callers : SendCommit(c) /\ pending' = pending \cup {call[c].plan}
    BY ZenonT(60) DEF Next, CallStep, vars, durable, SavePlan, HostApply, LoseJournalLine, ApplyCall,
       RestoreCall, RecoverCall, AcquireFile, CreateFile, WriteOwner, InspectLock, ClearLock,
       ReleaseLock, EnterApply, CreateOr, EnterRestore, EnterRecover, Reconcile, ReconcileIf,
       Resume, AppendJournal, AppendThrows, RecordStep, RecordThrows, Prepare, Capture,
       SaveManifest, SendCommit, LoseConnection, Verify, SendRestore, HostRestore, LateRestore, UserEdit, Crash
  <2>2. ASSUME NEW c \in Callers, SendCommit(c)
        PROVE  call[c].plan \in Plans /\ Begun(call[c].plan)
    BY <2>2 DEF SendCommit, In, BackupInv, Requests
  <2>3. ASSUME NEW p \in pending', p \in pending PROVE Begun(p)'
    BY <1>1, <2>3 DEF TypeOK, BackupInv, Requests
  <2>4. ASSUME NEW c \in Callers, SendCommit(c), pending' = pending \cup {call[c].plan},
               NEW p \in pending'
        PROVE  Begun(p)'
    BY <1>1, <2>2, <2>3, <2>4
  <2> QED BY <2>1, <2>3, <2>4
\* A call that waits for a restore has the manifest it restores from.
<1>12. ASSUME NEW p \in Plans, restores'[p] > 0 PROVE Stored(p)'
  <2>1. ASSUME NEW c \in Callers, In(c, "await"), call[c].plan = p PROVE Stored(p)
    BY <2>1 DEF In, BackupInv, LateCalls
  <2>2. Stored(p)
    BY <1>12, <2>1, RestoreLeft DEF BackupInv, Requests
  <2> QED BY <2>2, BegunStays
\* Only RecordStep brings a call to the commit, and it has just added the row.
<1> DEFINE Ready(d) == /\ backup'[call'[d].plan].phase = "saved"
                       /\ \E i \in DOMAIN dbSteps'[call'[d].plan] :
                            dbSteps'[call'[d].plan][i] = "applying"
           Commits(d) == /\ call'[d].plan \in Plans
                         /\ call'[d].phase = "act" /\ call'[d].status = "applying"
<1> SUFFICES ASSUME NEW d \in Callers, Commits(d) PROVE Ready(d)
  BY <1>2, <1>12 DEF Requests, Begun, Stored
<1>3. ASSUME call'[d] = call[d] PROVE Ready(d)
  BY <1>1, <1>3 DEF BackupInv, Requests, Begun, Stored
<1>4. ASSUME NEW c \in Callers, NEW phase, NEW st, call' = At(c, phase, st),
             phase # "act" \/ st # "applying"
      PROVE  Ready(d)
  BY <1>3, <1>4, Moved
<1>5. ASSUME NEW c \in Callers, call' = [call EXCEPT ![c] = IdleCall] PROVE Ready(d)
  <2>1. call'[c] = IdleCall /\ \A e \in Callers : e # c => call'[e] = call[e]
    BY <1>5, Idled
  <2>2. IdleCall.phase = "idle"
    BY DEF IdleCall
  <2> QED BY <1>3, <2>1, <2>2
<1>6. ASSUME NEW c \in Callers, NEW p \in Plans,
             ApplyCall(c, p) \/ RestoreCall(c, p) \/ RecoverCall(c, p)
      PROVE  Ready(d)
  <2>1. /\ call'[c].phase = "wait"
        /\ \A e \in Callers : e # c => call'[e] = call[e]
    BY <1>6 DEF TypeOK, ApplyCall, RestoreCall, RecoverCall, Begin
  <2> QED BY <1>3, <2>1
<1>7. ASSUME NEW p \in Plans, HostApply(p) PROVE Ready(d)
  <2>1. PICK st \in {"verifying", "restoring"} : Answer(p, st)
    BY <1>7 DEF HostApply
  <2>2. call'[d] = call[d] \/ call'[d].phase = "journal"
    BY <2>1 DEF TypeOK, Answer, CallStates
  <2> QED BY <1>3, <2>2
<1>8. ASSUME NEW c \in Callers, RecordStep(c) PROVE Ready(d)
  <2>1. CASE call[c].status # "applying"
    BY <1>4, <1>8, <2>1 DEF RecordStep
  <2>2. CASE call[c].status = "applying" /\ d = c
    <3>1. call[c].plan \in Plans /\ dbSteps[call[c].plan] \in Seq(Status)
      BY <1>8, InPlan, StepsType DEF RecordStep
    <3>2. call'[c].plan = call[c].plan
      BY <1>8, Moved DEF RecordStep
    <3>3. backup'[call[c].plan].phase = "saved"
      BY <1>8, <2>2 DEF RecordStep, In, BackupInv, LateCalls, Late, Stored
    <3>4. dbSteps'[call[c].plan] = Append(dbSteps[call[c].plan], "applying")
      BY <1>8, <2>2, <3>1 DEF RecordStep, TypeOK
    <3>5. dbSteps'[call[c].plan][Len(dbSteps[call[c].plan]) + 1] = "applying"
      BY <3>1, <3>4
    <3> QED BY <2>2, <3>1, <3>2, <3>3, <3>4, <3>5
  <2>3. CASE d # c
    BY <1>3, <1>8, <2>3, Moved DEF RecordStep
  <2> QED BY <2>1, <2>2, <2>3
<1>9. ASSUME NEW c \in Callers, CallStep(c) \/ HostRestore(c), ~RecordStep(c) PROVE Ready(d)
  <2>1. CASE \/ WriteOwner(c) \/ InspectLock(c) \/ ClearLock(c) \/ ReleaseLock(c)
             \/ EnterApply(c) \/ EnterRestore(c) \/ EnterRecover(c)
    BY <1>4, <1>5, <2>1 DEF WriteOwner, InspectLock, ClearLock, ReleaseLock, EnterApply,
       CreateOr, EnterRestore, EnterRecover
  <2>2. CASE Reconcile(c) \/ Resume(c) \/ AppendJournal(c)
    BY <1>3, <1>4, <2>2 DEF Reconcile, ReconcileIf, Resume, AppendJournal
  <2>3. CASE AppendThrows(c) \/ RecordThrows(c)
    BY <1>4, <2>3 DEF AppendThrows, RecordThrows, AfterThrow
  <2>4. CASE Prepare(c) \/ Capture(c) \/ SaveManifest(c) \/ SendCommit(c)
    BY <1>3, <1>4, <2>4 DEF Prepare, Capture, SaveManifest, SendCommit
  <2>5. CASE LoseConnection(c) \/ Verify(c) \/ SendRestore(c) \/ HostRestore(c)
    BY <1>4, <2>5 DEF LoseConnection, Verify, SendRestore, HostRestore
  <2> QED BY <1>9, <2>1, <2>2, <2>3, <2>4, <2>5 DEF CallStep
<1>10. ASSUME NEW c \in Callers, AcquireFile(c) PROVE Ready(d)
  BY <1>4, <1>5, <1>10 DEF AcquireFile, CreateFile
<1>11. CASE Crash
  BY <1>11 DEF Crash, IdleCall
<1> QED
  BY <1>3, <1>6, <1>7, <1>8, <1>9, <1>10, <1>11
     DEF Next, vars, SavePlan, LateRestore, LoseJournalLine, UserEdit

LEMMA OriginsStep ==
    TypeInv /\ BackupInv /\ [Next]_vars => Origins'
<1> SUFFICES ASSUME TypeInv, BackupInv, [Next]_vars, NEW p \in Plans
             PROVE  /\ Wrote(target', p) => Begun(p)'
                    /\ \A q \in Plans : Wrote(backup'[q].state, p) => Begun(p)'
  BY DEF Origins
<1> USE DEF TypeInv
<1>1. Begun(p) => Begun(p)'
  BY BegunStays
<1>2. /\ Wrote(target, p) => Begun(p)
      /\ \A q \in Plans : Wrote(backup[q].state, p) => Begun(p)
  BY DEF BackupInv, Origins
<1>3. Wrote(target', p) => Begun(p)
  <2>1. \/ UNCHANGED target
        \/ UserEdit
        \/ \E q \in Plans : HostApply(q) \/ LateRestore(q)
        \/ \E c \in Callers : HostRestore(c)
    BY ZenonT(60) DEF Next, CallStep, vars, durable, SavePlan, LoseJournalLine, ApplyCall,
       RestoreCall, RecoverCall, AcquireFile, CreateFile, WriteOwner, InspectLock, ClearLock,
       ReleaseLock, EnterApply, CreateOr, EnterRestore, EnterRecover, Reconcile, ReconcileIf,
       Resume, AppendJournal, AppendThrows, RecordStep, RecordThrows, Prepare, Capture,
       SaveManifest, SendCommit, LoseConnection, Verify, SendRestore, Crash
  <2>2. ASSUME NEW e, target' = Append(target, e), e \notin {Whole(p), Half(p)}, Wrote(target', p)
        PROVE  Wrote(target, p)
    <3>1. target \in Seq(Items)
      BY DEF TypeOK
    <3> QED BY <2>2, <3>1 DEF Wrote, Holds
  <2>3. CASE UserEdit
    <3>1. Whole(User) \notin {Whole(p), Half(p)}
      BY ConstantsAssumption DEF Whole, Half
    <3> QED BY <1>2, <2>2, <2>3, <3>1 DEF UserEdit
  <2>4. ASSUME NEW q \in Plans, HostApply(q), Wrote(target', p) PROVE Begun(p)
    <3>1. Begun(q)
      BY <2>4 DEF HostApply, BackupInv, Requests
    <3>2. CASE q = p
      BY <3>1, <3>2
    <3>3. CASE q # p
      <4>1. Whole(q) \notin {Whole(p), Half(p)} /\ Half(q) \notin {Whole(p), Half(p)}
        BY <3>3 DEF Whole, Half
      <4>2. target' \in {target, Append(target, Whole(q)), Append(target, Half(q))}
        BY <2>4 DEF HostApply
      <4> QED BY <1>2, <2>2, <2>4, <4>1, <4>2
    <3> QED BY <3>2, <3>3
  <2>5. ASSUME NEW c \in Callers, HostRestore(c), Wrote(target', p) PROVE Begun(p)
    <3>1. call[c].plan \in Plans
      BY <2>5, InPlan DEF HostRestore
    <3>2. target' \in {target, backup[call[c].plan].state}
      BY <2>5 DEF HostRestore
    <3> QED BY <1>2, <2>5, <3>1, <3>2
  <2>6. ASSUME NEW q \in Plans, LateRestore(q), Wrote(target', p) PROVE Begun(p)
    BY <1>2, <2>6 DEF LateRestore
  <2> QED BY <1>2, <2>1, <2>3, <2>4, <2>5, <2>6
<1>4. ASSUME NEW q \in Plans, Wrote(backup'[q].state, p) PROVE Begun(p)
  <2>1. \/ UNCHANGED backup
        \/ \E c \in Callers : Capture(c) \/ SaveManifest(c)
    BY ZenonT(60) DEF Next, CallStep, vars, durable, SavePlan, HostApply, LoseJournalLine, ApplyCall,
       RestoreCall, RecoverCall, AcquireFile, CreateFile, WriteOwner, InspectLock, ClearLock,
       ReleaseLock, EnterApply, CreateOr, EnterRestore, EnterRecover, Reconcile, ReconcileIf,
       Resume, AppendJournal, AppendThrows, RecordStep, RecordThrows, Prepare, SendCommit,
       LoseConnection, Verify, SendRestore, HostRestore, LateRestore, UserEdit, Crash
  <2>2. ASSUME NEW c \in Callers, Capture(c) \/ SaveManifest(c)
        PROVE  backup'[q].state \in {backup[q].state, target}
    <3>1. call[c].plan \in Plans /\ backup[call[c].plan] \in BackupStates
      BY <2>2, InPlan, SnapshotType DEF Capture, SaveManifest
    <3>2. \/ UNCHANGED backup
          \/ backup' = [backup EXCEPT ![call[c].plan] = [phase |-> "captured", state |-> target]]
          \/ backup' = [backup EXCEPT ![call[c].plan].phase = "saved"]
      BY <2>2 DEF Capture, SaveManifest
    <3>3. CASE UNCHANGED backup
      BY <3>3
    <3>4. CASE backup' = [backup EXCEPT ![call[c].plan] = [phase |-> "captured", state |-> target]]
      BY <3>1, <3>4, Z3 DEF TypeOK
    <3>5. CASE backup' = [backup EXCEPT ![call[c].plan].phase = "saved"]
      <4>1. backup[q] \in BackupStates /\ q \in DOMAIN backup
        BY SnapshotType DEF TypeOK
      <4> QED BY <3>1, <3>5, <4>1 DEF TypeOK, BackupStates
    <3> QED BY <3>2, <3>3, <3>4, <3>5
  <2> QED BY <1>2, <1>4, <2>1, <2>2
<1> QED BY <1>1, <1>3, <1>4

LEMMA BackupInit == Init => BackupInv
BY DEF Init, BackupInv, LateCalls, LateRows, LateLines, RecoverHasRow, Requests, Origins,
   IdleCall, Late, Wrote, Holds

\* No request and no byte of a transaction is on the platform before its manifest is
\* stored and "backup-completed" is in its rows, and every restore has a manifest.
THEOREM BackedUp == Spec => []BackupBeforeCommit
<1>1. TypeInv /\ BackupInv /\ [Next]_vars => BackupInv'
  BY LateCallsStep, LateRowsStep, LateLinesStep, RecoverHasRowStep, RequestsStep, OriginsStep
     DEF BackupInv
<1>2. TypeInv /\ BackupInv => BackupBeforeCommit
  BY DEF TypeInv, TypeOK, BackupInv, LateCalls, Requests, Origins, Wrote, Begun, Stored, In,
     Late, BackupBeforeCommit
<1>3. TypeInv /\ [Next]_vars => TypeInv'
  BY TypeStep, RecordsStep DEF TypeInv
<1> QED BY TypeInit, BackupInit, <1>1, <1>2, <1>3, PTL DEF Spec
(***************************************************************************)
(* The journal leads the database                                          *)
(***************************************************************************)
\* What a call stands on: rows that are a prefix of the journal, and, before it records a row, the line
\* it has just written.
StandsOn(d) ==
    /\ call[d].phase # "idle" => call[d].plan \in Plans
    /\ call[d].phase \in {"resume", "act", "await"} /\ Readable(call[d].plan)
          => IsPrefixOf(dbSteps[call[d].plan], journal[call[d].plan].steps)
    /\ call[d].phase = "db" /\ Readable(call[d].plan)
          => /\ Len(journal[call[d].plan].steps) > 0
             /\ journal[call[d].plan].steps[Len(journal[call[d].plan].steps)] = call[d].status

LinesInv == \A d \in Callers : StandsOn(d)

\* Two calls are never inside the critical section together.
LEMMA Alone ==
    ASSUME MutualExclusion, NEW c \in Callers, NEW d \in Callers, call[c].phase \notin Outside, d # c
    PROVE  call[d].phase \in Outside
BY DEF MutualExclusion

LEMMA LinesStep ==
    TypeInv /\ MutualExclusion /\ LinesInv /\ [Next]_vars => LinesInv'
<1> SUFFICES ASSUME TypeInv, MutualExclusion, LinesInv, [Next]_vars, NEW d \in Callers
             PROVE  StandsOn(d)'
  BY DEF LinesInv
<1> USE DEF TypeInv
<1>0. StandsOn(d)
  BY DEF LinesInv
<1>1. ASSUME call'[d] = call[d], \/ UNCHANGED <<journal, dbSteps>>
                                 \/ call[d].phase \in Outside
      PROVE  StandsOn(d)'
  BY <1>0, <1>1 DEF StandsOn, Readable, Outside
\* A call that moves without touching journal and rows.
<1>2. ASSUME NEW c \in Callers, NEW phase, NEW st, call' = At(c, phase, st), UNCHANGED <<journal, dbSteps>>,
             call[c].phase # "idle",
             \/ phase \notin {"resume", "act", "await", "db"}
             \/ phase \in {"act", "await"} /\ call[c].phase \in {"resume", "act", "await"}
      PROVE  StandsOn(d)'
  <2>1. CASE d = c
    <3>1. call'[d].phase = phase /\ call'[d].plan = call[d].plan
      BY <1>2, <2>1, Moved
    <3> QED BY <1>0, <1>2, <2>1, <3>1 DEF StandsOn, Readable
  <2>2. CASE d # c
    BY <1>1, <1>2, <2>2, Moved
  <2> QED BY <2>1, <2>2
<1>3. ASSUME NEW c \in Callers, call' = [call EXCEPT ![c] = IdleCall], UNCHANGED <<journal, dbSteps>>
      PROVE  StandsOn(d)'
  <2>1. call'[c] = IdleCall /\ \A e \in Callers : e # c => call'[e] = call[e]
    BY <1>3, Idled
  <2>2. CASE d = c
    BY <2>1, <2>2 DEF StandsOn, IdleCall
  <2> QED BY <1>1, <1>3, <2>1, <2>2
<1>4. ASSUME NEW c \in Callers, NEW p \in Plans, ApplyCall(c, p) \/ RestoreCall(c, p) \/ RecoverCall(c, p)
      PROVE  StandsOn(d)'
  <2>1. /\ call'[c].phase = "wait" /\ call'[c].plan = p
        /\ \A e \in Callers : e # c => call'[e] = call[e]
        /\ UNCHANGED <<journal, dbSteps>>
    BY <1>4 DEF TypeOK, ApplyCall, RestoreCall, RecoverCall, Begin, durable
  <2>2. CASE d = c
    BY <2>1, <2>2 DEF StandsOn
  <2> QED BY <1>1, <2>1, <2>2
<1>5. ASSUME NEW p \in Plans, SavePlan(p) \/ HostApply(p) \/ LateRestore(p) \/ LoseJournalLine(p) PROVE StandsOn(d)'
  <2>1. CASE SavePlan(p) \/ LateRestore(p)
    BY <1>1, <2>1 DEF SavePlan, LateRestore, durable
  <2>2. CASE HostApply(p)
    <3>1. PICK st \in {"verifying", "restoring"} : Answer(p, st)
      BY <2>2 DEF HostApply
    <3>2. /\ UNCHANGED <<journal, dbSteps>>
          /\ \/ call'[d] = call[d]
             \/ call'[d].phase = "journal" /\ call'[d].plan = call[d].plan /\ call[d].phase = "await"
      BY <2>2, <3>1 DEF TypeOK, Answer, CallStates, HostApply, durable
    <3> QED BY <1>0, <1>1, <3>2 DEF StandsOn
  <2>3. CASE LoseJournalLine(p)
    <3>1. call'[d] = call[d] /\ call[d].phase = "idle"
      BY <2>3 DEF LoseJournalLine, IdleCall
    <3> QED BY <1>1, <3>1 DEF Outside
  <2> QED BY <1>5, <2>1, <2>2, <2>3
<1>6. ASSUME NEW c \in Callers, AcquireFile(c) PROVE StandsOn(d)'
  BY <1>2, <1>3, <1>6 DEF AcquireFile, CreateFile, durable
<1>7. ASSUME NEW c \in Callers,
             \/ WriteOwner(c) \/ InspectLock(c) \/ ClearLock(c) \/ ReleaseLock(c)
             \/ EnterApply(c) \/ EnterRestore(c) \/ EnterRecover(c)
      PROVE  StandsOn(d)'
  <2>1. call[c].phase # "idle" /\ UNCHANGED <<journal, dbSteps>>
    BY <1>7 DEF WriteOwner, InspectLock, ClearLock, ReleaseLock, EnterApply, CreateOr, EnterRestore,
       EnterRecover, In, durable
  <2> QED BY <1>2, <1>3, <1>7, <2>1
          DEF WriteOwner, InspectLock, ClearLock, ReleaseLock, EnterApply, CreateOr, EnterRestore, EnterRecover
<1>8. ASSUME NEW c \in Callers, Reconcile(c) PROVE StandsOn(d)'
  <2>1. /\ call[c].phase = "reconcile" /\ call[c].plan \in Plans /\ journal' = journal
    BY <1>8 DEF Reconcile, ReconcileIf, In
  <2>2. CASE d # c
    <3>1. call[d].phase \in Outside
      BY <2>1, <2>2, Alone DEF Outside
    <3>2. call'[d] = call[d]
      <4>1. call' = call \/ \E phase, st : call' = At(c, phase, st)
        BY <1>8 DEF Reconcile, ReconcileIf
      <4> QED BY <2>2, <4>1, Moved
    <3> QED BY <1>1, <3>1, <3>2
  <2>3. CASE d = c
    <3>1. \/ call'[d] = call[d]
          \/ call'[d].phase = "release" /\ call'[d].plan = call[d].plan
          \/ /\ call'[d].phase = "resume" /\ call'[d].plan = call[d].plan
             /\ Agree(call[d].plan) /\ dbSteps' = dbSteps
      <4>1. \/ call' = call
            \/ call' = At(c, "release", "none")
            \/ /\ call' = At(c, "resume", status[call[c].plan])
               /\ Agree(call[c].plan) /\ dbSteps' = dbSteps
        BY <1>8 DEF Reconcile, ReconcileIf
      <4> QED BY <2>3, <4>1, Moved
    <3> QED BY <2>1, <2>3, <3>1 DEF StandsOn, Agree, Readable
  <2> QED BY <2>2, <2>3
<1>9. ASSUME NEW c \in Callers, Resume(c) PROVE StandsOn(d)'
  BY <1>2, <1>9 DEF Resume, In, durable
<1>10. ASSUME NEW c \in Callers, AppendJournal(c) PROVE StandsOn(d)'
  <2> DEFINE p == call[c].plan
  <2>1. call[c].phase = "journal" /\ p \in Plans /\ dbSteps' = dbSteps
    BY <1>10 DEF AppendJournal, In
  <2>2. CASE d # c
    <3>1. call[d].phase \in Outside
      BY <2>1, <2>2, Alone DEF Outside
    <3>2. call'[d] = call[d]
      BY <1>10, <2>2, Moved DEF AppendJournal
    <3> QED BY <1>1, <3>1, <3>2
  <2>3. CASE d = c
    <3>1. call'[d].phase = "db" /\ call'[d].plan = p /\ call'[d].status = call[c].status
      BY <1>10, <2>3, Moved DEF AppendJournal
    <3>2. journal[p].steps \in Seq(Status) /\ journal[p] \in JournalStates
      BY <2>1, StepsType
    <3>3. \/ journal'[p].steps = Append(journal[p].steps, call[c].status)
          \/ journal'[p].tail = "corrupt"
      BY <1>10, <2>1, <3>2 DEF AppendJournal, TypeOK, JournalStates
    <3>4. /\ Len(Append(journal[p].steps, call[c].status)) > 0
          /\ Append(journal[p].steps, call[c].status)[Len(Append(journal[p].steps, call[c].status))] = call[c].status
      <4>1. call[c].status \in Status
        BY <2>1 DEF RecordsStatus
      <4>2. \A steps \in Seq(Status), st \in Status : /\ Len(Append(steps, st)) > 0
                                                     /\ Append(steps, st)[Len(Append(steps, st))] = st
        OBVIOUS
      <4> QED BY <3>2, <4>1, <4>2
    <3> QED BY <2>1, <3>1, <3>3, <3>4 DEF StandsOn, Readable
  <2> QED BY <2>2, <2>3
<1>11. ASSUME NEW c \in Callers, AppendThrows(c) \/ RecordThrows(c) PROVE StandsOn(d)'
  <2>1. call[c].phase \in {"journal", "db"} /\ call[c].plan \in Plans /\ dbSteps' = dbSteps /\ call' = AfterThrow(c)
    BY <1>11 DEF AppendThrows, RecordThrows, In, durable
  <2>2. /\ call'[c].phase \in {"journal", "release"} /\ call'[c].plan = call[c].plan
        /\ \A e \in Callers : e # c => call'[e] = call[e]
    BY <2>1, Moved DEF AfterThrow
  <2>3. CASE d # c
    <3>1. call[d].phase \in Outside
      BY <2>1, <2>3, Alone DEF Outside
    <3> QED BY <1>1, <2>2, <2>3, <3>1
  <2>4. CASE d = c
    BY <2>1, <2>2, <2>4 DEF StandsOn
  <2> QED BY <2>3, <2>4
<1>12. ASSUME NEW c \in Callers, RecordStep(c) PROVE StandsOn(d)'
  <2> DEFINE p == call[c].plan
  <2>1. call[c].phase = "db" /\ p \in Plans /\ journal' = journal /\ Continues(p)
    BY <1>12 DEF RecordStep, In
  <2>2. CASE d # c
    <3>1. call[d].phase \in Outside
      BY <2>1, <2>2, Alone DEF Outside
    <3>2. call'[d] = call[d]
      BY <1>12, <2>2, Moved DEF RecordStep
    <3> QED BY <1>1, <3>1, <3>2
  <2>3. CASE d = c
    <3>1. call'[d].phase \in {"release", "act"} /\ call'[d].plan = p
      BY <1>12, <2>3, Moved DEF RecordStep
    <3>2. journal[p].steps \in Seq(Status) /\ dbSteps[p] \in Seq(Status)
      BY <2>1, StepsType
    <3>3. dbSteps'[p] = Append(dbSteps[p], call[c].status)
      BY <1>12, <2>1 DEF RecordStep, TypeOK
    <3>4. Readable(p) => IsPrefixOf(dbSteps'[p], journal[p].steps)
      <4> SUFFICES ASSUME Readable(p) PROVE IsPrefixOf(dbSteps'[p], journal[p].steps)
        OBVIOUS
      <4>1. /\ Len(journal[p].steps) = Len(dbSteps[p]) + 1 /\ IsPrefixOf(dbSteps[p], journal[p].steps)
        BY <2>1 DEF Continues
      <4>2. journal[p].steps[Len(journal[p].steps)] = call[c].status
        BY <1>0, <2>1, <2>3 DEF StandsOn
      <4>3. /\ Len(dbSteps'[p]) = Len(dbSteps[p]) + 1 /\ Len(dbSteps[p]) \in Nat
            /\ dbSteps'[p][Len(dbSteps[p]) + 1] = call[c].status
            /\ \A i \in 1..Len(dbSteps[p]) : dbSteps'[p][i] = dbSteps[p][i]
        BY <3>2, <3>3
      <4> HIDE DEF p
      <4> QED BY <4>1, <4>2, <4>3 DEF IsPrefixOf
    <3> QED BY <2>1, <2>3, <3>1, <3>4 DEF StandsOn, Readable
  <2> QED BY <2>2, <2>3
<1>13. ASSUME NEW c \in Callers,
              \/ Prepare(c) \/ Capture(c) \/ SaveManifest(c) \/ SendCommit(c)
              \/ LoseConnection(c) \/ Verify(c) \/ SendRestore(c) \/ HostRestore(c)
       PROVE  StandsOn(d)'
  <2>1. call[c].phase \in {"act", "await"} /\ UNCHANGED <<journal, dbSteps>>
    BY <1>13 DEF Prepare, Capture, SaveManifest, SendCommit, LoseConnection, Verify, SendRestore, HostRestore, In, durable
  <2> QED BY <1>1, <1>2, <1>13, <2>1
          DEF Prepare, Capture, SaveManifest, SendCommit, LoseConnection, Verify, SendRestore, HostRestore
<1>14. CASE Crash
  BY <1>14 DEF Crash, StandsOn, IdleCall
<1>15. CASE UserEdit \/ UNCHANGED vars
  BY <1>1, <1>15 DEF UserEdit, vars, durable
<1> QED
  BY <1>4, <1>5, <1>6, <1>7, <1>8, <1>9, <1>10, <1>11, <1>12, <1>13, <1>14, <1>15 DEF Next, CallStep

\* Whatever a crash, an I/O error or a damaged file did to the journal and the rows, a call acts on the
\* platform only from rows that are a prefix of the journal (recordTransition, reconcileJournal).
THEOREM JournalLeads == Spec => []JournalLeadsDatabase
<1>1. Init => LinesInv
  BY DEF Init, LinesInv, StandsOn, IdleCall
<1>2. LinesInv => JournalLeadsDatabase
  BY DEF LinesInv, StandsOn, JournalLeadsDatabase
<1>3. TypeInv /\ [Next]_vars => TypeInv'
  BY TypeStep, RecordsStep DEF TypeInv
<1> QED BY TypeInit, Exclusive, LinesStep, <1>1, <1>2, <1>3, PTL DEF Spec
(***************************************************************************)
(* What a transaction writes, and what its success says of it              *)
(***************************************************************************)
Early == {"prepared", "backing-up", "applying"}
Item(p) == {Whole(p), Half(p)}
\* A transaction whose only request is over, and has left no half write to come back.
Settled(p) == p \notin pending /\ \A content \in Contents : ~Holds(content, Half(p))
\* Nothing of the plan is on the platform or in a snapshot, nor on its way.
Clean(p) == \A content \in Contents : ~Wrote(content, p)
Unsent(p) == p \notin pending /\ Clean(p)
Unreported(p) == status[p] # "completed" /\ \A i \in DOMAIN journal[p].steps : journal[p].steps[i] # "completed"

\* A request that is on its way is the only one its plan ever sends.
SentOnce == \A p \in pending : Clean(p)
\* A plan has one item in a content, and the same in all: the host executed one request.
Single(content, p) ==
    \A i, j \in DOMAIN content : content[i] \in Item(p) /\ content[j] \in Item(p) => i = j
Marks ==
    \A p \in Plans :
        /\ \A content \in Contents : Single(content, p)
        /\ \A a, b \in Contents : ~(Holds(a, Whole(p)) /\ Holds(b, Half(p)))
\* Success, in a row, in a line or about to be written, is about a settled transaction.
SettledRows == \A p \in Plans : ~Unreported(p) => Settled(p)
SettledCall(c) ==
    call[c].plan \in Plans /\ call[c].phase \in {"journal", "db"} /\ call[c].status = "completed"
        => Settled(call[c].plan)
SettledCalls == \A c \in Callers : SettledCall(c)
\* A call that has yet to send its request is the first of its plan.
EarlyCall(c) ==
    call[c].plan \in Plans /\ call[c].phase \in {"journal", "db", "act"} /\ call[c].status \in Early
        => Unsent(call[c].plan) /\ Unreported(call[c].plan)
EarlyCalls == \A c \in Callers : EarlyCall(c)
\* Rows and lines begin with the row of the transaction.
HasRow(c) ==
    call[c].plan \in Plans /\ call[c].phase \in {"reconcile", "resume", "journal", "db", "act", "await"}
        => status[call[c].plan] # "none"
RowsBegin ==
    /\ \A p \in Plans : status[p] = "none" => dbSteps[p] = <<>> /\ journal[p].steps = <<>>
    /\ \A c \in Callers : HasRow(c)

WriteInv == SentOnce /\ Marks /\ SettledRows /\ SettledCalls /\ EarlyCalls /\ RowsBegin
-----------------------------------------------------------------------------
(* What a step does to a row, to the target and to a snapshot.             *)

LEMMA RowChange ==
    ASSUME TypeInv, [Next]_vars, NEW p \in Plans
    PROVE  \/ status'[p] = status[p]
           \/ status'[p] = "prepared"
           \/ \E c \in Callers :
                 /\ In(c, "reconcile") /\ call[c].plan = p
                 /\ status'[p] = "manual-review" \/ \E i \in DOMAIN journal[p].steps : status'[p] = journal[p].steps[i]
           \/ \E c \in Callers : In(c, "db") /\ call[c].plan = p /\ status'[p] = call[c].status
<1> USE DEF TypeInv
<1>1. \/ UNCHANGED status
      \/ \E c \in Callers : EnterApply(c) \/ Reconcile(c) \/ RecordStep(c)
  BY ZenonT(60) DEF Next, CallStep, vars, durable, SavePlan, HostApply, LoseJournalLine, ApplyCall, RestoreCall, RecoverCall,
     AcquireFile, CreateFile, WriteOwner, InspectLock, ClearLock, ReleaseLock, EnterRestore,
     EnterRecover, Resume, AppendJournal, AppendThrows, RecordThrows, Prepare, Capture,
     SaveManifest, SendCommit, LoseConnection, Verify, SendRestore, HostRestore, LateRestore, UserEdit, Crash
<1>2. ASSUME NEW c \in Callers, EnterApply(c) PROVE status'[p] \in {status[p], "prepared"}
  BY <1>2 DEF EnterApply, CreateOr, TypeOK
<1>3. ASSUME NEW c \in Callers, Reconcile(c), status'[p] # status[p]
      PROVE  /\ In(c, "reconcile") /\ call[c].plan = p
             /\ status'[p] = "manual-review" \/ \E i \in DOMAIN journal[p].steps : status'[p] = journal[p].steps[i]
  <2> DEFINE q == call[c].plan
             step == journal[q].steps[Len(dbSteps[q]) + 1]
  <2>1. In(c, "reconcile") /\ q \in Plans /\ journal[q].steps \in Seq(Status) /\ dbSteps[q] \in Seq(Status)
    BY <1>3, InPlan, StepsType DEF Reconcile, ReconcileIf
  <2>2. \/ status' = status \/ status' = [status EXCEPT ![q] = "manual-review"]
        \/ Len(dbSteps[q]) < Len(journal[q].steps) /\ status' = [status EXCEPT ![q] = step]
    BY <1>3 DEF Reconcile, ReconcileIf
  <2>3. Len(dbSteps[q]) < Len(journal[q].steps) => Len(dbSteps[q]) + 1 \in DOMAIN journal[q].steps
    BY <2>1
  <2> QED BY <1>3, <2>1, <2>2, <2>3 DEF TypeOK
<1>4. ASSUME NEW c \in Callers, RecordStep(c), status'[p] # status[p]
      PROVE  In(c, "db") /\ call[c].plan = p /\ status'[p] = call[c].status
  BY <1>4 DEF RecordStep, In, TypeOK
<1> QED BY <1>1, <1>2, <1>3, <1>4

LEMMA TargetChange ==
    ASSUME TypeInv, [Next]_vars
    PROVE  \/ target' = target
           \/ target' = Append(target, Whole(User))
           \/ \E q \in Plans : /\ q \in pending /\ pending' = pending \ {q}
                               /\ target' = Append(target, Whole(q)) \/ target' = Append(target, Half(q))
           \/ \E q \in Plans : target' = backup[q].state
<1>1. \/ UNCHANGED target
      \/ UserEdit
      \/ \E q \in Plans : HostApply(q) \/ LateRestore(q)
      \/ \E c \in Callers : HostRestore(c)
  BY ZenonT(60) DEF Next, CallStep, vars, durable, SavePlan, LoseJournalLine, ApplyCall, RestoreCall, RecoverCall,
     AcquireFile, CreateFile, WriteOwner, InspectLock, ClearLock, ReleaseLock, EnterApply,
     CreateOr, EnterRestore, EnterRecover, Reconcile, ReconcileIf, Resume, AppendJournal,
     AppendThrows, RecordStep, RecordThrows, Prepare, Capture, SaveManifest, SendCommit,
     LoseConnection, Verify, SendRestore, Crash
<1>2. ASSUME NEW c \in Callers, HostRestore(c)
      PROVE  call[c].plan \in Plans /\ target' \in {target, backup[call[c].plan].state}
  BY <1>2 DEF HostRestore, In
<1>3. ASSUME NEW q \in Plans, HostApply(q), target' # target
      PROVE  /\ q \in pending /\ pending' = pending \ {q}
             /\ target' = Append(target, Whole(q)) \/ target' = Append(target, Half(q))
  BY <1>3 DEF HostApply
<1>4. ASSUME NEW q \in Plans, LateRestore(q) PROVE target' \in {target, backup[q].state}
  BY <1>4 DEF LateRestore
<1> QED BY <1>1, <1>2, <1>3, <1>4 DEF UserEdit

LEMMA SnapshotChange ==
    ASSUME TypeInv, [Next]_vars, NEW q \in Plans
    PROVE  \/ backup'[q].state = backup[q].state
           \/ \E c \in Callers : /\ In(c, "act") /\ call[c].status = "backing-up" /\ call[c].plan = q
                                 /\ backup'[q].state = target /\ target' = target
<1> USE DEF TypeInv
<1>1. \/ UNCHANGED backup
      \/ \E c \in Callers : Capture(c) \/ SaveManifest(c)
  BY ZenonT(60) DEF Next, CallStep, vars, durable, SavePlan, HostApply, LoseJournalLine, ApplyCall, RestoreCall, RecoverCall,
     AcquireFile, CreateFile, WriteOwner, InspectLock, ClearLock, ReleaseLock, EnterApply,
     CreateOr, EnterRestore, EnterRecover, Reconcile, ReconcileIf, Resume, AppendJournal,
     AppendThrows, RecordStep, RecordThrows, Prepare, SendCommit, LoseConnection, Verify,
     SendRestore, HostRestore, LateRestore, UserEdit, Crash
<1>2. ASSUME NEW c \in Callers, Capture(c), backup'[q].state # backup[q].state
      PROVE  /\ In(c, "act") /\ call[c].status = "backing-up" /\ call[c].plan = q
             /\ backup'[q].state = target /\ target' = target
  <2>1. /\ In(c, "act") /\ call[c].status = "backing-up" /\ call[c].plan \in Plans
        /\ \/ backup' = backup
           \/ backup' = [backup EXCEPT ![call[c].plan] = [phase |-> "captured", state |-> target]]
        /\ target' = target
    BY <1>2, InPlan DEF Capture
  <2>2. backup \in [Plans -> BackupStates]
    BY DEF TypeOK
  <2>3. call[c].plan = q /\ backup'[q] = [phase |-> "captured", state |-> target]
    BY <1>2, <2>1, <2>2
  <2> QED BY <2>1, <2>3
<1>3. ASSUME NEW c \in Callers, SaveManifest(c) PROVE backup'[q].state = backup[q].state
  <2>1. backup[q] \in BackupStates /\ call[c].plan \in Plans
    BY <1>3, SnapshotType, InPlan DEF SaveManifest
  <2>2. backup' = backup \/ backup' = [backup EXCEPT ![call[c].plan].phase = "saved"]
    BY <1>3 DEF SaveManifest
  <2>3. backup'[q] = backup[q] \/ backup'[q] = [backup[q] EXCEPT !.phase = "saved"]
    BY <2>1, <2>2 DEF TypeOK
  <2> QED BY <2>1, <2>3 DEF BackupStates
<1> QED BY <1>1, <1>2, <1>3

LEMMA PendingChange ==
    ASSUME [Next]_vars
    PROVE  \/ \A p \in pending' : p \in pending
           \/ \E c \in Callers : SendCommit(c) /\ pending' = pending \cup {call[c].plan}
BY ZenonT(60) DEF Next, CallStep, vars, durable, SavePlan, HostApply, LoseJournalLine, ApplyCall, RestoreCall, RecoverCall,
     AcquireFile, CreateFile, WriteOwner, InspectLock, ClearLock, ReleaseLock, EnterApply,
     CreateOr, EnterRestore, EnterRecover, Reconcile, ReconcileIf, Resume, AppendJournal,
     AppendThrows, RecordStep, RecordThrows, Prepare, Capture, SaveManifest, SendCommit,
     LoseConnection, Verify, SendRestore, HostRestore, LateRestore, UserEdit, Crash

\* What the target holds of a plan after a write.
LEMMA HoldsAppend ==
    ASSUME NEW content \in Seq(Items), NEW item, NEW e
    PROVE  Holds(Append(content, e), item) => Holds(content, item) \/ e = item
BY DEF Holds

LEMMA AppendedIsHeld ==
    ASSUME NEW content \in Seq(Items), NEW e
    PROVE  Holds(Append(content, e), e)
<1>1. Len(content) \in Nat /\ DOMAIN Append(content, e) = 1..(Len(content) + 1)
  OBVIOUS
<1>2. Append(content, e)[Len(content) + 1] = e
  OBVIOUS
<1>3. Len(content) + 1 \in DOMAIN Append(content, e)
  BY <1>1
<1> QED BY <1>2, <1>3 DEF Holds

\* A content is an earlier one, or the target with one more item at its end.
LEMMA ContentChange ==
    ASSUME TypeInv, [Next]_vars, NEW content \in Contents'
    PROVE  \/ content \in Contents
           \/ /\ content = target'
              /\ \/ content = Append(target, Whole(User))
                 \/ \E q \in Plans : /\ q \in pending /\ pending' = pending \ {q}
                                     /\ content = Append(target, Whole(q)) \/ content = Append(target, Half(q))
<1>1. CASE content = target'
  BY <1>1, TargetChange DEF Contents
<1>2. ASSUME NEW q \in Plans, content = backup'[q].state PROVE content \in Contents
  BY <1>2, SnapshotChange DEF Contents
<1> QED BY <1>1, <1>2 DEF Contents

\* What is new in a content is not of p, unless its request was on its way.
LEMMA ItemChange ==
    ASSUME TypeInv, [Next]_vars, NEW p \in Plans, p \notin pending \/ p \in pending', NEW content \in Contents'
    PROVE  \/ content \in Contents
           \/ \E e : content = Append(target, e) /\ e \notin Item(p)
<1>1. Whole(User) \notin Item(p)
  BY ConstantsAssumption DEF Item, Whole, Half
<1>2. \A q \in Plans : q # p => Whole(q) \notin Item(p) /\ Half(q) \notin Item(p)
  BY DEF Item, Whole, Half
<1>3. \A q \in Plans : q \in pending /\ pending' = pending \ {q} => q # p
  OBVIOUS
<1> QED BY <1>1, <1>2, <1>3, ContentChange

LEMMA CleanStays ==
    ASSUME TypeInv, [Next]_vars, NEW p \in Plans, Clean(p), p \notin pending \/ p \in pending'
    PROVE  Clean(p)'
<1> SUFFICES ASSUME NEW content \in Contents' PROVE ~Wrote(content, p)
  BY DEF Clean, Wrote, Holds, Whole, Half
<1>1. target \in Seq(Items) /\ target \in Contents
  BY DEF TypeInv, TypeOK, Contents
<1>2. CASE content \in Contents
  BY <1>2 DEF Clean
<1>3. ASSUME NEW e, content = Append(target, e), e \notin Item(p) PROVE ~Wrote(content, p)
  BY <1>1, <1>3, HoldsAppend DEF Clean, Wrote, Item
<1> QED BY <1>2, <1>3, ItemChange

LEMMA SettledStays ==
    ASSUME TypeInv, [Next]_vars, NEW p \in Plans, Settled(p),
           \A c \in Callers : ~(SendCommit(c) /\ call[c].plan = p)
    PROVE  Settled(p)'
<1>1. p \notin pending'
  BY PendingChange DEF Settled
<1>2. ASSUME NEW content \in Contents' PROVE ~Holds(content, Half(p))
  <2>1. target \in Seq(Items) /\ target \in Contents
    BY DEF TypeInv, TypeOK, Contents
  <2>2. CASE content \in Contents
    BY <2>2 DEF Settled
  <2>3. ASSUME NEW e, content = Append(target, e), e \notin Item(p) PROVE ~Holds(content, Half(p))
    BY <2>1, <2>3, HoldsAppend DEF Settled, Item
  <2> QED BY <2>2, <2>3, ItemChange DEF Settled
<1> QED BY <1>1, <1>2 DEF Settled, Holds, Half
-----------------------------------------------------------------------------
(* The steps of the invariant of the writes.                               *)

\* The invariants what is written rests on.
Ground == TypeInv /\ MutualExclusion /\ BackupInv /\ WriteInv

LEMMA GroundParts ==
    Ground => /\ TypeInv /\ TypeOK /\ RecordsStatus /\ MutualExclusion /\ BackupInv
              /\ SentOnce /\ Marks /\ SettledRows /\ SettledCalls /\ EarlyCalls /\ RowsBegin
BY DEF Ground, TypeInv, WriteInv

\* Nothing of a plan that has no row is anywhere.
LEMMA NothingOf ==
    ASSUME Ground, NEW p \in Plans, status[p] = "none"
    PROVE  Unreported(p) /\ Unsent(p)
<1>1. dbSteps[p] = <<>> /\ journal[p].steps = <<>>
  BY GroundParts DEF RowsBegin
<1>2. ~Begun(p)
  BY <1>1 DEF Begun
<1>3. p \notin pending /\ Clean(p)
  BY <1>2, GroundParts DEF Clean, Contents, BackupInv, Origins, Requests
<1> QED BY <1>1, <1>3 DEF Unreported, Unsent

\* A request is sent by a call that has none yet, of a plan without a verdict.
LEMMA SendsFirst ==
    ASSUME Ground, NEW c \in Callers, SendCommit(c)
    PROVE  /\ In(c, "act") /\ call[c].status = "applying" /\ Unsent(call[c].plan) /\ Unreported(call[c].plan)
BY GroundParts DEF SendCommit, In, EarlyCalls, EarlyCall, Early

LEMMA SentOnceStep == Ground /\ [Next]_vars => SentOnce'
<1> SUFFICES ASSUME Ground, [Next]_vars, NEW p \in pending' PROVE Clean(p)'
  BY DEF SentOnce, Clean, Wrote, Holds, Whole, Half
<1>1. p \in Plans /\ Clean(p)
  <2>1. CASE p \in pending
    BY <2>1, GroundParts DEF SentOnce, TypeOK
  <2>2. CASE \E c \in Callers : SendCommit(c) /\ p = call[c].plan
    BY <2>2, SendsFirst DEF Unsent, In
  <2> QED BY <2>1, <2>2, PendingChange
<1> QED BY <1>1, CleanStays, GroundParts

LEMMA MarksStep == Ground /\ [Next]_vars => Marks'
<1> SUFFICES ASSUME Ground, [Next]_vars, NEW p \in Plans
             PROVE  /\ \A content \in Contents' : Single(content, p)
                    /\ \A a, b \in Contents' : ~(Holds(a, Whole(p)) /\ Holds(b, Half(p)))
  BY DEF Marks, Single, Item, Holds, Whole, Half
<1> USE GroundParts
<1>1. /\ target \in Seq(Items) /\ target \in Contents /\ Single(target, p)
      /\ Whole(p) # Half(p) /\ Whole(p) \in Item(p) /\ Half(p) \in Item(p)
  BY DEF TypeOK, Contents, Marks, Item, Whole, Half
\* An item that is not of p changes nothing ...
<1>2. ASSUME NEW e, e \notin Item(p)
      PROVE  /\ Single(Append(target, e), p)
             /\ Holds(Append(target, e), Whole(p)) => Holds(target, Whole(p))
             /\ Holds(Append(target, e), Half(p)) => Holds(target, Half(p))
  <2>1. ASSUME NEW i \in DOMAIN Append(target, e), Append(target, e)[i] \in Item(p)
        PROVE  i \in DOMAIN target /\ Append(target, e)[i] = target[i]
    BY <1>1, <1>2, <2>1
  <2> QED BY <1>1, <1>2, <2>1, HoldsAppend DEF Single
<1>3. CASE p \notin pending \/ p \in pending'
  <2>1. ASSUME NEW content \in Contents'
        PROVE  /\ Single(content, p)
               /\ \E old \in Contents : /\ Holds(content, Whole(p)) => Holds(old, Whole(p))
                                        /\ Holds(content, Half(p)) => Holds(old, Half(p))
    <3>1. CASE content \in Contents
      BY <3>1 DEF Marks
    <3>2. ASSUME NEW e, content = Append(target, e), e \notin Item(p)
          PROVE  /\ Single(content, p)
                 /\ Holds(content, Whole(p)) => Holds(target, Whole(p))
                 /\ Holds(content, Half(p)) => Holds(target, Half(p))
      BY <1>2, <3>2
    <3> QED BY <1>1, <1>3, <3>1, <3>2, ItemChange
  <2> QED BY <2>1 DEF Marks
\* ... and the first item of p is the only one.
<1>4. CASE p \in pending /\ p \notin pending'
  <2>1. Clean(p)
    BY <1>4 DEF SentOnce
  <2>2. \A content \in Contents' : content \in Contents \/ content = target'
    BY ContentChange
  <2>3. \A i \in DOMAIN target : target[i] \notin Item(p)
    BY <1>1, <2>1 DEF Clean, Wrote, Holds, Item
  <2>4. ASSUME NEW e PROVE Single(Append(target, e), p)
    <3>1. ASSUME NEW i \in DOMAIN Append(target, e), Append(target, e)[i] \in Item(p)
          PROVE  i = Len(target) + 1
      BY <1>1, <2>3, <3>1
    <3> QED BY <3>1 DEF Single
  <2>5. Single(target', p)
    BY <1>1, <2>4, TargetChange DEF Marks, Contents
  <2>6. ASSUME NEW a \in Contents', NEW b \in Contents', Holds(a, Whole(p)), Holds(b, Half(p)) PROVE FALSE
    <3>1. a = target' /\ b = target'
      BY <2>1, <2>2, <2>6 DEF Clean, Wrote
    <3> QED BY <1>1, <2>5, <2>6, <3>1 DEF Single, Holds
  <2>7. \A content \in Contents : Single(content, p)
    BY DEF Marks
  <2> QED BY <2>2, <2>5, <2>6, <2>7
<1> QED BY <1>3, <1>4

LEMMA LinesOf ==
    ASSUME TypeInv, [Next]_vars, NEW p \in Plans, NEW i \in DOMAIN journal'[p].steps
    PROVE  \/ \E j \in DOMAIN journal[p].steps : journal'[p].steps[i] = journal[p].steps[j]
           \/ \E c \in Callers : In(c, "journal") /\ call[c].plan = p /\ journal'[p].steps[i] = call[c].status
<1>1. journal[p].steps \in Seq(Status)
  BY StepsType DEF TypeInv
<1>2. CASE journal'[p].steps = journal[p].steps
  BY <1>2
<1>3. CASE journal'[p].steps = SubSeq(journal[p].steps, 1, Len(journal[p].steps) - 1)
  <2>1. i \in DOMAIN journal[p].steps /\ journal'[p].steps[i] = journal[p].steps[i]
    BY <1>1, <1>3
  <2> QED BY <2>1
<1>4. ASSUME NEW c \in Callers, In(c, "journal"), call[c].plan = p,
             journal'[p].steps = Append(journal[p].steps, call[c].status)
      PROVE  \/ \E j \in DOMAIN journal[p].steps : journal'[p].steps[i] = journal[p].steps[j]
             \/ journal'[p].steps[i] = call[c].status
  <2>1. \/ i \in DOMAIN journal[p].steps /\ journal'[p].steps[i] = journal[p].steps[i]
        \/ journal'[p].steps[i] = call[c].status
    BY <1>1, <1>4
  <2> QED BY <2>1
<1> QED BY <1>2, <1>3, <1>4, LineChange DEF Grew

LEMMA SettledRowsStep == Ground /\ [Next]_vars => SettledRows'
<1> SUFFICES ASSUME Ground, [Next]_vars, NEW p \in Plans, ~Unreported(p)' PROVE Settled(p)'
  BY DEF SettledRows, Unreported, Settled
<1>1. CASE ~Unreported(p)
  <2>1. Settled(p)
    BY <1>1, GroundParts DEF SettledRows
  <2>2. \A c \in Callers : ~(SendCommit(c) /\ call[c].plan = p)
    BY <1>1, SendsFirst
  <2> QED BY <2>1, <2>2, SettledStays, GroundParts
<1>2. CASE Unreported(p)
  <2>1. \A c \in Callers : ~SendCommit(c)
    BY <1>2 DEF Unreported, SendCommit, durable
  <2>2. Settled(p)
    <3>1. ASSUME NEW c \in Callers, In(c, "journal") \/ In(c, "db"), call[c].plan = p, call[c].status = "completed"
          PROVE  Settled(p)
      BY <3>1, GroundParts DEF SettledCalls, SettledCall, In
    <3>2. CASE status'[p] = "completed"
      <4>1. status'[p] # status[p] /\ status'[p] \notin {"prepared", "manual-review"}
            /\ \A i \in DOMAIN journal[p].steps : status'[p] # journal[p].steps[i]
        BY <1>2, <3>2 DEF Unreported
      <4> QED BY <3>1, <3>2, <4>1, RowChange, GroundParts
    <3>3. ASSUME NEW i \in DOMAIN journal'[p].steps, journal'[p].steps[i] = "completed"
          PROVE  Settled(p)
      BY <1>2, <3>1, <3>3, LinesOf, GroundParts DEF Unreported
    <3> QED BY <3>2, <3>3 DEF Unreported
  <2> QED BY <2>1, <2>2, SettledStays, GroundParts
<1> QED BY <1>1, <1>2

LEMMA SettledCallsStep == Ground /\ [Next]_vars => SettledCalls'
<1> SUFFICES ASSUME Ground, [Next]_vars, NEW d \in Callers PROVE SettledCall(d)'
  BY DEF SettledCalls
<1> USE GroundParts
<1>0. SettledCall(d)
  BY DEF SettledCalls
\* Another call that writes has no effect on d, which is outside then.
<1>1. ASSUME call'[d] = call[d] PROVE SettledCall(d)'
  <2> SUFFICES ASSUME call[d].plan \in Plans, call[d].phase \in {"journal", "db"}, call[d].status = "completed"
               PROVE  Settled(call[d].plan)'
    BY <1>1 DEF SettledCall, Settled
  <2>1. Settled(call[d].plan)
    BY <1>0 DEF SettledCall
  <2>2. ASSUME NEW c \in Callers, SendCommit(c) PROVE FALSE
    <3>1. c # d /\ call[c].phase = "act"
      BY <2>2 DEF SendCommit, In
    <3> QED BY <3>1, Alone DEF Outside
  <2>3. \A c \in Callers : ~(SendCommit(c) /\ call[c].plan = call[d].plan)
    BY <2>2
  <2>4. \A p \in Plans : p = call[d].plan => Settled(p)'
    BY <2>1, <2>3, SettledStays
  <2> QED BY <1>1, <2>4 DEF Settled
<1>2. ASSUME NEW c \in Callers, NEW phase, NEW st, call' = At(c, phase, st),
             phase \notin {"journal", "db"} \/ st # "completed"
      PROVE  SettledCall(d)'
  <2>1. CASE d = c
    BY <1>2, <2>1, Moved DEF SettledCall
  <2>2. CASE d # c
    BY <1>1, <1>2, <2>2, Moved
  <2> QED BY <2>1, <2>2
\* A call that is about to write a verdict has just settled its transaction.
<1>3. ASSUME NEW c \in Callers, NEW phase, NEW st, call' = At(c, phase, st),
             NEW p \in Plans, p = call[c].plan, Settled(p)'
      PROVE  SettledCall(d)'
  <2>1. CASE d = c
    BY <1>3, <2>1, Moved DEF SettledCall, Settled
  <2>2. CASE d # c
    BY <1>1, <1>3, <2>2, Moved
  <2> QED BY <2>1, <2>2
<1>4. ASSUME NEW c \in Callers, call' = [call EXCEPT ![c] = IdleCall] PROVE SettledCall(d)'
  <2>1. call'[c] = IdleCall /\ \A e \in Callers : e # c => call'[e] = call[e]
    BY <1>4, Idled
  <2> QED BY <1>1, <2>1 DEF SettledCall, IdleCall
<1>5. ASSUME NEW c \in Callers, NEW p \in Plans, ApplyCall(c, p) \/ RestoreCall(c, p) \/ RecoverCall(c, p)
      PROVE  SettledCall(d)'
  <2>1. call'[c].phase = "wait" /\ \A e \in Callers : e # c => call'[e] = call[e]
    BY <1>5 DEF TypeOK, ApplyCall, RestoreCall, RecoverCall, Begin
  <2> QED BY <1>1, <2>1 DEF SettledCall
<1>6. ASSUME NEW p \in Plans, HostApply(p) PROVE SettledCall(d)'
  <2>1. PICK st \in {"verifying", "restoring"} : Answer(p, st)
    BY <1>6 DEF HostApply
  <2>2. call'[d] = call[d] \/ call'[d].status = st
    BY <2>1 DEF TypeOK, Answer, CallStates
  <2> QED BY <1>1, <2>2 DEF SettledCall
<1>7. ASSUME NEW c \in Callers, AppendJournal(c) PROVE SettledCall(d)'
  <2>1. In(c, "journal") /\ call' = At(c, "db", call[c].status)
    BY <1>7 DEF AppendJournal
  <2>2. CASE call[c].status = "completed"
    <3>1. call[c].plan \in Plans /\ Settled(call[c].plan)
      BY <2>1, <2>2 DEF SettledCalls, SettledCall, In
    <3>2. UNCHANGED <<pending, target, backup>>
      BY <1>7 DEF AppendJournal
    <3>3. \A p \in Plans : p = call[c].plan => Settled(p)'
      BY <3>1, <3>2 DEF Settled, Contents, Holds, Half
    <3> QED BY <1>3, <2>1, <3>1, <3>3
  <2> QED BY <1>2, <2>1, <2>2
<1>8. ASSUME NEW c \in Callers, Verify(c) PROVE SettledCall(d)'
  <2> DEFINE p == call[c].plan
  <2>1. p \in Plans /\ UNCHANGED <<pending, target, backup>>
    BY <1>8 DEF Verify, In, durable
  <2>2. CASE call' = At(c, "journal", "completed") /\ VerifyOk(c)
    <3>1. target = Append(backup[p].state, Whole(p)) /\ backup[p].state \in Seq(Items) /\ target \in Contents
      BY <2>1, <2>2, SnapshotType DEF VerifyOk, Committed, Contents
    <3>2. Holds(target, Whole(p))
      BY <3>1, AppendedIsHeld
    <3>3. p \notin pending
      BY <3>1, <3>2 DEF SentOnce, Clean, Wrote
    <3>4. \A content \in Contents : ~Holds(content, Half(p))
      BY <2>1, <3>1, <3>2 DEF Marks
    <3>5. \A q \in Plans : q = p => Settled(q)'
      BY <2>1, <3>3, <3>4 DEF Settled, Contents, Holds, Half
    <3> QED BY <1>3, <2>1, <2>2, <3>5
  <2>3. CASE call' = At(c, "journal", "restoring") \/ call' = At(c, "release", "none")
    BY <1>2, <2>3
  <2> QED BY <1>8, <2>2, <2>3 DEF Verify
<1>9. ASSUME NEW c \in Callers, HostRestore(c) PROVE SettledCall(d)'
  BY <1>2, <1>9 DEF HostRestore
<1>10. ASSUME NEW c \in Callers, CallStep(c), ~AppendJournal(c), ~Verify(c) PROVE SettledCall(d)'
  <2>1. CASE \/ WriteOwner(c) \/ InspectLock(c) \/ ClearLock(c) \/ ReleaseLock(c)
             \/ EnterApply(c) \/ EnterRestore(c) \/ EnterRecover(c)
    BY <1>2, <1>4, <2>1 DEF WriteOwner, InspectLock, ClearLock, ReleaseLock, EnterApply, CreateOr,
       EnterRestore, EnterRecover
  <2>2. CASE Reconcile(c) \/ Resume(c) \/ RecordStep(c)
    BY <1>1, <1>2, <2>2 DEF Reconcile, ReconcileIf, Resume, RecordStep
  <2>3. CASE AppendThrows(c) \/ RecordThrows(c)
    BY <1>2, <2>3 DEF AppendThrows, RecordThrows, AfterThrow
  <2>4. CASE \/ Prepare(c) \/ Capture(c) \/ SaveManifest(c) \/ SendCommit(c)
             \/ LoseConnection(c) \/ SendRestore(c)
    BY <1>1, <1>2, <2>4 DEF Prepare, Capture, SaveManifest, SendCommit, LoseConnection, SendRestore
  <2> QED BY <1>10, <2>1, <2>2, <2>3, <2>4 DEF CallStep
<1>11. ASSUME NEW c \in Callers, AcquireFile(c) PROVE SettledCall(d)'
  BY <1>2, <1>4, <1>11 DEF AcquireFile, CreateFile
<1>12. CASE Crash
  BY <1>12 DEF Crash, IdleCall, SettledCall
<1>13. CASE UserEdit \/ UNCHANGED vars \/ \E p \in Plans : SavePlan(p) \/ LateRestore(p) \/ LoseJournalLine(p)
  BY <1>1, <1>13 DEF UserEdit, vars, SavePlan, LateRestore, LoseJournalLine
<1> QED
  BY <1>5, <1>6, <1>7, <1>8, <1>9, <1>10, <1>11, <1>12, <1>13 DEF Next
LEMMA EarlyCallsStep == Ground /\ [Next]_vars => EarlyCalls'
<1> SUFFICES ASSUME Ground, [Next]_vars, NEW d \in Callers PROVE EarlyCall(d)'
  BY DEF EarlyCalls
<1> USE GroundParts
<1>0. EarlyCall(d)
  BY DEF EarlyCalls
\* What is unsent stays so, but for the call that sends it.
<1>1. ASSUME NEW p \in Plans, Unsent(p), \A c \in Callers : ~SendCommit(c) PROVE Unsent(p)'
  <2>1. p \notin pending' /\ Clean(p)'
    BY <1>1, PendingChange, CleanStays DEF Unsent
  <2> QED BY <2>1 DEF Unsent, Clean
<1>2. ASSUME call'[d] = call[d], call[d].phase \in Outside \/ UNCHANGED <<status, journal>> PROVE EarlyCall(d)'
  <2>1. CASE call[d].phase \in Outside
    BY <1>2, <2>1 DEF EarlyCall, Outside
  <2>2. CASE call[d].phase \notin Outside
    <3>1. ASSUME NEW c \in Callers, SendCommit(c) PROVE FALSE
      <4>1. call[c].phase = "act" /\ (d = c => call'[d] # call[d])
        BY <3>1, Moved DEF SendCommit, In
      <4> QED BY <1>2, <2>2, <4>1, Alone DEF Outside
    <3>2. \A p \in Plans : Unsent(p) => Unsent(p)'
      BY <1>1, <3>1
    <3> QED BY <1>0, <1>2, <2>2, <3>2 DEF EarlyCall, Unreported, Unsent, Clean
  <2> QED BY <2>1, <2>2
<1>3. ASSUME NEW c \in Callers, NEW phase, NEW st, call' = At(c, phase, st),
             phase \notin {"journal", "db", "act"} \/ st \notin Early,
             call[c].phase \notin Outside \/ UNCHANGED <<status, journal>>
      PROVE  EarlyCall(d)'
  <2>1. CASE d = c
    BY <1>3, <2>1, Moved DEF EarlyCall
  <2>2. CASE d # c
    <3>1. call'[d] = call[d]
      BY <1>3, <2>2, Moved
    <3> QED BY <1>2, <1>3, <2>2, <3>1, Alone
  <2> QED BY <2>1, <2>2
\* A call that goes on before its request.
<1>4. ASSUME NEW c \in Callers, NEW phase, NEW st, call' = At(c, phase, st), call[c].phase \notin Outside,
             NEW p \in Plans, p = call[c].plan, Unsent(p), Unreported(p)', \A c2 \in Callers : ~SendCommit(c2)
      PROVE  EarlyCall(d)'
  <2>1. CASE d = c
    <3>1. call'[d].plan = p /\ Unsent(p)'
      BY <1>1, <1>4, <2>1, Moved
    <3> QED BY <1>4, <3>1 DEF EarlyCall, Unsent, Clean, Unreported
  <2>2. CASE d # c
    <3>1. call'[d] = call[d] /\ call[d].phase \in Outside
      BY <1>4, <2>2, Moved, Alone
    <3> QED BY <1>2, <3>1
  <2> QED BY <2>1, <2>2
<1>5. ASSUME NEW c \in Callers, call' = [call EXCEPT ![c] = IdleCall],
             call[c].phase \notin Outside \/ UNCHANGED <<status, journal>>
      PROVE  EarlyCall(d)'
  <2>1. call'[c] = IdleCall /\ \A e \in Callers : e # c => call'[e] = call[e]
    BY <1>5, Idled
  <2>2. CASE d = c
    BY <2>1, <2>2 DEF EarlyCall, IdleCall
  <2> QED BY <1>2, <1>5, <2>1, <2>2, Alone
<1>6. ASSUME NEW c \in Callers, NEW p \in Plans, ApplyCall(c, p) \/ RestoreCall(c, p) \/ RecoverCall(c, p)
      PROVE  EarlyCall(d)'
  <2>1. /\ call'[c].phase = "wait" /\ \A e \in Callers : e # c => call'[e] = call[e]
        /\ UNCHANGED <<status, journal>>
    BY <1>6 DEF TypeOK, ApplyCall, RestoreCall, RecoverCall, Begin, durable
  <2> QED BY <1>2, <2>1 DEF EarlyCall
<1>7. ASSUME NEW p \in Plans, SavePlan(p) \/ LateRestore(p) \/ HostApply(p) \/ LoseJournalLine(p) PROVE EarlyCall(d)'
  <2>1. CASE SavePlan(p) \/ LateRestore(p)
    BY <1>2, <2>1 DEF SavePlan, LateRestore, durable
  <2>2. CASE HostApply(p)
    <3>1. PICK st \in {"verifying", "restoring"} : Answer(p, st)
      BY <2>2 DEF HostApply
    <3>2. call'[d] = call[d] \/ call'[d].status = st
      BY <3>1 DEF TypeOK, Answer, CallStates
    <3>3. UNCHANGED <<status, journal>>
      BY <2>2 DEF HostApply, durable
    <3> QED BY <1>2, <3>2, <3>3 DEF EarlyCall, Early
  <2>3. CASE LoseJournalLine(p)
    BY <1>2, <2>3 DEF LoseJournalLine, IdleCall, Outside
  <2> QED BY <1>7, <2>1, <2>2, <2>3
<1>8. ASSUME NEW c \in Callers, AcquireFile(c) PROVE EarlyCall(d)'
  BY <1>3, <1>5, <1>8 DEF AcquireFile, CreateFile, durable, Early
<1>9. ASSUME NEW c \in Callers, EnterApply(c) PROVE EarlyCall(d)'
  <2> DEFINE p == call[c].plan
  <2>1. p \in Plans /\ call[c].phase = "locked" /\ \A c2 \in Callers : ~SendCommit(c2)
    <3>1. CASE call' = At(c, "journal", "prepared") /\ status' = [status EXCEPT ![p] = "prepared"] /\ status[p] = "none"
      BY <1>9, <3>1 DEF EnterApply, CreateOr, In, SendCommit, durable, TypeOK
    <3>2. CASE call' = At(c, "release", "none")
      <4>1. ASSUME NEW c2 \in Callers, SendCommit(c2) PROVE FALSE
        <5>1. call[c].phase = "locked" /\ call[c2].phase = "act"
          BY <1>9, <4>1 DEF EnterApply, CreateOr, SendCommit, In
        <5> QED BY <5>1, Alone DEF Outside
      <4> QED BY <1>9, <4>1 DEF EnterApply, CreateOr, In
    <3> QED BY <1>9, <3>1, <3>2 DEF EnterApply, CreateOr
  <2>2. CASE call' = At(c, "release", "none")
    BY <1>3, <2>1, <2>2 DEF Outside
  <2>3. CASE /\ call' = At(c, "journal", "prepared") /\ status' = [status EXCEPT ![p] = "prepared"] /\ journal' = journal
             /\ status[p] = "none"
    <3>1. Unsent(p) /\ Unreported(p)
      BY <2>1, <2>3, NothingOf
    <3>2. status'[p] = "prepared"
      BY <2>1, <2>3 DEF TypeOK
    <3>3. \A q \in Plans : q = p => Unreported(q)'
      BY <2>3, <3>1, <3>2 DEF Unreported
    <3> QED BY <1>4, <2>1, <2>3, <3>1, <3>3 DEF Outside
  <2> QED BY <1>9, <2>2, <2>3 DEF EnterApply, CreateOr
\* A call goes on with a status it had.
<1>10. ASSUME NEW c \in Callers, AppendJournal(c) \/ RecordStep(c) PROVE EarlyCall(d)'
  <2> DEFINE p == call[c].plan
  <2>1. /\ p \in Plans /\ call[c].phase \in {"journal", "db"} /\ UNCHANGED <<pending, target, backup>>
        /\ \E phase \in {"db", "release", "act"}, st \in {call[c].status, "none"} :
              call' = At(c, phase, st) /\ (phase = "release" \/ st = call[c].status)
    BY <1>10 DEF AppendJournal, RecordStep, In
  <2>2. CASE call[c].status \notin Early
    BY <1>3, <2>1, <2>2 DEF Outside
  <2>3. CASE call[c].status \in Early
    <3>1. Unsent(p) /\ Unreported(p)
      BY <2>1, <2>3 DEF EarlyCalls, EarlyCall
    <3>3. status'[p] # "completed"
      BY <1>10, <2>1, <2>3, <3>1 DEF AppendJournal, RecordStep, TypeOK, Unreported, Early
    <3>4. ASSUME NEW i \in DOMAIN journal'[p].steps PROVE journal'[p].steps[i] # "completed"
      <4>1. \A e \in Callers : In(e, "journal") => e = c
        BY <2>1, Alone DEF In, Outside
      <4> QED BY <2>1, <2>3, <3>1, <3>4, <4>1, LinesOf DEF Unreported, Early
    <3>5. \A q \in Plans : q = p => Unreported(q)'
      BY <3>3, <3>4 DEF Unreported
    <3>6. \A c2 \in Callers : ~SendCommit(c2)
      <4>1. ASSUME NEW c2 \in Callers, SendCommit(c2) PROVE FALSE
        <5>1. call[c2].phase = "act"
          BY <4>1 DEF SendCommit, In
        <5> QED BY <2>1, <5>1, Alone DEF Outside
      <4> QED BY <4>1
    <3> QED BY <1>3, <1>4, <2>1, <3>1, <3>5, <3>6 DEF Outside
  <2> QED BY <2>2, <2>3
<1>11. ASSUME NEW c \in Callers, Prepare(c) \/ Capture(c) \/ SaveManifest(c) PROVE EarlyCall(d)'
  <2> DEFINE p == call[c].plan
  <2>1. /\ p \in Plans /\ call[c].phase = "act" /\ call[c].status \in Early /\ UNCHANGED <<status, journal>>
        /\ \A c2 \in Callers : ~SendCommit(c2)
    <3>1. /\ p \in Plans /\ call[c].phase = "act" /\ call[c].status \in {"prepared", "backing-up"}
          /\ UNCHANGED <<status, journal>>
      BY <1>11 DEF Prepare, Capture, SaveManifest, In, durable
    <3>2. ASSUME NEW c2 \in Callers, SendCommit(c2) PROVE FALSE
      <4>1. call[c2].phase = "act" /\ call[c2].status = "applying"
        BY <3>2 DEF SendCommit, In
      <4> QED BY <3>1, <4>1, Alone DEF Outside
    <3> QED BY <3>1, <3>2 DEF Early
  <2>2. Unsent(p) /\ Unreported(p)
    BY <2>1 DEF EarlyCalls, EarlyCall
  <2>3. \A q \in Plans : q = p => Unreported(q)'
    BY <2>1, <2>2 DEF Unreported
  <2>4. ASSUME NEW st, call' = At(c, "journal", st) PROVE EarlyCall(d)'
    BY <1>4, <2>1, <2>2, <2>3, <2>4 DEF Outside
  <2> QED BY <1>2, <1>11, <2>1, <2>4 DEF Prepare, Capture, SaveManifest
<1>12. ASSUME NEW c \in Callers,
              \/ WriteOwner(c) \/ InspectLock(c) \/ ClearLock(c) \/ ReleaseLock(c)
              \/ EnterRestore(c) \/ EnterRecover(c) \/ Resume(c)
              \/ SendCommit(c) \/ LoseConnection(c) \/ Verify(c) \/ SendRestore(c) \/ HostRestore(c)
       PROVE  EarlyCall(d)'
  <2>1. UNCHANGED <<status, journal>>
    BY <1>12 DEF WriteOwner, InspectLock, ClearLock, ReleaseLock, EnterRestore, EnterRecover, Resume, SendCommit,
       LoseConnection, Verify, SendRestore, HostRestore, durable
  <2>2. CASE WriteOwner(c) \/ InspectLock(c) \/ ClearLock(c) \/ ReleaseLock(c)
    BY <1>3, <1>5, <2>1, <2>2 DEF WriteOwner, InspectLock, ClearLock, ReleaseLock
  <2>3. CASE EnterRestore(c) \/ EnterRecover(c) \/ Resume(c)
    BY <1>3, <2>1, <2>3 DEF EnterRestore, EnterRecover, Resume, Early
  <2>4. CASE SendCommit(c) \/ LoseConnection(c) \/ Verify(c) \/ SendRestore(c) \/ HostRestore(c)
    BY <1>3, <2>1, <2>4 DEF SendCommit, LoseConnection, Verify, SendRestore, HostRestore, Early
  <2> QED BY <1>12, <2>2, <2>3, <2>4
<1>13. ASSUME NEW c \in Callers, Reconcile(c) \/ AppendThrows(c) \/ RecordThrows(c) PROVE EarlyCall(d)'
  <2>1. call[c].phase \in {"reconcile", "journal", "db"}
    BY <1>13 DEF Reconcile, ReconcileIf, AppendThrows, RecordThrows, In
  <2>2. CASE Reconcile(c)
    <3>1. call' = call \/ call' = At(c, "release", "none") \/ call' = At(c, "resume", status[call[c].plan])
      BY <2>2 DEF Reconcile, ReconcileIf
    <3>2. CASE call' = call
      <4>1. call[d].phase \in Outside \/ d = c
        BY <2>1, Alone DEF Outside
      <4>2. call[c].phase = "reconcile"
        BY <2>2 DEF Reconcile, ReconcileIf, In
      <4> QED BY <1>2, <3>2, <4>1, <4>2 DEF EarlyCall
    <3> QED BY <1>3, <2>1, <3>1, <3>2 DEF Outside
  <2>3. CASE AppendThrows(c) \/ RecordThrows(c)
    <3>1. call' = AfterThrow(c)
      BY <2>3 DEF AppendThrows, RecordThrows
    <3> QED BY <1>3, <2>1, <3>1 DEF AfterThrow, Outside, Early
  <2> QED BY <1>13, <2>2, <2>3
<1>14. CASE Crash
  BY <1>14 DEF Crash, IdleCall, EarlyCall
<1>15. CASE UserEdit \/ UNCHANGED vars
  BY <1>2, <1>15 DEF UserEdit, vars, durable
<1> QED
  BY <1>6, <1>7, <1>8, <1>9, <1>10, <1>11, <1>12, <1>13, <1>14, <1>15 DEF Next, CallStep

LEMMA RowStays == ASSUME TypeInv, [Next]_vars, NEW p \in Plans, status[p] # "none" PROVE status'[p] # "none"
<1>1. \A i \in DOMAIN journal[p].steps : journal[p].steps[i] # "none"
  <2>1. journal[p].steps \in Seq(Status)
    BY StepsType DEF TypeInv
  <2> QED BY <2>1 DEF Status
<1>2. \A c \in Callers : In(c, "db") => call[c].status # "none"
  BY DEF TypeInv, RecordsStatus, In, Status
<1> QED BY <1>1, <1>2, RowChange

LEMMA RowsBeginStep == Ground /\ [Next]_vars => RowsBegin'
<1> SUFFICES ASSUME Ground, [Next]_vars PROVE RowsBegin'
  OBVIOUS
<1> USE GroundParts
<1>1. ASSUME NEW p \in Plans, status'[p] = "none" PROVE dbSteps'[p] = <<>> /\ journal'[p].steps = <<>>
  <2>1. status[p] = "none" /\ dbSteps[p] = <<>> /\ journal[p].steps = <<>>
    BY <1>1, RowStays DEF RowsBegin
  <2>2. \A c \in Callers : call[c].plan = p => ~In(c, "reconcile") /\ ~In(c, "db") /\ ~In(c, "journal")
    BY <2>1 DEF RowsBegin, HasRow, In
  <2>3. journal'[p].steps = <<>>
    BY <2>1, <2>2, LineChange DEF Grew
  <2>4. \/ UNCHANGED dbSteps
        \/ \E c \in Callers : Reconcile(c) \/ RecordStep(c)
    BY ZenonT(60) DEF Next, CallStep, vars, durable, SavePlan, HostApply, LoseJournalLine, ApplyCall,
       RestoreCall, RecoverCall, AcquireFile, CreateFile, WriteOwner, InspectLock, ClearLock,
       ReleaseLock, EnterApply, CreateOr, EnterRestore, EnterRecover, Resume, AppendJournal,
       AppendThrows, RecordThrows, Prepare, Capture, SaveManifest, SendCommit,
       LoseConnection, Verify, SendRestore, HostRestore, LateRestore, UserEdit, Crash
  <2>5. ASSUME NEW c \in Callers, Reconcile(c) \/ RecordStep(c) PROVE dbSteps'[p] = dbSteps[p]
    <3>1. call[c].plan \in Plans /\ call[c].plan # p
      BY <2>2, <2>5 DEF Reconcile, ReconcileIf, RecordStep, In
    <3>2. \/ dbSteps' = dbSteps
          \/ \E st : dbSteps' = [dbSteps EXCEPT ![call[c].plan] = Append(dbSteps[call[c].plan], st)]
      <4>1. CASE Reconcile(c)
        BY <4>1 DEF Reconcile, ReconcileIf
      <4>2. CASE RecordStep(c)
        BY <4>2 DEF RecordStep
      <4> QED BY <2>5, <4>1, <4>2
    <3> QED BY <3>1, <3>2 DEF TypeOK
  <2> QED BY <2>1, <2>3, <2>4, <2>5
<1> SUFFICES ASSUME NEW d \in Callers PROVE HasRow(d)'
  BY <1>1 DEF RowsBegin
<1> DEFINE Recording == {"reconcile", "resume", "journal", "db", "act", "await"}
<1>2. ASSUME call'[d] = call[d] PROVE HasRow(d)'
  BY <1>2, RowStays DEF HasRow, RowsBegin
<1>3. ASSUME NEW c \in Callers, NEW phase, NEW st, call' = At(c, phase, st),
             \/ phase \notin Recording
             \/ call[c].phase \in Recording
             \/ call[c].plan \in Plans /\ (status[call[c].plan] # "none" \/ status'[call[c].plan] # "none")
      PROVE  HasRow(d)'
  <2>1. CASE d = c
    <3>1. call'[d].phase = phase /\ call'[d].plan = call[c].plan
      BY <1>3, <2>1, Moved
    <3>2. CASE phase \notin Recording
      BY <3>1, <3>2 DEF HasRow
    <3>3. CASE call[c].phase \in Recording
      BY <3>1, <3>3, RowStays DEF HasRow, RowsBegin
    <3>4. CASE call[c].plan \in Plans /\ (status[call[c].plan] # "none" \/ status'[call[c].plan] # "none")
      BY <3>1, <3>4, RowStays DEF HasRow
    <3> QED BY <1>3, <3>2, <3>3, <3>4
  <2>2. CASE d # c
    BY <1>2, <1>3, <2>2, Moved
  <2> QED BY <2>1, <2>2
<1>4. ASSUME NEW c \in Callers, call' = [call EXCEPT ![c] = IdleCall] PROVE HasRow(d)'
  <2>1. call'[c] = IdleCall /\ \A e \in Callers : e # c => call'[e] = call[e]
    BY <1>4, Idled
  <2> QED BY <1>2, <2>1 DEF HasRow, IdleCall
<1>5. ASSUME NEW c \in Callers, NEW p \in Plans, ApplyCall(c, p) \/ RestoreCall(c, p) \/ RecoverCall(c, p)
      PROVE  HasRow(d)'
  <2>1. call'[c].phase = "wait" /\ \A e \in Callers : e # c => call'[e] = call[e]
    BY <1>5 DEF TypeOK, ApplyCall, RestoreCall, RecoverCall, Begin
  <2> QED BY <1>2, <2>1 DEF HasRow
<1>6. ASSUME NEW p \in Plans, SavePlan(p) \/ LateRestore(p) \/ HostApply(p) \/ LoseJournalLine(p) PROVE HasRow(d)'
  <2>1. CASE SavePlan(p) \/ LateRestore(p) \/ LoseJournalLine(p)
    BY <1>2, <2>1 DEF SavePlan, LateRestore, LoseJournalLine
  <2>2. CASE HostApply(p)
    <3>1. PICK st \in {"verifying", "restoring"} : Answer(p, st)
      BY <2>2 DEF HostApply
    <3>2. call'[d] = call[d] \/ (call[d].phase = "await" /\ call'[d].plan = call[d].plan)
      BY <3>1 DEF TypeOK, Answer, CallStates
    <3> QED BY <1>2, <3>2, RowStays DEF HasRow, RowsBegin
  <2> QED BY <1>6, <2>1, <2>2
<1>7. ASSUME NEW c \in Callers, AcquireFile(c) PROVE HasRow(d)'
  BY <1>3, <1>4, <1>7 DEF AcquireFile, CreateFile
<1>8. ASSUME NEW c \in Callers, EnterApply(c) \/ EnterRestore(c) \/ EnterRecover(c) PROVE HasRow(d)'
  <2>1. CASE EnterApply(c)
    <3>1. call[c].plan \in Plans
      BY <2>1 DEF EnterApply, CreateOr, In
    <3>2. call' = At(c, "release", "none") \/ (call' = At(c, "journal", "prepared") /\ status'[call[c].plan] = "prepared")
      BY <2>1, <3>1 DEF EnterApply, CreateOr, TypeOK
    <3> QED BY <1>3, <3>1, <3>2
  <2>2. CASE EnterRestore(c)
    BY <1>3, <2>2 DEF EnterRestore, In
  <2>3. CASE EnterRecover(c)
    <3>1. call[c].plan \in Plans /\ status[call[c].plan] # "none"
      BY <2>3 DEF EnterRecover, In, BackupInv, RecoverHasRow
    <3> QED BY <1>3, <2>3, <3>1 DEF EnterRecover
  <2> QED BY <1>8, <2>1, <2>2, <2>3
<1>9. ASSUME NEW c \in Callers, WriteOwner(c) \/ InspectLock(c) \/ ClearLock(c) \/ ReleaseLock(c) PROVE HasRow(d)'
  BY <1>3, <1>4, <1>9 DEF WriteOwner, InspectLock, ClearLock, ReleaseLock
<1>10. ASSUME NEW c \in Callers,
              \/ Reconcile(c) \/ Resume(c) \/ AppendJournal(c) \/ AppendThrows(c) \/ RecordStep(c) \/ RecordThrows(c)
              \/ Prepare(c) \/ Capture(c) \/ SaveManifest(c) \/ SendCommit(c) \/ LoseConnection(c) \/ Verify(c)
              \/ SendRestore(c) \/ HostRestore(c)
       PROVE  HasRow(d)'
  <2>1. call[c].phase \in Recording
    BY <1>10 DEF Reconcile, ReconcileIf, Resume, AppendJournal, AppendThrows, RecordStep, RecordThrows, Prepare, Capture,
       SaveManifest, SendCommit, LoseConnection, Verify, SendRestore, HostRestore, In
  <2>2. call' = call \/ \E phase, st : call' = At(c, phase, st)
    <3>1. CASE Reconcile(c) \/ Resume(c) \/ AppendJournal(c) \/ RecordStep(c)
      BY <3>1 DEF Reconcile, ReconcileIf, Resume, AppendJournal, RecordStep
    <3>2. CASE AppendThrows(c) \/ RecordThrows(c)
      BY <3>2 DEF AppendThrows, RecordThrows, AfterThrow
    <3>3. CASE \/ Prepare(c) \/ Capture(c) \/ SaveManifest(c) \/ SendCommit(c) \/ LoseConnection(c) \/ Verify(c)
               \/ SendRestore(c) \/ HostRestore(c)
      BY <3>3 DEF Prepare, Capture, SaveManifest, SendCommit, LoseConnection, Verify, SendRestore, HostRestore
    <3> QED BY <1>10, <3>1, <3>2, <3>3
  <2> QED BY <1>2, <1>3, <2>1, <2>2
<1>11. CASE Crash
  BY <1>11 DEF Crash, IdleCall, HasRow
<1>12. CASE UserEdit \/ UNCHANGED vars
  BY <1>2, <1>12 DEF UserEdit, vars
<1> QED
  BY <1>5, <1>6, <1>7, <1>8, <1>9, <1>10, <1>11, <1>12 DEF Next, CallStep

LEMMA WriteInit == Init => WriteInv
BY DEF Init, WriteInv, SentOnce, Marks, Single, Item, Contents, SettledRows, SettledCalls, SettledCall, EarlyCalls,
   EarlyCall, RowsBegin, HasRow, Unreported, IdleCall, Holds

\* A transaction writes at most once, and what is reported as completed is that write, whole: no request of it is
\* on its way and no half write of it is on the platform or in a snapshot, whatever is late, lost or restored.
THEOREM WritesOnce == Spec => []WrittenOnce
<1>1. TypeInv /\ [Next]_vars => TypeInv'
  BY TypeStep, RecordsStep DEF TypeInv
<1>2. TypeInv /\ BackupInv /\ [Next]_vars => BackupInv'
  BY LateCallsStep, LateRowsStep, LateLinesStep, RecoverHasRowStep, RequestsStep, OriginsStep DEF BackupInv
<1>3. TypeInv /\ MutualExclusion /\ BackupInv /\ WriteInv /\ [Next]_vars => WriteInv'
  BY SentOnceStep, MarksStep, SettledRowsStep, SettledCallsStep, EarlyCallsStep, RowsBeginStep
     DEF Ground, WriteInv
<1>4. TypeInv /\ WriteInv => WrittenOnce
  <2> SUFFICES ASSUME TypeInv, WriteInv, NEW p \in Plans
               PROVE  /\ \A content \in Contents : Single(content, p)
                      /\ p \in pending => Clean(p)
                      /\ status[p] = "completed" => Settled(p)
    BY DEF WrittenOnce, Single, Item, Clean, Settled
  <2> QED BY DEF WriteInv, Marks, SentOnce, SettledRows, Unreported
<1> QED BY TypeInit, BackupInit, WriteInit, Exclusive, <1>1, <1>2, <1>3, <1>4, PTL DEF Spec
=============================================================================
