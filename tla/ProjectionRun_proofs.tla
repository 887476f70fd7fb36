------------------------- MODULE ProjectionRun_proofs -------------------------
(***************************************************************************)
(* Theorems about ProjectionRun, for every kind of session, every set of   *)
(* steps that can fail and every value of the bounds.                      *)
(***************************************************************************)
EXTENDS ProjectionRun, TLAPS

AppendSteps == {"look", "put", "apply", "mark", "commit", "switch", "upsert", "settle"}

\* An operation being appended, waiting in the log or held by the plugin has the
\* name of an operation: TypeOK alone lets it be the empty one, and then the step
\* that looks its receipt up has no value.
OpsNamed ==
    /\ task.call = "append" => task.at \in AppendSteps \cup {"done"}
    /\ task.call = "append" \/ task.at \in AppendSteps => task.op.id \in OpIds
    /\ task.at \in {"apply", "mark"} => wal[task.op.id].op.id = task.op.id
    /\ \A id \in OpIds :
          wal[id].state \in {"pending", "applied", "committed"} \/ id \in task.todo
              => wal[id].op.id = id
    /\ plugin.batch = NoOp \/ plugin.batch.id \in OpIds

TypeInv == TypeOK /\ OpsNamed

USE ConstantsAssumption

(***************************************************************************)
(* Values                                                                  *)
(***************************************************************************)
LEMMA Names ==
    /\ \A hi \in 1..MaxEvents : LiveId(hi) \in OpIds
    /\ \A lo \in 0..MaxEvents, hi \in 1..MaxEvents : TailId(lo, hi) \in OpIds
    /\ Root \in Logicals /\ OpIds \subseteq Logicals
BY DEF OpIds, Logicals

LEMMA Constants ==
    /\ NoOp \in Ops /\ NoMapping \in Mappings /\ NoReceipt \in Receipts
    /\ NoContext \in Contexts /\ NoTask \in Tasks
<1>1. NoOp \in Ops
  BY Names DEF NoOp, Ops
<1>2. NoMapping \in Mappings
  BY Names DEF NoMapping, Mappings
<1>3. NoReceipt \in Receipts
  BY Names DEF NoReceipt, Receipts
<1>4. NoContext \in Contexts
  BY <1>2 DEF NoContext, Contexts
<1>5. NoTask \in Tasks
  BY <1>1 DEF NoTask, Tasks, Steps
<1> QED BY <1>1, <1>2, <1>3, <1>4, <1>5

\* A task that moves to another step, and a new one, are tasks.
LEMMA TaskMoves ==
    ASSUME TypeOK
    PROVE  /\ \A step \in Steps : [task EXCEPT !.at = step] \in Tasks
           /\ \A step \in Steps : \A op \in Ops :
                 [task EXCEPT !.at = step, !.op = op] \in Tasks
           /\ \A step \in Steps : \A todo \in SUBSET OpIds :
                 [task EXCEPT !.at = step, !.todo = todo] \in Tasks
           /\ \A step \in Steps : \A fixed \in 0..MaxEvents :
                 [task EXCEPT !.fixed = fixed, !.at = step] \in Tasks
BY DEF TypeOK, Tasks

\* Appending the events of an operation to a body gives a body.
LEMMA BodyType ==
    ASSUME NEW body \in Seq(1..MaxEvents), NEW op \in Ops
    PROVE  body \o Events(op) \in Seq(1..MaxEvents)
<1>1. op.lo \in 0..MaxEvents /\ op.hi \in 0..MaxEvents
  BY DEF Ops
<1>2. \A i \in 1..(op.hi - op.lo) : op.lo + i \in 1..MaxEvents
  BY <1>1
<1>3. CASE op.hi >= op.lo
  <2>1. op.hi - op.lo \in Nat
    BY <1>1, <1>3
  <2>2. Events(op) \in Seq(1..MaxEvents)
    BY <1>2, <2>1 DEF Events
  <2> QED BY <2>2
<1>4. CASE op.hi < op.lo
  <2>1. 1..(op.hi - op.lo) = {}
    BY <1>1, <1>4
  <2>2. Events(op) = <<>>
    BY <2>1 DEF Events
  <2> QED BY <2>2
<1> QED BY <1>1, <1>3, <1>4

\* What the catch blocks leave is well typed.
LEMMA ThrowType ==
    ASSUME TypeOK, NEW corrupt \in BOOLEAN, AfterThrow(corrupt)
    PROVE  row' \in Rows /\ task' = NoTask /\ task' \in Tasks /\ ctx' \in Contexts
           /\ prov' \in {"idle", "recover", "done"}
<1>1. row' \in Rows
  BY DEF TypeOK, AfterThrow, Rows
<1>2. ctx' \in Contexts
  BY Constants DEF TypeOK, AfterThrow
<1>3. prov' \in {"idle", "recover", "done"}
  BY DEF TypeOK, AfterThrow, ProvAfterError
<1> QED BY <1>1, <1>2, <1>3, Constants DEF AfterThrow

LEMMA FailsType ==
    ASSUME TypeInv, NEW corrupt \in BOOLEAN, Fails(corrupt)
    PROVE  TypeInv'
<1>1. AfterThrow(corrupt)
  BY DEF Fails
<1>2. row' \in Rows /\ task' = NoTask /\ task' \in Tasks /\ ctx' \in Contexts
      /\ prov' \in {"idle", "recover", "done"}
  BY <1>1, ThrowType DEF TypeInv
<1>3. TypeOK'
  BY <1>2 DEF TypeInv, TypeOK, Fails, files
<1>4. OpsNamed'
  BY <1>2 DEF TypeInv, OpsNamed, Fails, files, NoTask, AppendSteps
<1> QED BY <1>3, <1>4 DEF TypeInv

LEMMA FaultType ==
    ASSUME TypeOK, Fault
    PROVE  spent' \in [faults : 0..MaxFaults, crashes : 0..MaxCrashes, edits : 0..MaxEdits]
BY DEF TypeOK, Fault

LEMMA DamageType ==
    ASSUME TypeInv, Damage
    PROVE  /\ dir' \in {"whole", "partial", "gone"} /\ file' \in Files
           /\ wal' \in [OpIds -> Records]
           /\ \A id \in OpIds : wal'[id].state \in {"pending", "applied", "committed"}
                  => wal'[id].op.id = id
<1>1. CASE UNCHANGED <<dir, file, wal>>
  BY <1>1 DEF TypeInv, TypeOK, OpsNamed
<1>2. CASE /\ task.at = "put"
           /\ wal' = [wal EXCEPT ![task.op.id].state = "torn"]
           /\ UNCHANGED <<dir, file>>
  <2>1. task.op.id \in OpIds
    BY <1>2 DEF TypeInv, OpsNamed, AppendSteps
  <2>2. [wal[task.op.id] EXCEPT !.state = "torn"] \in Records
    BY <2>1 DEF TypeInv, TypeOK, Records
  <2>3. wal' \in [OpIds -> Records]
    BY <1>2, <2>2 DEF TypeInv, TypeOK
  <2>4. \A id \in OpIds : wal'[id].state \in {"pending", "applied", "committed"} => wal'[id] = wal[id]
    BY <1>2, <2>1, <2>2 DEF TypeInv, TypeOK, Records
  <2> QED BY <1>2, <2>3, <2>4 DEF TypeInv, TypeOK, OpsNamed
<1>3. CASE /\ file' = [file EXCEPT !.there = TRUE, !.torn = TRUE]
           /\ UNCHANGED <<dir, wal>>
  BY <1>3 DEF TypeInv, TypeOK, OpsNamed, Files
<1>4. CASE dir' = "partial" /\ UNCHANGED <<file, wal>>
  BY <1>4 DEF TypeInv, TypeOK, OpsNamed
<1> QED BY <1>1, <1>2, <1>3, <1>4 DEF Damage

LEMMA Moved ==
    ASSUME TypeInv, NEW step \in Steps, GoTo(step)
    PROVE  /\ task' \in Tasks /\ task'.at = step
           /\ task'.op = task.op /\ task'.call = task.call /\ task'.todo = task.todo
BY DEF TypeInv, TypeOK, GoTo, Tasks

LEMMA Begun ==
    ASSUME NEW call \in {"register", "close", "recover", "discard"}, NEW step \in Steps,
           Begin(call, step)
    PROVE  /\ task' \in Tasks /\ task'.at = step
           /\ task'.op = NoOp /\ task'.call = call /\ task'.todo = {}
BY Constants DEF Begin, NoTask, Tasks

\* A step that leaves the log and the plugin alone and moves to a step outside an
\* append keeps the names.
LEMMA NamesKept ==
    ASSUME TypeInv, task'.at \notin AppendSteps, task'.call # "append",
           task'.todo \subseteq task.todo, UNCHANGED <<wal, plugin>>
    PROVE  OpsNamed'
BY DEF TypeInv, OpsNamed, AppendSteps


(***************************************************************************)
(* DSH, the plugin and the surroundings                                    *)
(***************************************************************************)
LEMMA AttachRunType == ASSUME TypeInv, AttachRun PROVE TypeInv'
<1>1. row' \in Rows
  BY DEF AttachRun, Rows
<1>2. engine' \in Engines
  BY DEF AttachRun, TypeInv, TypeOK, Engines
<1>3. ctx' \in Contexts
  BY ZenonT(60), Constants DEF AttachRun, TypeInv, TypeOK, Contexts
<1>4. dsh' \in Processes
  BY DEF AttachRun, TypeInv, TypeOK, Processes
<1>5. spent' \in [faults : 0..MaxFaults, crashes : 0..MaxCrashes, edits : 0..MaxEdits]
  BY FaultType DEF AttachRun, TypeInv, TypeOK
<1>6. TypeOK'
  BY <1>1, <1>2, <1>3, <1>4, <1>5 DEF AttachRun, TypeInv, TypeOK, files
<1>7. OpsNamed'
  BY DEF AttachRun, TypeInv, OpsNamed, files
<1> QED BY <1>6, <1>7 DEF TypeInv

LEMMA DshType ==
    ASSUME TypeInv, Emit \/ Persist \/ StartDrain \/ Exit
    PROVE  TypeInv'
<1>1. dsh' \in Processes
  <2>1. CASE Emit
    <3>1. PICK stored \in {dsh.emitted + 1} \cup (IF Buffered THEN {dsh.log} ELSE {}) :
             dsh' = [dsh EXCEPT !.emitted = @ + 1, !.log = stored]
      BY <2>1 DEF Emit
    <3>2. dsh.emitted \in 0..MaxEvents /\ dsh.log \in 0..MaxEvents
      BY DEF TypeInv, TypeOK, Processes
    <3>3. dsh.emitted < MaxEvents
      BY <2>1 DEF Emit
    <3>4. dsh.emitted + 1 \in 0..MaxEvents
      BY <3>2, <3>3
    <3>5. stored \in 0..MaxEvents
      BY <3>1, <3>2, <3>4
    <3> QED BY <3>1, <3>4, <3>5 DEF TypeInv, TypeOK, Processes
  <2>2. CASE Persist
    BY <2>2 DEF Persist, TypeInv, TypeOK, Processes
  <2>3. CASE StartDrain
    BY <2>3 DEF StartDrain, TypeInv, TypeOK, Processes
  <2>4. CASE Exit
    BY <2>4 DEF Exit, TypeInv, TypeOK, Processes
  <2> QED BY <2>1, <2>2, <2>3, <2>4
<1>2. UNCHANGED <<files, tables, memory, task, plugin, prov, spent>>
  BY DEF Emit, Persist, StartDrain, Exit
<1>3. TypeOK'
  BY <1>1, <1>2 DEF TypeInv, TypeOK, files, tables, memory
<1>4. OpsNamed'
  BY <1>2 DEF TypeInv, OpsNamed, files
<1> QED BY <1>3, <1>4 DEF TypeInv

LEMMA DrainRunType == ASSUME TypeInv, DrainRun PROVE TypeInv'
<1>1. engine' \in Engines
  BY DEF DrainRun, TypeInv, TypeOK, Engines
<1>2. TypeOK'
  BY <1>1 DEF DrainRun, TypeInv, TypeOK, files, tables, outside
<1>3. OpsNamed'
  BY DEF DrainRun, TypeInv, OpsNamed, files, outside
<1> QED BY <1>2, <1>3 DEF TypeInv

LEMMA RestartType == ASSUME TypeInv, Restart PROVE TypeInv'
<1>1. engine' \in Engines
  BY DEF Restart, TypeInv, TypeOK, Engines
<1>2. TypeOK'
  BY <1>1 DEF Restart, TypeInv, TypeOK, files, tables, outside
<1>3. OpsNamed'
  BY DEF Restart, TypeInv, OpsNamed, files, outside
<1> QED BY <1>2, <1>3 DEF TypeInv

LEMMA CrashType == ASSUME TypeInv, Crash PROVE TypeInv'
<1>1. engine' \in Engines /\ ctx' \in Contexts /\ task' = NoTask /\ task' \in Tasks
  BY Constants DEF Crash, Engines
<1>2. spent' \in [faults : 0..MaxFaults, crashes : 0..MaxCrashes, edits : 0..MaxEdits]
  BY DEF Crash, TypeInv, TypeOK
<1>3. prov' \in {"idle", "recover", "done"}
  BY DEF Crash, TypeInv, TypeOK, ProvAfterError
<1>4. Damage
  BY DEF Crash
<1>5. TypeOK'
  BY <1>1, <1>2, <1>3, <1>4, DamageType DEF Crash, TypeInv, TypeOK, tables
<1>6. OpsNamed'
  BY <1>1, <1>4, DamageType DEF Crash, TypeInv, OpsNamed, NoTask, AppendSteps
<1> QED BY <1>5, <1>6 DEF TypeInv

LEMMA IoErrorType == ASSUME TypeInv, IoError PROVE TypeInv'
<1>1. AfterThrow(FALSE) /\ Damage /\ Fault
  BY DEF IoError
<1>2. /\ row' \in Rows /\ task' = NoTask /\ task' \in Tasks /\ ctx' \in Contexts
      /\ prov' \in {"idle", "recover", "done"}
  BY <1>1, ThrowType DEF TypeInv
<1>3. spent' \in [faults : 0..MaxFaults, crashes : 0..MaxCrashes, edits : 0..MaxEdits]
  BY <1>1, FaultType DEF TypeInv
<1>4. TypeOK'
  BY <1>1, <1>2, <1>3, DamageType DEF IoError, TypeInv, TypeOK
<1>5. OpsNamed'
  BY <1>1, <1>2, DamageType DEF IoError, TypeInv, OpsNamed, NoTask, AppendSteps
<1> QED BY <1>4, <1>5 DEF TypeInv

LEMMA SendRegisterType == ASSUME TypeInv, SendRegister PROVE TypeInv'
<1>1. PICK step \in {"done", "write"} : Begin("register", step)
  BY DEF SendRegister
<1>2. step \in Steps
  BY DEF Steps
<1>3. task' \in Tasks /\ task'.at = step /\ task'.call = "register" /\ task'.todo = {}
  BY <1>1, <1>2, Begun
<1>4. TypeOK'
  BY <1>3 DEF SendRegister, TypeInv, TypeOK, files, tables, memory, outside
<1>5. OpsNamed'
  BY <1>3, NamesKept DEF SendRegister, files, outside, AppendSteps
<1> QED BY <1>4, <1>5 DEF TypeInv

LEMMA NextBatchType ==
    ASSUME TypeInv, plugin.acked < dsh.emitted
    PROVE  NextBatch \in Ops /\ NextBatch.id \in OpIds
<1>1. CASE plugin.batch # NoOp
  BY <1>1 DEF NextBatch, TypeInv, TypeOK, OpsNamed, Queues
<1>2. CASE plugin.batch = NoOp
  <2>1. /\ plugin.acked \in 0..MaxEvents /\ plugin.logical \in Logicals /\ plugin.base \in Nat
        /\ dsh.emitted \in 0..MaxEvents
    BY DEF TypeInv, TypeOK, Queues, Processes
  <2>2. dsh.emitted \in 1..MaxEvents
    BY <2>1
  <2>3. LiveId(dsh.emitted) \in OpIds
    BY <2>2, Names
  <2> QED BY <1>2, <2>1, <2>3 DEF NextBatch, Ops
<1> QED BY <1>1, <1>2

LEMMA SendAppendType == ASSUME TypeInv, SendAppend PROVE TypeInv'
<1>1. NextBatch \in Ops /\ NextBatch.id \in OpIds
  BY NextBatchType DEF SendAppend
<1>2. plugin' \in Queues /\ plugin'.batch = NextBatch
  BY <1>1 DEF SendAppend, TypeInv, TypeOK, Queues
<1>3. /\ task' \in Tasks /\ task'.call = "append" /\ task'.at = "look"
      /\ task'.op = NextBatch /\ task'.todo = {}
  <2>1. task' = [NoTask EXCEPT !.call = "append", !.at = "look", !.op = NextBatch]
    BY DEF SendAppend
  <2>2. NoTask \in Tasks /\ NoTask.todo = {}
    BY Constants DEF NoTask
  <2>3. task' \in Tasks
    BY <1>1, <2>1, <2>2 DEF Tasks, Steps
  <2> QED BY <2>1, <2>2, <2>3 DEF NoTask
<1>4. TypeOK'
  BY <1>2, <1>3 DEF SendAppend, TypeInv, TypeOK, files, tables, memory
<1>5. OpsNamed'
  BY <1>1, <1>2, <1>3 DEF SendAppend, TypeInv, OpsNamed, AppendSteps, files
<1> QED BY <1>4, <1>5 DEF TypeInv

LEMMA CommandType == ASSUME TypeInv, Command PROVE TypeInv'
<1>1. PICK l \in Logicals : EditMetadata(l) \/ DeleteSession(l) \/ RestoreSession(l)
  BY DEF Command
<1>2. canon[l] \in Sessions
  BY DEF TypeInv, TypeOK
<1>3. /\ [canon[l] EXCEPT !.version = @ + 1] \in Sessions
      /\ [canon[l] EXCEPT !.gone = TRUE] \in Sessions
      /\ [canon[l] EXCEPT !.gone = FALSE] \in Sessions
  <2>1. canon[l].version + 1 \in Nat
    BY <1>2 DEF Sessions
  <2>2. [canon[l] EXCEPT !.version = canon[l].version + 1] \in Sessions
    BY <1>2, <2>1 DEF Sessions
  <2>3. [canon[l] EXCEPT !.gone = TRUE] \in Sessions
    BY <1>2 DEF Sessions
  <2>4. [canon[l] EXCEPT !.gone = FALSE] \in Sessions
    BY <1>2 DEF Sessions
  <2> QED BY <2>2, <2>3, <2>4
<1>4. canon' \in [Logicals -> Sessions]
  BY <1>1, <1>3 DEF EditMetadata, DeleteSession, RestoreSession, TypeInv, TypeOK
<1>5. spent' \in [faults : 0..MaxFaults, crashes : 0..MaxCrashes, edits : 0..MaxEdits]
  BY DEF Command, TypeInv, TypeOK
<1>6. TypeOK'
  BY <1>4, <1>5 DEF Command, TypeInv, TypeOK, files, memory
<1>7. OpsNamed'
  BY DEF Command, TypeInv, OpsNamed, files
<1> QED BY <1>6, <1>7 DEF TypeInv

LEMMA InitType == Init => TypeInv
<1> SUFFICES ASSUME Init PROVE TypeInv
  OBVIOUS
<1>1. PICK kind \in Kinds :
         LET known == kind # "live"
             scope == IF kind = "codex" THEN "codex" ELSE "maintenance"
             first == [NoMapping EXCEPT !.base = IF known THEN 1 ELSE 0]
         IN /\ file = [there |-> known, torn |-> FALSE, events |-> 0,
                       logical |-> Root, base |-> first.base]
            /\ mapping = first
            /\ canon = [l \in Logicals |-> IF l = Root /\ known
                            THEN [NoSession EXCEPT !.version = 1, !.scope = scope]
                            ELSE NoSession]
            /\ ctx = [NoContext EXCEPT !.where = "prepared", !.map = first,
                                       !.codex = (scope = "codex")]
            /\ plugin = [acked |-> 0, batch |-> NoOp, logical |-> Root, base |-> first.base]
  BY DEF Init
<1> DEFINE known == kind # "live"
           scope == IF kind = "codex" THEN "codex" ELSE "maintenance"
           first == [NoMapping EXCEPT !.base = IF known THEN 1 ELSE 0]
<1>2. first \in Mappings /\ first.base \in Nat
  BY Constants DEF Mappings
<1>3. file \in Files
  BY <1>1, <1>2, Names DEF Files
<1>4. \A l \in Logicals : canon[l] \in Sessions
  <2>1. NoSession \in Sessions /\ [NoSession EXCEPT !.version = 1, !.scope = scope] \in Sessions
    <3>1. <<>> \in Seq(1..MaxEvents)
      OBVIOUS
    <3>2. scope \in {"maintenance", "codex"}
      OBVIOUS
    <3>3. NoSession \in Sessions
      BY <3>1 DEF NoSession, Sessions
    <3>4. [NoSession EXCEPT !.version = 1, !.scope = scope] \in Sessions
      BY <3>1, <3>2 DEF NoSession, Sessions
    <3> QED BY <3>3, <3>4
  <2> QED BY <1>1, <2>1
<1>5. ctx \in Contexts
  BY <1>1, <1>2, Constants DEF Contexts
<1>6. plugin \in Queues
  BY <1>1, <1>2, Constants, Names DEF Queues
<1>7. /\ row \in Rows /\ dir \in {"whole", "partial", "gone"} /\ checkpoint \in BOOLEAN
      /\ wal \in [OpIds -> Records] /\ receipts \in [OpIds -> Receipts] /\ engine \in Engines
      /\ dsh \in Processes /\ prov \in {"idle", "recover", "done"}
      /\ spent \in [faults : 0..MaxFaults, crashes : 0..MaxCrashes, edits : 0..MaxEdits]
      /\ task \in Tasks
  <2>1. row \in Rows /\ dir \in {"whole", "partial", "gone"} /\ checkpoint \in BOOLEAN
    BY DEF Init, Rows
  <2>2. wal \in [OpIds -> Records] /\ receipts \in [OpIds -> Receipts]
    BY Constants DEF Init, Records
  <2>3. engine \in Engines
    BY DEF Init, Engines
  <2>4. dsh \in Processes /\ prov \in {"idle", "recover", "done"}
    BY DEF Init, Processes
  <2>5. spent \in [faults : 0..MaxFaults, crashes : 0..MaxCrashes, edits : 0..MaxEdits]
    BY DEF Init
  <2>6. task \in Tasks
    BY Constants DEF Init
  <2> QED BY <2>1, <2>2, <2>3, <2>4, <2>5, <2>6
<1>8. canon \in [Logicals -> Sessions]
  BY <1>1, <1>4
<1>9. TypeOK
  BY <1>1, <1>2, <1>3, <1>5, <1>6, <1>7, <1>8 DEF TypeOK
<1>10. OpsNamed
  BY <1>1 DEF OpsNamed, Init, NoTask, AppendSteps
<1> QED BY <1>9, <1>10 DEF TypeInv

(***************************************************************************)
(* The tasks that begin, and the steps before anything is appended         *)
(***************************************************************************)
LEMMA AskType == ASSUME TypeInv, AskClose \/ AskRecover PROVE TypeInv'
<1>1. \E call \in {"register", "close", "recover", "discard"} : Begin(call, "begin")
  BY DEF AskClose, AskRecover
<1>2. task' \in Tasks /\ task'.at = "begin" /\ task'.call # "append" /\ task'.todo = {}
  BY <1>1, Begun DEF Steps
<1>3. UNCHANGED <<files, tables, memory, outside>>
  BY DEF AskClose, AskRecover
<1>4. TypeOK'
  BY <1>2, <1>3 DEF TypeInv, TypeOK, files, tables, memory, outside
<1>5. OpsNamed'
  BY <1>2, <1>3, NamesKept DEF AppendSteps, files, outside
<1> QED BY <1>4, <1>5 DEF TypeInv

\* A call that is not an append or not at a step of one.
LEMMA NotAppending ==
    ASSUME TypeInv, task.at \notin AppendSteps \cup {"done"}
    PROVE  task.call # "append"
BY DEF TypeInv, OpsNamed

\* A step that moves a task that is not appending to another step outside an
\* append keeps the names.
LEMMA MovedOutside ==
    ASSUME TypeInv, NEW step \in Steps, GoTo(step), task.at \notin AppendSteps \cup {"done"},
           step \notin AppendSteps, UNCHANGED <<wal, plugin>>
    PROVE  OpsNamed' /\ task' \in Tasks
BY Moved, NotAppending, NamesKept

LEMMA WriteRegistrationType == ASSUME TypeInv, WriteRegistration PROVE TypeInv'
<1>1. CASE Fails(FALSE)
  BY <1>1, FailsType
<1>2. CASE /\ file' = [file EXCEPT !.there = TRUE] /\ GoTo("import")
           /\ UNCHANGED <<dir, checkpoint, wal, tables, memory, outside>>
  <2>1. file' \in Files
    BY <1>2 DEF TypeInv, TypeOK, Files
  <2>2. OpsNamed' /\ task' \in Tasks
    BY <1>2, MovedOutside DEF WriteRegistration, At, AppendSteps, Steps, outside
  <2>3. TypeOK'
    BY <1>2, <2>1, <2>2 DEF TypeInv, TypeOK, tables, memory, outside
  <2> QED BY <2>2, <2>3 DEF TypeInv
<1> QED BY <1>1, <1>2 DEF WriteRegistration

LEMMA ImportNativeType == ASSUME TypeInv, ImportNative PROVE TypeInv'
<1>1. CASE Fails(FALSE)
  BY <1>1, FailsType
<1>2. CASE /\ canon' = [canon EXCEPT ![Root].version = 1] /\ GoTo("rebase")
           /\ UNCHANGED <<files, row, mapping, receipts, memory, outside>>
  <2>1. canon[Root] \in Sessions
    BY Names DEF TypeInv, TypeOK
  <2>2. [canon[Root] EXCEPT !.version = 1] \in Sessions
    BY <2>1 DEF Sessions
  <2>3. canon' \in [Logicals -> Sessions]
    BY <1>2, <2>2 DEF TypeInv, TypeOK
  <2>4. OpsNamed' /\ task' \in Tasks
    BY <1>2, MovedOutside DEF ImportNative, At, AppendSteps, Steps, outside, files
  <2>5. TypeOK'
    BY <1>2, <2>3, <2>4 DEF TypeInv, TypeOK, files, memory, outside
  <2> QED BY <2>4, <2>5 DEF TypeInv
<1> QED BY <1>1, <1>2 DEF ImportNative

LEMMA RebaseRegistrationType == ASSUME TypeInv, RebaseRegistration PROVE TypeInv'
<1>1. canon[Root].version \in Nat
  BY Names DEF TypeInv, TypeOK, Sessions
<1>2. file' \in Files
  BY <1>1 DEF RebaseRegistration, TypeInv, TypeOK, Files
<1>3. OpsNamed' /\ task' \in Tasks
  BY MovedOutside DEF RebaseRegistration, At, AppendSteps, Steps, outside
<1>4. TypeOK'
  BY <1>2, <1>3 DEF RebaseRegistration, TypeInv, TypeOK, tables, memory, outside
<1> QED BY <1>3, <1>4 DEF TypeInv

LEMMA MapRegistrationType == ASSUME TypeInv, MapRegistration PROVE TypeInv'
<1>1. mapping' \in Mappings
  <2>1. file.base \in Nat
    BY DEF TypeInv, TypeOK, Files
  <2> QED BY <2>1, Constants DEF MapRegistration, Mappings
<1>2. ctx' \in Contexts
  BY <1>1 DEF MapRegistration, TypeInv, TypeOK, Contexts
<1>3. PICK step \in {"supersede", "done"} : GoTo(step)
  BY DEF MapRegistration
<1>4. OpsNamed' /\ task' \in Tasks
  BY <1>3, MovedOutside DEF MapRegistration, At, AppendSteps, Steps, outside, files
<1>5. TypeOK'
  BY <1>1, <1>2, <1>4 DEF MapRegistration, TypeInv, TypeOK, files, outside
<1> QED BY <1>4, <1>5 DEF TypeInv

(***************************************************************************)
(* commitProjectionAppend                                                  *)
(***************************************************************************)
LEMMA Appending ==
    ASSUME TypeInv, task.at \in AppendSteps
    PROVE  /\ task.op.id \in OpIds /\ task.op \in Ops
           /\ receipts[task.op.id] \in Receipts /\ wal[task.op.id] \in Records
BY DEF TypeInv, TypeOK, OpsNamed, Tasks

\* A step of an append keeps the names if what it leaves in the log is named.
LEMMA MovedInside ==
    ASSUME TypeInv, task.at \in AppendSteps, NEW step \in AppendSteps \cup {"done"},
           GoTo(step), UNCHANGED plugin,
           step \in {"apply", "mark"} => wal'[task.op.id].op.id = task.op.id,
           \A id \in OpIds :
              wal'[id].state \in {"pending", "applied", "committed"} \/ id \in task.todo
                  => wal'[id].op.id = id
    PROVE  OpsNamed' /\ task' \in Tasks
<1>1. step \in Steps
  BY DEF AppendSteps, Steps
<1>2. /\ task' \in Tasks /\ task'.at = step /\ task'.op = task.op
      /\ task'.call = task.call /\ task'.todo = task.todo
  BY <1>1, Moved
<1>3. task.op.id \in OpIds
  BY Appending
<1> QED BY <1>2, <1>3 DEF TypeInv, OpsNamed

LEMMA LookUpType == ASSUME TypeInv, LookUp PROVE TypeInv'
<1>1. CASE Fails(FALSE)
  BY <1>1, FailsType
<1>2. CASE \E step \in {"switch", "upsert", "done", "put", "apply", "commit"} :
              /\ GoTo(step) /\ UNCHANGED <<files, tables, memory, outside>>
              /\ step = "apply" => wal[task.op.id].state = "pending"
  <2>1. PICK step \in {"switch", "upsert", "done", "put", "apply", "commit"} :
           /\ GoTo(step) /\ UNCHANGED <<files, tables, memory, outside>>
           /\ step = "apply" => wal[task.op.id].state = "pending"
    BY <1>2
  <2>2. task.at \in AppendSteps /\ step \in AppendSteps \cup {"done"}
    BY DEF LookUp, At, AppendSteps
  <2>3. \A id \in OpIds : wal[id].state \in {"pending", "applied", "committed"} \/ id \in task.todo
                             => wal[id].op.id = id
    BY DEF TypeInv, OpsNamed
  <2>4. task.op.id \in OpIds
    BY <2>2, Appending
  <2>5. OpsNamed' /\ task' \in Tasks
    BY <2>1, <2>2, <2>3, <2>4, MovedInside DEF files, outside
  <2>6. TypeOK'
    BY <2>1, <2>5 DEF TypeInv, TypeOK, files, tables, memory, outside
  <2> QED BY <2>5, <2>6 DEF TypeInv
<1>3. ASSUME GoTo(Reconcile(task.op.id)), UNCHANGED <<files, tables, memory, outside>>
      PROVE  TypeInv'
  <2>1. Reconcile(task.op.id) \in {"switch", "upsert", "done"}
    BY DEF Reconcile
  <2> QED BY <1>2, <1>3, <2>1
<1>4. ASSUME GoTo(Resume(wal[task.op.id].state)), UNCHANGED <<files, tables, memory, outside>>
      PROVE  TypeInv'
  <2>1. /\ Resume(wal[task.op.id].state) \in {"put", "apply", "commit"}
        /\ Resume(wal[task.op.id].state) = "apply" => wal[task.op.id].state = "pending"
    BY DEF Resume
  <2> QED BY <1>2, <1>4, <2>1
<1> QED BY <1>1, <1>3, <1>4 DEF LookUp

\* The log stays named when the record of one operation is overwritten.
LEMMA LogNamed ==
    ASSUME TypeInv, NEW one \in OpIds,
           \A id \in OpIds \ {one} : wal'[id] = wal[id],
           \/ wal'[one].op.id = one
           \/ wal'[one].op = wal[one].op /\ wal'[one].state \in {wal[one].state, "none"}
    PROVE  \A id \in OpIds :
              wal'[id].state \in {"pending", "applied", "committed"} \/ id \in task.todo
                  => wal'[id].op.id = id
BY DEF TypeInv, OpsNamed

LEMMA PutPendingType == ASSUME TypeInv, PutPending PROVE TypeInv'
<1>1. task.at \in AppendSteps /\ "apply" \in AppendSteps
  BY DEF PutPending, At, AppendSteps
<1>2. task.op.id \in OpIds /\ task.op \in Ops
  BY <1>1, Appending
<1>3. [state |-> "pending", op |-> task.op] \in Records
  BY <1>2 DEF Records
<1>4. /\ wal' \in [OpIds -> Records] /\ wal'[task.op.id].op = task.op
      /\ \A id \in OpIds \ {task.op.id} : wal'[id] = wal[id]
  BY <1>2, <1>3 DEF PutPending, TypeInv, TypeOK
<1>5. \A id \in OpIds :
         wal'[id].state \in {"pending", "applied", "committed"} \/ id \in task.todo
             => wal'[id].op.id = id
  BY <1>2, <1>4, LogNamed
<1>6. OpsNamed' /\ task' \in Tasks
  BY <1>1, <1>4, <1>5, MovedInside DEF PutPending, outside
<1>7. TypeOK'
  BY <1>4, <1>6 DEF PutPending, TypeInv, TypeOK, tables, memory, outside
<1> QED BY <1>6, <1>7 DEF TypeInv

LEMMA ApplyAppendType == ASSUME TypeInv, ApplyAppend PROVE TypeInv'
<1>1. CASE Fails(FALSE)
  BY <1>1, FailsType
<1>2. CASE /\ file' = [file EXCEPT !.events = task.op.hi] /\ GoTo("mark")
           /\ UNCHANGED <<dir, checkpoint, wal, tables, memory, outside>>
  <2>1. task.at \in AppendSteps /\ task.at = "apply" /\ "mark" \in AppendSteps
    BY DEF ApplyAppend, At, AppendSteps
  <2>2. file' \in Files
    <3>1. task.op.hi \in 0..MaxEvents
      BY <2>1, Appending DEF Ops
    <3> QED BY <1>2, <3>1 DEF TypeInv, TypeOK, Files
  <2>3. wal' = wal /\ plugin' = plugin
    BY <1>2 DEF outside
  <2>4. /\ wal[task.op.id].op.id = task.op.id
        /\ \A id \in OpIds : wal[id].state \in {"pending", "applied", "committed"} \/ id \in task.todo
                                => wal[id].op.id = id
    BY <2>1 DEF TypeInv, OpsNamed
  <2>5. OpsNamed' /\ task' \in Tasks
    BY <1>2, <2>1, <2>3, <2>4, MovedInside
  <2>6. TypeOK'
    BY <1>2, <2>2, <2>5 DEF TypeInv, TypeOK, tables, memory, outside
  <2> QED BY <2>5, <2>6 DEF TypeInv
<1> QED BY <1>1, <1>2 DEF ApplyAppend

\* A step that changes only the state of the record of its operation.
LEMMA StateType ==
    ASSUME TypeInv, task.at \in AppendSteps,
           NEW state \in {"none", "torn", "pending", "applied", "committed"},
           wal' = [wal EXCEPT ![task.op.id].state = state]
    PROVE  /\ wal' \in [OpIds -> Records]
           /\ wal'[task.op.id].op = wal[task.op.id].op /\ wal'[task.op.id].state = state
           /\ \A id \in OpIds \ {task.op.id} : wal'[id] = wal[id]
<1>1. task.op.id \in OpIds /\ wal[task.op.id] \in Records
  BY Appending
<1>2. [wal[task.op.id] EXCEPT !.state = state] \in Records
  BY <1>1 DEF Records
<1> QED BY <1>1, <1>2 DEF TypeInv, TypeOK, Records

LEMMA MarkProjectionAppliedType == ASSUME TypeInv, MarkProjectionApplied PROVE TypeInv'
<1>1. task.at \in AppendSteps /\ task.at = "mark" /\ "commit" \in AppendSteps
  BY DEF MarkProjectionApplied, At, AppendSteps
<1>2. task.op.id \in OpIds /\ wal[task.op.id].op.id = task.op.id
  BY <1>1, Appending DEF TypeInv, OpsNamed
<1>3. /\ wal' \in [OpIds -> Records] /\ wal'[task.op.id].op = wal[task.op.id].op
      /\ \A id \in OpIds \ {task.op.id} : wal'[id] = wal[id]
  BY <1>1, StateType DEF MarkProjectionApplied
<1>4. \A id \in OpIds :
         wal'[id].state \in {"pending", "applied", "committed"} \/ id \in task.todo
             => wal'[id].op.id = id
  BY <1>2, <1>3, LogNamed
<1>5. OpsNamed' /\ task' \in Tasks
  BY <1>1, <1>4, MovedInside DEF MarkProjectionApplied, outside
<1>6. TypeOK'
  BY <1>3, <1>5 DEF MarkProjectionApplied, TypeInv, TypeOK, tables, memory, outside
<1> QED BY <1>5, <1>6 DEF TypeInv

\* A step of an append that leaves the log alone.
LEMMA LogKept ==
    ASSUME TypeInv, task.at \in AppendSteps, NEW step \in AppendSteps \cup {"done"},
           step \notin {"apply", "mark"}, GoTo(step), UNCHANGED <<wal, plugin>>
    PROVE  OpsNamed' /\ task' \in Tasks
<1>1. \A id \in OpIds : wal[id].state \in {"pending", "applied", "committed"} \/ id \in task.todo
                           => wal[id].op.id = id
  BY DEF TypeInv, OpsNamed
<1> QED BY <1>1, MovedInside

LEMMA AppendDshType == ASSUME TypeInv, AppendDsh PROVE TypeInv'
<1>1. task.at \in AppendSteps /\ {"switch", "upsert"} \subseteq AppendSteps
  BY DEF AppendDsh, At, AppendSteps
<1> DEFINE op == task.op
           source == canon[op.logical]
           target == IF source.scope = "codex" THEN op.id ELSE op.logical
           version == canon[target].version + 1
           session == [version |-> version, body |-> source.body \o Events(op),
                       scope |-> "maintenance", gone |-> FALSE]
           receipt == [logical |-> target, version |-> version, rev |-> op.hi]
<1>2. CASE Fails(FALSE)
  BY <1>2, FailsType
<1>3. CASE /\ canon' = [canon EXCEPT ![target] = session]
           /\ receipts' = [receipts EXCEPT ![op.id] = receipt]
           /\ GoTo(IF ctx.codex THEN "switch" ELSE "upsert")
           /\ UNCHANGED <<files, row, mapping, memory, outside>>
  <2>1. op \in Ops /\ op.id \in OpIds
    BY <1>1, Appending
  <2>2. op.logical \in Logicals /\ op.hi \in 0..MaxEvents
    BY <2>1 DEF Ops
  <2>3. target \in Logicals
    BY <2>1, <2>2, Names
  <2>4. source \in Sessions /\ canon[target] \in Sessions
    BY <2>2, <2>3 DEF TypeInv, TypeOK
  <2>5. version \in Nat
    <3> HIDE DEF target
    <3> QED BY <2>4 DEF Sessions
  <2>6. source.body \in Seq(1..MaxEvents)
    BY <2>4 DEF Sessions
  <2>7. source.body \o Events(op) \in Seq(1..MaxEvents)
    <3> HIDE DEF op, source
    <3> QED BY <2>1, <2>6, BodyType
  <2>8. session \in Sessions
    <3> HIDE DEF version, source, op
    <3> QED BY <2>5, <2>7 DEF Sessions
  <2>9. receipt \in Receipts
    <3> HIDE DEF version, target, op
    <3> QED BY <2>2, <2>3, <2>5 DEF Receipts
  <2>10. canon' \in [Logicals -> Sessions] /\ receipts' \in [OpIds -> Receipts]
    <3> HIDE DEF session, receipt, target, op
    <3> QED BY <1>3, <2>1, <2>3, <2>8, <2>9 DEF TypeInv, TypeOK
  <2>11. OpsNamed' /\ task' \in Tasks
    BY <1>1, <1>3, LogKept DEF files, outside
  <2>12. TypeOK'
    BY <1>3, <2>10, <2>11 DEF TypeInv, TypeOK, files, memory, outside
  <2> QED BY <2>11, <2>12 DEF TypeInv
<1> QED BY <1>2, <1>3 DEF AppendDsh

LEMMA SwitchLogicalSessionType == ASSUME TypeInv, SwitchLogicalSession PROVE TypeInv'
<1>1. task.at \in AppendSteps /\ "upsert" \in AppendSteps
  BY DEF SwitchLogicalSession, At, AppendSteps
<1>2. CASE Fails(FALSE)
  BY <1>2, FailsType
<1>3. CASE /\ file' = [file EXCEPT !.logical = receipts[task.op.id].logical,
                                   !.base = receipts[task.op.id].version]
           /\ GoTo("upsert")
           /\ UNCHANGED <<dir, checkpoint, wal, tables, memory, outside>>
  <2>1. receipts[task.op.id].logical \in Logicals /\ receipts[task.op.id].version \in Nat
    BY <1>1, Appending DEF Receipts
  <2>2. file' \in Files
    BY <1>3, <2>1 DEF TypeInv, TypeOK, Files
  <2>3. OpsNamed' /\ task' \in Tasks
    BY <1>1, <1>3, LogKept DEF outside
  <2>4. TypeOK'
    BY <1>3, <2>2, <2>3 DEF TypeInv, TypeOK, tables, memory, outside
  <2> QED BY <2>3, <2>4 DEF TypeInv
<1> QED BY <1>2, <1>3 DEF SwitchLogicalSession

LEMMA UpsertProjectionSessionType == ASSUME TypeInv, UpsertProjectionSession PROVE TypeInv'
<1>1. task.at \in AppendSteps /\ "settle" \in AppendSteps
  BY DEF UpsertProjectionSession, At, AppendSteps
<1>2. CASE Fails(FALSE)
  BY <1>2, FailsType
<1>3. CASE /\ mapping' = [logical |-> receipts[task.op.id].logical,
                          base |-> receipts[task.op.id].version,
                          rev |-> receipts[task.op.id].rev, last |-> task.op.id]
           /\ ctx' = [ctx EXCEPT !.map = mapping', !.codex = FALSE]
           /\ GoTo("settle")
           /\ UNCHANGED <<files, row, receipts, canon, engine, outside>>
  <2>1. receipts[task.op.id] \in Receipts /\ task.op.id \in OpIds
    BY <1>1, Appending
  <2>2. mapping' \in Mappings
    BY <1>3, <2>1 DEF Receipts, Mappings
  <2>3. ctx' \in Contexts
    BY <1>3, <2>2 DEF TypeInv, TypeOK, Contexts
  <2>4. OpsNamed' /\ task' \in Tasks
    BY <1>1, <1>3, LogKept DEF files, outside
  <2>5. TypeOK'
    BY <1>3, <2>2, <2>3, <2>4 DEF TypeInv, TypeOK, files, outside
  <2> QED BY <2>4, <2>5 DEF TypeInv
<1> QED BY <1>2, <1>3 DEF UpsertProjectionSession

LEMMA MarkCommittedType == ASSUME TypeInv, MarkCommitted PROVE TypeInv'
<1>1. task.at \in AppendSteps
  BY DEF MarkCommitted, At, AppendSteps
<1>2. task.op.id \in OpIds /\ wal[task.op.id] \in Records
  BY <1>1, Appending
<1> DEFINE state == IF wal[task.op.id].state = "applied" THEN "committed"
                    ELSE wal[task.op.id].state
<1>3. state \in {"none", "torn", "pending", "applied", "committed"}
  BY <1>2 DEF Records
<1>4. wal' = [wal EXCEPT ![task.op.id].state = state]
  BY DEF MarkCommitted
<1>5. /\ wal' \in [OpIds -> Records]
      /\ wal'[task.op.id].op = wal[task.op.id].op /\ wal'[task.op.id].state = state
      /\ \A id \in OpIds \ {task.op.id} : wal'[id] = wal[id]
  <2> HIDE DEF state
  <2> QED BY <1>1, <1>3, <1>4, StateType
<1>6. \/ wal'[task.op.id].op.id = task.op.id
      \/ wal'[task.op.id].state = wal[task.op.id].state
  BY <1>2, <1>5 DEF TypeInv, OpsNamed
<1>7. \A id \in OpIds :
         wal'[id].state \in {"pending", "applied", "committed"} \/ id \in task.todo
             => wal'[id].op.id = id
  BY <1>2, <1>5, <1>6, LogNamed
<1>8. OpsNamed' /\ task' \in Tasks
  BY <1>1, <1>7, MovedInside DEF MarkCommitted, outside
<1>9. TypeOK'
  BY <1>5, <1>8 DEF MarkCommitted, TypeInv, TypeOK, tables, memory, outside
<1> QED BY <1>8, <1>9 DEF TypeInv

LEMMA ReplyType == ASSUME TypeInv, Reply PROVE TypeInv'
<1>1. task' = NoTask /\ task' \in Tasks
  BY Constants DEF Reply
<1>2. plugin' \in Queues /\ plugin'.batch \in {plugin.batch, NoOp}
  <2>1. CASE plugin' = plugin
    BY <2>1 DEF TypeInv, TypeOK
  <2>2. CASE plugin' = [plugin EXCEPT !.logical = ctx.map.logical, !.base = ctx.map.base]
    <3>1. ctx.map.logical \in Logicals /\ ctx.map.base \in Nat
      BY DEF TypeInv, TypeOK, Contexts, Mappings
    <3> QED BY <2>2, <3>1 DEF TypeInv, TypeOK, Queues
  <2>3. CASE /\ task.call = "append"
             /\ plugin' = [acked |-> AckedBy(task.op), batch |-> NoOp,
                           logical |-> receipts[task.op.id].logical,
                           base |-> receipts[task.op.id].version]
    <3>1. task.op \in Ops /\ task.op.id \in OpIds
      BY <2>3 DEF TypeInv, TypeOK, OpsNamed, Tasks
    <3>2. receipts[task.op.id] \in Receipts
      BY <3>1 DEF TypeInv, TypeOK
    <3>3. AckedBy(task.op) \in 0..MaxEvents
      BY <3>1 DEF AckedBy, Ops
    <3> QED BY <2>3, <3>2, <3>3, Constants DEF Receipts, Queues
  <2> QED BY <2>1, <2>2, <2>3 DEF Reply
<1>3. TypeOK'
  BY <1>1, <1>2 DEF Reply, TypeInv, TypeOK, files, tables, memory
<1>4. OpsNamed'
  BY <1>1, <1>2 DEF Reply, TypeInv, OpsNamed, AppendSteps, NoTask, files
<1> QED BY <1>3, <1>4 DEF TypeInv

LEMMA NextRecordType == ASSUME TypeInv, NextRecord PROVE TypeInv'
<1>1. task.todo \ {task.op.id} \in SUBSET OpIds /\ task.todo \ {task.op.id} \subseteq task.todo
  BY DEF TypeInv, TypeOK, Tasks
<1>2. /\ task' \in Tasks /\ task'.at = "replay" /\ task'.call = task.call
      /\ task'.todo \subseteq task.todo
  BY <1>1 DEF NextRecord, TypeInv, TypeOK, Tasks, Steps
<1>3. OpsNamed'
  BY <1>2, NamesKept DEF NextRecord, AppendSteps, files, outside
<1>4. TypeOK'
  BY <1>2 DEF NextRecord, TypeInv, TypeOK, files, tables, memory, outside
<1> QED BY <1>3, <1>4 DEF TypeInv

(***************************************************************************)
(* Close and recovery                                                      *)
(***************************************************************************)
LEMMA BeginCloseType == ASSUME TypeInv, BeginClose PROVE TypeInv'
<1>1. CASE Fails(FALSE)
  BY <1>1, FailsType
<1>2. CASE /\ row' = "draining" /\ ctx' = [ctx EXCEPT !.accepting = FALSE] /\ GoTo("list")
           /\ UNCHANGED <<files, mapping, receipts, canon, engine, outside>>
  <2>1. row' \in Rows /\ ctx' \in Contexts
    BY <1>2 DEF TypeInv, TypeOK, Rows, Contexts
  <2>2. OpsNamed' /\ task' \in Tasks
    BY <1>2, MovedOutside DEF BeginClose, At, AppendSteps, Steps, files, outside
  <2>3. TypeOK'
    BY <1>2, <2>1, <2>2 DEF TypeInv, TypeOK, files, outside
  <2> QED BY <2>2, <2>3 DEF TypeInv
<1> QED BY <1>1, <1>2 DEF BeginClose

LEMMA BeginRecoverType == ASSUME TypeInv, BeginRecover PROVE TypeInv'
<1>1. row' \in Rows /\ ctx' \in Contexts
  BY DEF BeginRecover, TypeInv, TypeOK, Rows, Contexts
<1>2. PICK step \in {"checkpoint", "supersede", "restore"} : GoTo(step)
  BY DEF BeginRecover
<1>3. OpsNamed' /\ task' \in Tasks
  BY <1>2, MovedOutside DEF BeginRecover, At, AppendSteps, Steps, files, outside
<1>4. TypeOK'
  BY <1>1, <1>3 DEF BeginRecover, TypeInv, TypeOK, files, outside
<1> QED BY <1>3, <1>4 DEF TypeInv

LEMMA RestoreContextType == ASSUME TypeInv, RestoreContext PROVE TypeInv'
<1> DEFINE session == canon[mapping.logical]
           held == Len(session.body)
           fresh == mapping.last = Root /\ ~session.gone
           corrupt == /\ Known(mapping)
                      /\ \/ session.gone /\ (file.logical # mapping.logical \/ file.events < mapping.rev)
                         \/ fresh /\ (file.events < held \/ held < mapping.rev)
           corrected == Known(mapping) /\ fresh /\ held > mapping.rev
           fixed == IF corrected THEN held ELSE 0
           step == IF ~Known(mapping) /\ file.there THEN "adopt" ELSE "supersede"
<1>1. CASE Fails(TRUE)
  BY <1>1, FailsType
<1>2. CASE /\ ~corrupt
           /\ mapping' = IF corrected THEN [mapping EXCEPT !.rev = held] ELSE mapping
           /\ ctx' = [where |-> "active", accepting |-> FALSE, bridge |-> TRUE,
                      codex |-> Known(mapping) /\ session.scope = "codex" /\ ~session.gone,
                      map |-> mapping']
           /\ task' = [task EXCEPT !.fixed = fixed, !.at = step]
           /\ UNCHANGED <<files, row, receipts, canon, engine, outside>>
  <2>1. session \in Sessions
    BY DEF TypeInv, TypeOK, Mappings
  <2>2. held \in Nat
    <3> HIDE DEF session
    <3> QED BY <2>1 DEF Sessions
  <2>3. corrected => held \in 0..MaxEvents
    <3>1. file.events \in 0..MaxEvents
      BY DEF TypeInv, TypeOK, Files
    <3>2. corrected => ~(file.events < held)
      BY <1>2
    <3> HIDE DEF held, corrected
    <3> QED BY <2>2, <3>1, <3>2
  <2>4. mapping' \in Mappings
    <3> HIDE DEF held, corrected
    <3> QED BY <1>2, <2>3 DEF TypeInv, TypeOK, Mappings
  <2>5. ctx' \in Contexts
    BY <1>2, <2>4 DEF Contexts, Known
  <2>6. fixed \in 0..MaxEvents
    <3> HIDE DEF held, corrected
    <3> QED BY <2>3
  <2>7. step \in Steps /\ step \notin AppendSteps
    BY DEF Steps, AppendSteps
  <2>8. /\ task' \in Tasks /\ task'.at = step
        /\ task'.call = task.call /\ task'.todo = task.todo
    <3> HIDE DEF fixed, step
    <3> QED BY <1>2, <2>6, <2>7 DEF TypeInv, TypeOK, Tasks
  <2>9. task.call # "append"
    BY NotAppending DEF RestoreContext, At, AppendSteps
  <2>10. OpsNamed'
    <3> HIDE DEF step
    <3> QED BY <1>2, <2>7, <2>8, <2>9, NamesKept DEF files, outside
  <2>11. TypeOK'
    BY <1>2, <2>4, <2>5, <2>8 DEF TypeInv, TypeOK, files, outside
  <2> QED BY <2>10, <2>11 DEF TypeInv
<1> QED BY <1>1, <1>2 DEF RestoreContext

LEMMA AdoptRegistrationType == ASSUME TypeInv, AdoptRegistration PROVE TypeInv'
<1>1. CASE Fails(TRUE)
  BY <1>1, FailsType
<1>2. CASE GoTo("import") /\ UNCHANGED <<files, tables, memory, outside>>
  <2>1. OpsNamed' /\ task' \in Tasks
    BY <1>2, MovedOutside DEF AdoptRegistration, At, AppendSteps, Steps, files, outside
  <2>2. TypeOK'
    BY <1>2, <2>1 DEF TypeInv, TypeOK, files, tables, memory, outside
  <2> QED BY <2>1, <2>2 DEF TypeInv
<1> QED BY <1>1, <1>2 DEF AdoptRegistration

\* A listing of the pending records holds named ones only.
LEMMA ListingType ==
    ASSUME TypeInv, task.at \notin AppendSteps \cup {"done"},
           task' = [task EXCEPT !.at = "replay", !.todo = Pending],
           UNCHANGED <<wal, plugin>>
    PROVE  OpsNamed' /\ task' \in Tasks
<1>1. Pending \in SUBSET OpIds /\ \A id \in Pending : wal[id].op.id = id
  BY DEF Pending, TypeInv, OpsNamed
<1>2. /\ task' \in Tasks /\ task'.at = "replay" /\ task'.call = task.call
      /\ task'.todo = Pending
  <2> HIDE DEF Pending
  <2> QED BY <1>1 DEF TypeInv, TypeOK, Tasks, Steps
<1> QED BY <1>1, <1>2, NotAppending DEF TypeInv, OpsNamed, AppendSteps

LEMMA SupersedeStalePendingType == ASSUME TypeInv, SupersedeStalePending PROVE TypeInv'
<1>1. task.at \notin AppendSteps \cup {"done"}
  BY DEF SupersedeStalePending, At, AppendSteps
<1>2. UNCHANGED <<dir, checkpoint, file, tables, memory, outside>>
  BY DEF SupersedeStalePending
<1>3. CASE /\ \E id \in Stale : wal' = [wal EXCEPT ![id].state = "none"]
           /\ UNCHANGED task
  <2>1. PICK id \in Stale : wal' = [wal EXCEPT ![id].state = "none"]
    BY <1>3
  <2>2. id \in OpIds
    BY DEF Stale, Pending
  <2>3. [wal[id] EXCEPT !.state = "none"] \in Records
    BY <2>2 DEF TypeInv, TypeOK, Records
  <2>4. /\ wal' \in [OpIds -> Records] /\ wal'[id].op = wal[id].op /\ wal'[id].state = "none"
        /\ \A other \in OpIds \ {id} : wal'[other] = wal[other]
    BY <2>1, <2>2, <2>3 DEF TypeInv, TypeOK, Records
  <2>5. \A other \in OpIds :
           wal'[other].state \in {"pending", "applied", "committed"} \/ other \in task.todo
               => wal'[other].op.id = other
    BY <2>2, <2>4, LogNamed
  <2>6. OpsNamed'
    BY <1>1, <1>2, <1>3, <2>5 DEF TypeInv, OpsNamed, AppendSteps, outside
  <2>7. TypeOK'
    BY <1>2, <1>3, <2>4 DEF TypeInv, TypeOK, tables, memory, outside
  <2> QED BY <2>6, <2>7 DEF TypeInv
<1>4. CASE /\ task' = [task EXCEPT !.at = "replay", !.todo = Pending]
           /\ UNCHANGED wal
  <2>1. OpsNamed' /\ task' \in Tasks
    BY <1>1, <1>2, <1>4, ListingType DEF outside
  <2>2. TypeOK'
    BY <1>2, <1>4, <2>1 DEF TypeInv, TypeOK, tables, memory, outside
  <2> QED BY <2>1, <2>2 DEF TypeInv
<1> QED BY <1>3, <1>4 DEF SupersedeStalePending

LEMMA ListPendingType == ASSUME TypeInv, ListPending PROVE TypeInv'
<1>1. OpsNamed' /\ task' \in Tasks
  BY ListingType DEF ListPending, At, AppendSteps, files, outside
<1>2. TypeOK'
  BY <1>1 DEF ListPending, TypeInv, TypeOK, files, tables, memory, outside
<1> QED BY <1>1, <1>2 DEF TypeInv

LEMMA ListTornType == ASSUME TypeInv, ListTorn PROVE TypeInv'
BY FailsType DEF ListTorn

\* Recovery and close take up an operation of the log or of the tail.
LEMMA LooksUp ==
    ASSUME TypeInv, task.at \notin AppendSteps \cup {"done"}, NEW op \in Ops, op.id \in OpIds,
           task' = [task EXCEPT !.at = "look", !.op = op],
           UNCHANGED <<wal, plugin>>
    PROVE  OpsNamed' /\ task' \in Tasks
<1>1. /\ task' \in Tasks /\ task'.at = "look" /\ task'.op = op
      /\ task'.call = task.call /\ task'.todo = task.todo
  BY DEF TypeInv, TypeOK, Tasks, Steps
<1> QED BY <1>1, NotAppending DEF TypeInv, OpsNamed, AppendSteps

LEMMA ReplayPendingType == ASSUME TypeInv, ReplayPending PROVE TypeInv'
<1>1. task.at \notin AppendSteps \cup {"done"}
  BY DEF ReplayPending, At, AppendSteps
<1>2. CASE Fails(FALSE)
  BY <1>2, FailsType
<1>3. CASE /\ \E step \in {"tail", "checkpoint"} : GoTo(step)
           /\ UNCHANGED <<files, tables, memory, outside>>
  <2>1. OpsNamed' /\ task' \in Tasks
    BY <1>1, <1>3, MovedOutside DEF AppendSteps, Steps, files, outside
  <2>2. TypeOK'
    BY <1>3, <2>1 DEF TypeInv, TypeOK, files, tables, memory, outside
  <2> QED BY <2>1, <2>2 DEF TypeInv
<1>4. CASE \E id \in task.todo :
              /\ task' = [task EXCEPT !.at = "look", !.op = wal[id].op]
              /\ UNCHANGED <<files, tables, memory, outside>>
  <2>1. PICK id \in task.todo :
              /\ task' = [task EXCEPT !.at = "look", !.op = wal[id].op]
              /\ UNCHANGED <<files, tables, memory, outside>>
    BY <1>4
  <2>2. id \in OpIds
    BY DEF TypeInv, TypeOK, Tasks
  <2>3. wal[id].op \in Ops /\ wal[id].op.id = id
    BY <2>2 DEF TypeInv, TypeOK, OpsNamed, Records
  <2>4. OpsNamed' /\ task' \in Tasks
    BY <1>1, <2>1, <2>2, <2>3, LooksUp DEF files, outside
  <2>5. TypeOK'
    BY <2>1, <2>4 DEF TypeInv, TypeOK, files, tables, memory, outside
  <2> QED BY <2>4, <2>5 DEF TypeInv
<1> QED BY <1>2, <1>3, <1>4 DEF ReplayPending

LEMMA RecoverTailType == ASSUME TypeInv, RecoverTail PROVE TypeInv'
<1> DEFINE rev == ctx.map.rev
           op == [id |-> TailId(rev, dsh.log), lo |-> rev, hi |-> dsh.log,
                  logical |-> ctx.map.logical, base |-> ctx.map.base]
<1>1. task.at \notin AppendSteps \cup {"done"}
  BY DEF RecoverTail, At, AppendSteps
<1>2. CASE Fails(FALSE) \/ Fails(TRUE)
  BY <1>2, FailsType
<1>3. CASE /\ dsh.log <= rev
           /\ task' = [task EXCEPT !.at = "checkpoint"]
           /\ UNCHANGED <<files, tables, memory, outside>>
  <2>1. GoTo("checkpoint")
    BY <1>3 DEF GoTo
  <2>2. OpsNamed' /\ task' \in Tasks
    BY <1>1, <1>3, <2>1, MovedOutside DEF AppendSteps, Steps, files, outside
  <2>3. TypeOK'
    BY <1>3, <2>2 DEF TypeInv, TypeOK, files, tables, memory, outside
  <2> QED BY <2>2, <2>3 DEF TypeInv
<1>4. CASE /\ ~(dsh.log <= rev)
           /\ task' = [task EXCEPT !.at = "look", !.op = op]
           /\ UNCHANGED <<files, tables, memory, outside>>
  <2>1. /\ rev \in 0..MaxEvents /\ dsh.log \in 0..MaxEvents
        /\ ctx.map.logical \in Logicals /\ ctx.map.base \in Nat
    BY DEF TypeInv, TypeOK, Contexts, Mappings, Processes
  <2>2. dsh.log \in 1..MaxEvents
    BY <1>4, <2>1
  <2>3. op \in Ops /\ op.id \in OpIds
    <3> HIDE DEF rev
    <3> QED BY <2>1, <2>2, Names DEF Ops
  <2>4. OpsNamed' /\ task' \in Tasks
    <3> HIDE DEF op
    <3> QED BY <1>1, <1>4, <2>3, LooksUp DEF files, outside
  <2>5. TypeOK'
    BY <1>4, <2>4 DEF TypeInv, TypeOK, files, tables, memory, outside
  <2> QED BY <2>4, <2>5 DEF TypeInv
<1> QED BY <1>2, <1>3, <1>4 DEF RecoverTail

LEMMA CheckpointAndDetachType == ASSUME TypeInv, CheckpointAndDetach PROVE TypeInv'
<1>1. CASE Fails(TRUE)
  BY <1>1, FailsType
<1>2. CASE /\ checkpoint' = TRUE
           /\ UNCHANGED <<dir, file, wal, mapping, receipts, canon, engine, dsh, plugin, spent>>
           /\ ctx' = [ctx EXCEPT !.bridge = FALSE]
           /\ GoTo("remove")
           /\ UNCHANGED <<row, prov>>
  <2>1. ctx' \in Contexts
    BY <1>2 DEF TypeInv, TypeOK, Contexts
  <2>2. OpsNamed' /\ task' \in Tasks
    BY <1>2, MovedOutside DEF CheckpointAndDetach, At, AppendSteps, Steps
  <2>3. TypeOK'
    BY <1>2, <2>1, <2>2 DEF TypeInv, TypeOK
  <2> QED BY <2>2, <2>3 DEF TypeInv
<1>3. CASE /\ checkpoint' = TRUE
           /\ UNCHANGED <<dir, file, wal, mapping, receipts, canon, engine, dsh, plugin, spent>>
           /\ AfterThrow(FALSE)
  <2>1. /\ row' \in Rows /\ task' = NoTask /\ task' \in Tasks /\ ctx' \in Contexts
        /\ prov' \in {"idle", "recover", "done"}
    BY <1>3, ThrowType DEF TypeInv
  <2>2. OpsNamed'
    BY <1>3, <2>1, NamesKept DEF NoTask, AppendSteps
  <2>3. TypeOK'
    BY <1>3, <2>1 DEF TypeInv, TypeOK
  <2> QED BY <2>2, <2>3 DEF TypeInv
<1> QED BY <1>1, <1>2, <1>3 DEF CheckpointAndDetach

LEMMA RemoveProjectionRunType == ASSUME TypeInv, RemoveProjectionRun PROVE TypeInv'
<1>1. CASE Fails(FALSE)
  BY <1>1, FailsType
<1>2. CASE /\ dir' = "gone" /\ GoTo("final")
           /\ UNCHANGED <<checkpoint, file, wal, tables, memory, outside>>
  <2>1. OpsNamed' /\ task' \in Tasks
    BY <1>2, MovedOutside DEF RemoveProjectionRun, At, AppendSteps, Steps, outside
  <2>2. TypeOK'
    BY <1>2, <2>1 DEF TypeInv, TypeOK, tables, memory, outside
  <2> QED BY <2>1, <2>2 DEF TypeInv
<1> QED BY <1>1, <1>2 DEF RemoveProjectionRun

LEMMA FinishRunType == ASSUME TypeInv, FinishRun PROVE TypeInv'
<1>1. task' = NoTask /\ task' \in Tasks /\ ctx' \in Contexts
  BY Constants DEF FinishRun
<1>2. row' \in Rows /\ engine' \in Engines
  BY DEF FinishRun, TypeInv, TypeOK, Rows, Engines
<1>3. spent' \in [faults : 0..MaxFaults, crashes : 0..MaxCrashes, edits : 0..MaxEdits]
  BY FaultType DEF FinishRun, TypeInv, TypeOK
<1>4. prov' \in {"idle", "recover", "done"}
  BY DEF FinishRun, TypeInv, TypeOK, ProvAfterError
<1>5. TypeOK'
  BY <1>1, <1>2, <1>3, <1>4 DEF FinishRun, TypeInv, TypeOK, files
<1>6. OpsNamed'
  BY <1>1, NamesKept DEF FinishRun, NoTask, AppendSteps, files
<1> QED BY <1>5, <1>6 DEF TypeInv

(***************************************************************************)
(* The theorem                                                             *)
(***************************************************************************)
LEMMA TypeStep == TypeInv /\ [Next]_vars => TypeInv'
<1> SUFFICES ASSUME TypeInv, [Next]_vars PROVE TypeInv'
  OBVIOUS
<1>1. CASE EngineStep
  BY <1>1, WriteRegistrationType, ImportNativeType, RebaseRegistrationType, MapRegistrationType,
     LookUpType, PutPendingType, ApplyAppendType, MarkProjectionAppliedType, AppendDshType,
     SwitchLogicalSessionType, UpsertProjectionSessionType, MarkCommittedType, ReplyType,
     NextRecordType, BeginCloseType, BeginRecoverType, RestoreContextType,
     AdoptRegistrationType, SupersedeStalePendingType, ListPendingType, ListTornType,
     ReplayPendingType, RecoverTailType, CheckpointAndDetachType, RemoveProjectionRunType,
     FinishRunType
     DEF EngineStep
<1>2. CASE IoError \/ Crash \/ Restart
  BY <1>2, IoErrorType, CrashType, RestartType
<1>3. CASE AttachRun \/ Emit \/ Persist \/ StartDrain \/ DrainRun \/ Exit
  BY <1>3, AttachRunType, DshType, DrainRunType
<1>4. CASE SendRegister \/ SendAppend \/ AskClose \/ AskRecover \/ Command
  BY <1>4, SendRegisterType, SendAppendType, AskType, CommandType
<1>5. CASE UNCHANGED vars
  <2>1. TypeOK'
    BY <1>5 DEF TypeInv, TypeOK, vars
  <2>2. OpsNamed'
    BY <1>5 DEF TypeInv, OpsNamed, vars
  <2> QED BY <2>1, <2>2 DEF TypeInv
<1> QED BY <1>1, <1>2, <1>3, <1>4, <1>5 DEF Next

\* Whatever dies, fails or is commanded, the run, its files, its tables and its
\* processes keep values of their types: no revision passes the events DSH
\* produced, and no record, mapping or receipt names an unknown operation.
THEOREM TypeCorrect == Spec => []TypeOK
<1>1. TypeInv => TypeOK
  BY DEF TypeInv
<1> QED BY <1>1, InitType, TypeStep, PTL DEF Spec
=============================================================================
