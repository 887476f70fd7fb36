---------------------------- MODULE Services_proofs ----------------------------
(***************************************************************************)
(* What holds of the protocols around a state root for any number of       *)
(* processes, requests, threads, sessions and scanners and any bounds: one *)
(* process writes (WriteOwner), the pointer names a complete database      *)
(* (Candidates), a request makes one thread (Continuation), what a scan    *)
(* passes over is in the graph (Synchronisation), the retained projection  *)
(* is as current as its cursor says (ProjectionCache), and what a run's    *)
(* plugin copies and sends is whole (Capture).                             *)
(***************************************************************************)
EXTENDS MCServices, Sequences, FiniteSetTheorems, TLAPS

-----------------------------------------------------------------------------
(* The owner of the state root.                                            *)

\* From the creation of the record to its removal it is its process's, and only death leaves it.
Holding == {"write", "recheck", "owns", "serves", "closing"}

HolderIsOwner == \A p \in O!Procs :
    /\ pc[p] \in Holding => owner.by = p
    /\ pc[p] \in Holding \ {"write"} => owner.written

OwnerHolds ==
    /\ owner.by # None => pc[owner.by] \in Holding \cup {"dead"}
    /\ owner.by = None => ~owner.written

\* Behind the gate there is its process only.
GateIsHeld == \A p \in O!Procs :
    pc[p] \in {"verify", "moveConnection", "moveOwner", "openGate"} => gate = p

\* A connection is that of a record whose process serves, or died while it did.
ConnectionServes ==
    connection # None => owner.by = connection /\ pc[connection] \in {"serves", "dead"}

\* The record that is moved away is the one inspected, and its process is dead.
MovesTheDead == \A p \in O!Procs :
    /\ pc[p] \in {"moveConnection", "moveOwner"} =>
          owner.by = expected[p] /\ owner.by # None /\ pc[owner.by] = "dead"
    /\ pc[p] = "moveOwner" => connection = None

OwnerIInv == O!TypeOK /\ HolderIsOwner /\ OwnerHolds /\ GateIsHeld /\ ConnectionServes /\ MovesTheDead

LEMMA OwnerInit == O!Init => OwnerIInv
  BY OwnerAssumption
  DEF O!Init, OwnerIInv, O!TypeOK, O!NoOwner, O!Points, O!Procs, Holding, HolderIsOwner, OwnerHolds,
      GateIsHeld, ConnectionServes, MovesTheDead

LEMMA OwnerStep == OwnerIInv /\ [O!Next]_ownership => OwnerIInv'
<1> SUFFICES ASSUME OwnerIInv, [O!Next]_ownership PROVE OwnerIInv'
  OBVIOUS
<1> USE OwnerAssumption
    DEF OwnerIInv, O!TypeOK, O!NoOwner, O!Points, O!Procs, Holding, HolderIsOwner, OwnerHolds,
        GateIsHeld, ConnectionServes, MovesTheDead, O!Goes, O!At
<1>1. CASE UNCHANGED ownership
  BY <1>1 DEF ownership
<1>2. ASSUME NEW p \in O!Procs, O!Launch(p) PROVE OwnerIInv'
  BY <1>2 DEF O!Launch
<1>3. ASSUME NEW p \in O!Procs, O!Inspect(p) PROVE OwnerIInv'
  BY <1>3 DEF O!Inspect
<1>4. ASSUME NEW p \in O!Procs, O!TakeGate(p) PROVE OwnerIInv'
  BY <1>4 DEF O!TakeGate
<1>5. ASSUME NEW p \in O!Procs, O!Verify(p) PROVE OwnerIInv'
  BY <1>5 DEF O!Verify, O!Recoverable, O!Alive
<1>6. ASSUME NEW p \in O!Procs, O!MoveConnection(p) PROVE OwnerIInv'
  BY <1>6 DEF O!MoveConnection
<1>7. ASSUME NEW p \in O!Procs, O!MoveOwner(p) PROVE OwnerIInv'
  BY <1>7 DEF O!MoveOwner
<1>8. ASSUME NEW p \in O!Procs, O!OpenGate(p) PROVE OwnerIInv'
  BY <1>8 DEF O!OpenGate
<1>9. ASSUME NEW p \in O!Procs, O!CheckGate(p) PROVE OwnerIInv'
  BY <1>9 DEF O!CheckGate
<1>10. ASSUME NEW p \in O!Procs, O!CheckConnection(p) PROVE OwnerIInv'
  BY <1>10 DEF O!CheckConnection
<1>11. ASSUME NEW p \in O!Procs, O!Create(p) PROVE OwnerIInv'
  <2>1. CASE owner.by = None
    <3>1. /\ owner' = [by |-> p, written |-> FALSE] /\ pc[p] = "create" /\ pc' = [pc EXCEPT ![p] = "write"]
          /\ UNCHANGED <<gate, connection, expected>> /\ p # None
      BY <1>11, <2>1 DEF O!Create
    <3>2. \A q \in O!Procs \ {p} : pc'[q] = pc[q] /\ pc[q] \notin Holding
      BY <2>1, <3>1
    <3>3. connection = None /\ \A q \in O!Procs : pc[q] \notin {"moveConnection", "moveOwner"}
      BY <2>1
    <3> QED BY <3>1, <3>2, <3>3
  <2>2. CASE owner.by # None
    BY <1>11, <2>2 DEF O!Create
  <2> QED BY <2>1, <2>2
<1>12. ASSUME NEW p \in O!Procs, O!Write(p) PROVE OwnerIInv'
  <2>1. owner.by = p /\ owner' = [by |-> p, written |-> TRUE]
    BY <1>12 DEF O!Write
  <2> QED BY <1>12, <2>1 DEF O!Write
<1>13. ASSUME NEW p \in O!Procs, O!Recheck(p) PROVE OwnerIInv'
  <2>1. owner.by = p /\ \A q \in O!Procs \ {p} : pc[q] \notin Holding
    BY <1>13 DEF O!Recheck
  <2>2. connection = None /\ \A q \in O!Procs : pc[q] \notin {"moveConnection", "moveOwner"}
    BY <1>13, <2>1 DEF O!Recheck
  <2>3. CASE gate # None
    <3>1. /\ owner' = [by |-> None, written |-> FALSE] /\ pc' = [pc EXCEPT ![p] = "refused"]
          /\ UNCHANGED <<gate, connection, expected>> /\ pc[p] = "recheck"
      BY <1>13, <2>3 DEF O!Recheck
    <3> QED BY <2>1, <2>2, <3>1
  <2>4. CASE gate = None
    BY <1>13, <2>1, <2>2, <2>4 DEF O!Recheck
  <2> QED BY <2>3, <2>4
<1>14. ASSUME NEW p \in O!Procs, O!Serve(p) PROVE OwnerIInv'
  BY <1>14 DEF O!Serve
<1>15. ASSUME NEW p \in O!Procs, O!StopServing(p) PROVE OwnerIInv'
  BY <1>15 DEF O!StopServing
<1>16. ASSUME NEW p \in O!Procs, O!Close(p) PROVE OwnerIInv'
  BY <1>16 DEF O!Close
<1>17. ASSUME NEW p \in O!Procs, O!Die(p) PROVE OwnerIInv'
  BY <1>17 DEF O!Die, O!Alive
<1>18. CASE O!Done
  BY <1>18 DEF O!Done, O!vars
<1> QED
  BY <1>1, <1>2, <1>3, <1>4, <1>5, <1>6, <1>7, <1>8, <1>9, <1>10, <1>11, <1>12, <1>13, <1>14, <1>15,
     <1>16, <1>17, <1>18 DEF O!Next

\* One process writes to a state root: what took it for its own is in its record, a connection has
\* its owner's record, and a recovery moves away only the dead owner's record it inspected
\* (write-coordinator.ts, http/server.ts).
THEOREM OwnerSafe == Spec => []OwnerInv
<1>1. Init => OwnerIInv
  BY OwnerInit DEF Init
<1>2. OwnerIInv /\ [Next]_<<focus, ownership, databases, continuation, projection, scans, capture>> => OwnerIInv'
  <2> SUFFICES ASSUME OwnerIInv, [Next]_<<focus, ownership, databases, continuation, projection, scans, capture>>
               PROVE [O!Next]_ownership
    BY OwnerStep
  <2> QED BY DEF Next
<1>3. OwnerIInv => OwnerInv
  BY DEF OwnerIInv, OwnerInv, O!OneWriter, O!ConnectionCovered, O!RecoversInspected, O!TypeOK, O!NoOwner, O!Procs,
         Holding, HolderIsOwner, OwnerHolds, GateIsHeld, ConnectionServes, MovesTheDead
<1> QED BY <1>1, <1>2, <1>3, PTL DEF Spec

-----------------------------------------------------------------------------
(* One thread for a request.                                               *)

\* A thread of Codex is one a request made, and a request that was not begun made none.
MadeThreads == \A t \in Threads :
    /\ maker[t] = C!NoOne <=> codex[t] = "nothing"
    /\ maker[t] # C!NoOne => job[maker[t]].status \notin {"absent", "prepared"}

\* A thread in a row is the request's, its job has not failed, and one is in no row that is not begun.
RowsAreTrue == \A r \in Requests :
    /\ job[r].thread # C!NoThread => maker[job[r].thread] = r
    /\ job[r].status \in {"absent", "prepared", "creating", "failed"} => job[r].thread = C!NoThread
    /\ job[r].status = "completed" =>
          job[r].thread # C!NoThread /\ codex[job[r].thread] = "turned" /\ bound[job[r].thread] = r

\* The status of the row at the points where the code does not expect one.
StatusFits == call # C!Idle =>
    /\ call.at = "probe" /\ call.what = "create" => job[call.of].status = "prepared"
    /\ call.at = "probe" /\ call.what = "recover" => job[call.of].status \notin {"absent", "completed", "failed"}
    /\ call.at = "verify" => job[call.of].status = "verifying"
    /\ call.at = "catch" => job[call.of].status \notin {"absent", "prepared", "completed", "failed"}
    /\ call.what = "recover" => call.at \in {"find", "probe", "verify", "bind", "complete", "catch"}

\* Which thread an operation knows: none before it is made, then the one its request made, which is
\* in the row but for the moment after it was made.
ThreadFits == call # C!Idle =>
    /\ call.what = "create" /\ call.at \in {"probe", "creating", "start"} =>
          \A t \in Threads : maker[t] # call.of
    /\ call.what = "create" /\ call.at \in {"find", "probe", "creating", "start"} => call.thread = C!NoThread
    /\ call.what = "recover" /\ call.at = "probe" => call.thread # C!NoThread
    /\ call.at \in {"record", "turn", "turned", "verify", "bind", "complete"} =>
          call.thread # C!NoThread /\ maker[call.thread] = call.of
    /\ call.at \in {"start", "turn", "turned", "verify", "bind", "complete", "catch"} =>
          job[call.of].thread = call.thread
    /\ call.what = "recover" /\ call.at = "probe" => job[call.of].thread = call.thread
    /\ call.at \in {"bind", "complete"} => codex[call.thread] = "turned"
    /\ call.at = "complete" => bound[call.thread] = call.of

ThreadIInv == C!TypeOK /\ C!OneThread /\ MadeThreads /\ RowsAreTrue /\ StatusFits /\ ThreadFits

LEMMA ThreadInit == C!Init => ThreadIInv
  BY ContinuationAssumption
  DEF C!Init, ThreadIInv, C!TypeOK, C!OneThread, MadeThreads, RowsAreTrue, StatusFits, ThreadFits,
      C!Idle, C!NoThread, C!NoOne, C!Own, C!Statuses, C!Points, C!Expected

\* A step keeps the invariant, and takes nothing back that a row says.
LEMMA ThreadStep == ThreadIInv /\ [C!Next]_continuation => ThreadIInv' /\ C!RowsHold
<1> SUFFICES ASSUME ThreadIInv, [C!Next]_continuation PROVE ThreadIInv' /\ C!RowsHold
  OBVIOUS
<1> USE ContinuationAssumption
    DEF ThreadIInv, C!TypeOK, C!OneThread, MadeThreads, RowsAreTrue, StatusFits, ThreadFits,
      C!Idle, C!NoThread, C!NoOne, C!Own, C!Statuses, C!Points, C!Expected, C!RowsHold, C!ThreadKept,
      C!VerdictKept, C!At, C!Goes, C!Moved
<1>1. CASE UNCHANGED continuation
  BY <1>1 DEF continuation
<1>2. ASSUME NEW r \in Requests, NEW what \in {"create", "recover"}, C!Ask(what, r)
      PROVE ThreadIInv' /\ C!RowsHold
  BY <1>2 DEF C!Ask
<1>3. CASE call # C!Idle /\ C!Find
  <2>1. CASE C!Known(call.of)
    BY <1>3, <2>1 DEF C!Find
  <2>2. CASE ~C!Known(call.of)
    <3>1. /\ call.what = "create" /\ call.at = "find" /\ call.of \in Requests /\ call.thread = 0
          /\ job[call.of].status = "absent"
          /\ call' = [call EXCEPT !.at = "probe"]
          /\ job' = [job EXCEPT ![call.of] = [status |-> "prepared", thread |-> 0]]
          /\ UNCHANGED <<bound, codex, maker, link>>
      BY <1>3, <2>2 DEF C!Find, C!Known
    <3>2. /\ job[call.of].thread = 0
          /\ \A t \in Threads : maker[t] # call.of
      BY <3>1
    <3>3. /\ job'[call.of] = [status |-> "prepared", thread |-> 0]
          /\ \A r \in Requests \ {call.of} : job'[r] = job[r]
          /\ job' \in [Requests -> [status : C!Statuses, thread : Threads \cup {0}]]
          /\ call' = [what |-> "create", of |-> call.of, at |-> "probe", thread |-> 0]
      BY <3>1
    <3>4. RowsAreTrue' /\ MadeThreads' /\ C!RowsHold
      BY <3>1, <3>2, <3>3
    <3>5. C!TypeOK'
      BY ZenonT(60), <3>1, <3>3
    <3>6. StatusFits' /\ ThreadFits'
      BY <3>1, <3>2, <3>3
    <3> QED BY <3>1, <3>4, <3>5, <3>6
  <2> QED BY <2>1, <2>2
<1>4. CASE call # C!Idle /\ C!FindToRecover
  <2>1. CASE job[call.of].status \in {"absent", "completed", "failed"}
    BY <1>4, <2>1 DEF C!FindToRecover
  <2>2. CASE job[call.of].status \notin {"absent", "completed", "failed"} /\ job[call.of].thread = C!NoThread
    <3>1. /\ call' = C!Idle /\ UNCHANGED <<bound, codex, maker, link>> /\ call.of \in Requests
          /\ job'[call.of] = [status |-> "manual-review", thread |-> 0]
          /\ \A r \in Requests \ {call.of} : job'[r] = job[r]
          /\ job' \in [Requests -> [status : C!Statuses, thread : Threads \cup {0}]]
      BY <1>4, <2>2 DEF C!FindToRecover
    <3> QED BY SMTT(60), <2>2, <3>1
  <2>3. CASE job[call.of].status \notin {"absent", "completed", "failed"} /\ job[call.of].thread # C!NoThread
    <3>1. /\ call.what = "recover" /\ call.at = "find" /\ call.of \in Requests
          /\ call' = [call EXCEPT !.at = "probe", !.thread = job[call.of].thread]
          /\ UNCHANGED <<job, bound, codex, maker, link>>
      BY <1>4, <2>3 DEF C!FindToRecover
    <3>2. job[call.of].thread \in Threads
      BY <2>3, <3>1
    <3>3. call' = [what |-> "recover", of |-> call.of, at |-> "probe", thread |-> job[call.of].thread]
      BY <1>4, <3>1
    <3>4. C!TypeOK'
      BY ZenonT(60), <3>1, <3>2, <3>3
    <3>5. StatusFits' /\ ThreadFits'
      BY <2>3, <3>1, <3>2, <3>3
    <3>6. RowsAreTrue' /\ MadeThreads' /\ C!OneThread' /\ C!RowsHold
      BY <3>1
    <3> QED BY <3>4, <3>5, <3>6
  <2> QED BY <2>1, <2>2, <2>3
<1>5. CASE call # C!Idle /\ C!Probe
  <2>1. CASE call.what = "create"
    BY SMTT(60), <1>5, <2>1 DEF C!Probe, C!Reached
  <2>2. CASE call.what = "recover"
    BY SMTT(60), <1>5, <2>2 DEF C!Probe, C!Reached
  <2> QED BY <1>5, <2>1, <2>2
<1>6. CASE call # C!Idle /\ C!Creating
  BY <1>6 DEF C!Creating
<1>7. CASE call # C!Idle /\ C!StartThread
  <2>1. CASE C!Goes("catch") /\ UNCHANGED <<codex, maker, link>>
    BY <1>7, <2>1 DEF C!StartThread
  <2>2. ASSUME NEW t \in Threads, codex[t] = "nothing",
               codex' = [codex EXCEPT ![t] = "empty"], maker' = [maker EXCEPT ![t] = call.of],
               \/ call' = [call EXCEPT !.at = "record", !.thread = t] \/ C!Goes("catch"),
               link' \in {link, "gone"}
        PROVE ThreadIInv' /\ C!RowsHold
    <3>1. /\ call.what = "create" /\ call.at = "start" /\ call.of \in Requests /\ call.thread = 0
          /\ job[call.of].status = "creating" /\ job[call.of].thread = 0 /\ t # 0
          /\ \A u \in Threads : maker[u] # call.of
          /\ maker[t] = "nobody" /\ UNCHANGED <<job, bound>>
      BY <1>7, <2>2 DEF C!StartThread
    <3>2. \A r \in Requests : job[r].thread # t
      BY <3>1
    <3>3. /\ maker'[t] = call.of /\ codex'[t] = "empty"
          /\ \A u \in Threads \ {t} : maker'[u] = maker[u] /\ codex'[u] = codex[u]
          /\ maker' \in [Threads -> Requests \cup {"nobody"}]
          /\ codex' \in [Threads -> {"nothing", "empty", "turned"}]
      BY <2>2, <3>1
    <3>7. \/ call' = [what |-> "create", of |-> call.of, at |-> "record", thread |-> t]
          \/ call' = [what |-> "create", of |-> call.of, at |-> "catch", thread |-> 0]
      BY ZenonT(60), <1>7, <2>2, <3>1
    <3>4. C!OneThread' /\ MadeThreads'
      BY <3>1, <3>3
    <3>5. RowsAreTrue' /\ C!RowsHold
      BY <3>1, <3>2, <3>3
    <3>6. StatusFits' /\ ThreadFits'
      BY <3>1, <3>3, <3>7
    <3> QED BY <2>2, <3>1, <3>3, <3>4, <3>5, <3>6, <3>7
  <2> QED BY <1>7, <2>1, <2>2 DEF C!StartThread, C!Reached
<1>8. CASE call # C!Idle /\ C!Record
  BY <1>8 DEF C!Record
<1>9. CASE call # C!Idle /\ C!StartTurn
  BY <1>9 DEF C!StartTurn, C!Reached
<1>10. CASE call # C!Idle /\ C!Turned
  BY <1>10 DEF C!Turned
<1>11. CASE call # C!Idle /\ C!Verify
  BY <1>11 DEF C!Verify, C!Reached
<1>12. CASE call # C!Idle /\ C!Bind
  BY <1>12 DEF C!Bind
<1>13. CASE call # C!Idle /\ C!Complete
  BY <1>13 DEF C!Complete
<1>14. CASE call # C!Idle /\ C!Catch
  BY <1>14 DEF C!Catch
<1>15. CASE C!ImportThread
  BY <1>15 DEF C!ImportThread
<1>16. CASE C!AppServerExits
  BY <1>16 DEF C!AppServerExits
<1>17. CASE C!Crash
  BY <1>17 DEF C!Crash
<1>18. CASE C!Done
  BY <1>18 DEF C!Done, C!vars
<1> HIDE DEF ThreadIInv, C!RowsHold, C!Idle
<1> QED
  BY <1>1, <1>2, <1>3, <1>4, <1>5, <1>6, <1>7, <1>8, <1>9, <1>10, <1>11, <1>12, <1>13, <1>14, <1>15,
     <1>16, <1>17, <1>18 DEF C!Next, C!Step

\* A request makes one thread however often it is repeated, whatever answers are lost and wherever
\* the Engine dies, and a completed one's has its turn and is bound (continuation-engine/src/service.ts).
THEOREM ThreadSafe == Spec => []ThreadInv
<1>1. Init => ThreadIInv
  BY ThreadInit DEF Init
<1>2. ThreadIInv /\ [Next]_<<focus, ownership, databases, continuation, projection, scans, capture>> => ThreadIInv'
  <2> SUFFICES ASSUME ThreadIInv, [Next]_<<focus, ownership, databases, continuation, projection, scans, capture>>
               PROVE [C!Next]_continuation
    BY ThreadStep
  <2> QED BY DEF Next
<1>3. ThreadIInv => ThreadInv
  BY DEF ThreadIInv, ThreadInv, C!CompletedIsBound, C!TypeOK, RowsAreTrue, C!NoThread
<1> QED BY <1>1, <1>2, <1>3, PTL DEF Spec

\* What a row says of its thread and of its end is never taken back (continuation-engine/src/service.ts,
\* session-store/src/repository.ts).
THEOREM RowsNeverTurnBack == Spec => RowsHold
<1>1. Init => ThreadIInv
  BY ThreadInit DEF Init
<1>2. ThreadIInv /\ [Next]_<<focus, ownership, databases, continuation, projection, scans, capture>>
         => ThreadIInv' /\ [C!RowsHold]_continuation
  <2> SUFFICES ASSUME ThreadIInv, [Next]_<<focus, ownership, databases, continuation, projection, scans, capture>>
               PROVE [C!Next]_continuation
    BY ThreadStep
  <2> QED BY DEF Next
<1> QED BY <1>1, <1>2, PTL DEF Spec, RowsHold

-----------------------------------------------------------------------------
(* The database the configuration names.                                   *)

\* An Engine runs on the database the configuration names, unless it made it name the migrated one.
OpenIsNamed == open # D!Nobody => open = pointer \/ pointer = "migrated"

\* While a migration runs, the named database is the one it copies, and at rest.
MigratesNamed ==
    /\ op.what = "migrate" =>
          /\ pointer \notin {"migrated", "archive"} /\ open = pointer
          /\ db["migrated"].file = db[pointer].file /\ db[pointer].wal = {}
          /\ manifest.source # "migrated"
    /\ op.what = "migrate" /\ op.at \in {"archived", "built"} =>
          db["archive"].built = "built" /\ db["archive"].file = db[pointer].file
    /\ op.what = "migrate" /\ op.at = "built" => db["migrated"].built = "built"

\* While a repair is staged, its candidate has what the plan saw of the named database.
StagesPlanned == op.what = "stage" =>
    /\ pointer # "repaired" /\ db["repaired"].wal = {} /\ plan.seen \subseteq db["repaired"].file
    /\ op.at = "repaired" => db["repaired"].built = "built"

\* A manifest is about a complete candidate, that has what it says the source had; where its source is
\* the named database, nothing has ever run on the candidate.
ManifestIsTrue ==
    /\ D!ManifestVouches
    /\ manifest.state = "written" => manifest.seen \subseteq manifest.content /\ manifest.source # "repaired"
    /\ manifest.state = "written" /\ manifest.source = pointer => db["repaired"].wal = {} /\ open # "repaired"
    /\ manifest.source = "migrated" => db["migrated"].built = "built"
    /\ op.what = "activate" => D!Same

PointerIInv == D!TypeOK /\ D!PointerIsBuilt /\ OpenIsNamed /\ MigratesNamed /\ StagesPlanned /\ ManifestIsTrue

LEMMA PointerInit == D!Init => PointerIInv
  BY DEF D!Init, PointerIInv, D!TypeOK, D!PointerIsBuilt, OpenIsNamed, MigratesNamed, StagesPlanned, ManifestIsTrue,
         D!ManifestVouches, D!Files, D!Nobody, D!Absent, D!Idle, D!NoPlan, D!NoManifest

\* A step keeps the invariant, and a switch among them is clean.
LEMMA PointerStep == PointerIInv /\ [D!Next]_databases => PointerIInv' /\ [D!SwitchIsClean]_databases
<1> SUFFICES ASSUME PointerIInv, [D!Next]_databases PROVE PointerIInv' /\ [D!SwitchIsClean]_databases
  OBVIOUS
<1> USE DEF PointerIInv, D!TypeOK, D!PointerIsBuilt, OpenIsNamed, MigratesNamed, StagesPlanned, ManifestIsTrue,
         D!ManifestVouches, D!Same, D!Files, D!Nobody, D!Absent, D!Idle, D!Doing, D!Goes, D!Copied, D!Holds, D!State,
         D!Writes, D!SwitchIsClean, D!SwitchKeeps, D!BothKeep
<1>1. CASE UNCHANGED databases
  BY <1>1 DEF databases
<1>2. CASE D!Start
  BY <1>2 DEF D!Start
<1>3. ASSUME NEW w \in D!Writes, D!Commit(w) PROVE PointerIInv' /\ [D!SwitchIsClean]_databases
  BY <1>3 DEF D!Commit
<1>4. CASE D!Checkpoint
  BY <1>4 DEF D!Checkpoint
<1>5. CASE D!Stop
  BY <1>5 DEF D!Stop
<1>6. CASE D!Die
  BY <1>6 DEF D!Die
<1>7. CASE D!Preview
  BY <1>7 DEF D!Preview
<1>8. CASE D!BeginMigration
  BY <1>8 DEF D!BeginMigration, D!Quiet
<1>9. CASE D!CopyArchive
  BY <1>9 DEF D!CopyArchive
<1>10. CASE D!Transform
  BY <1>10 DEF D!Transform
<1>11. CASE D!Undo
  <2>1. /\ op.what = "migrate" /\ op' = D!Idle /\ UNCHANGED <<pointer, open, preview, plan, manifest, acked>>
        /\ op.at # "built"
        /\ \A f \in D!Files \ {"migrated", "archive"} : db'[f] = db[f]
        /\ db' \in [D!Files -> [built : {"none", "partial", "built"}, file : SUBSET D!Writes, wal : SUBSET D!Writes]]
    BY <1>11 DEF D!Undo
  <2>2. pointer \in D!Files \ {"migrated", "archive"} /\ manifest.source # "migrated"
    BY <2>1
  <2> QED BY <2>1, <2>2
<1>12. CASE D!SwitchOnline
  BY <1>12 DEF D!SwitchOnline
<1>13. CASE D!BeginPlan
  BY <1>13 DEF D!BeginPlan
<1>14. CASE D!SealPlan
  BY <1>14 DEF D!SealPlan
<1>15. CASE D!BackUp
  BY <1>15 DEF D!BackUp
<1>16. CASE D!Repair
  BY <1>16 DEF D!Repair
<1>17. CASE D!WriteManifest
  BY <1>17 DEF D!WriteManifest
<1>18. CASE D!BeginActivation
  BY <1>18 DEF D!BeginActivation
<1>19. CASE D!SwitchOffline
  BY <1>19 DEF D!SwitchOffline
<1>20. CASE D!BeginReseed
  BY <1>20 DEF D!BeginReseed
<1>21. CASE D!Reseed
  BY <1>21 DEF D!Reseed
<1> HIDE DEF PointerIInv, D!SwitchIsClean, D!Writes
<1> QED
  BY <1>1, <1>2, <1>3, <1>4, <1>5, <1>6, <1>7, <1>8, <1>9, <1>10, <1>11, <1>12, <1>13, <1>14,
     <1>15, <1>16, <1>17, <1>18, <1>19, <1>20, <1>21 DEF D!Next

\* Wherever a process dies, the configuration names a complete database (canonical-migration.ts,
\* conversation-topology-repair.ts, config.ts).
THEOREM PointerSafe == Spec => []PointerInv
<1>1. Init => PointerIInv
  BY PointerInit DEF Init
<1>2. PointerIInv /\ [Next]_<<focus, ownership, databases, continuation, projection, scans, capture>> => PointerIInv'
  <2> SUFFICES ASSUME PointerIInv, [Next]_<<focus, ownership, databases, continuation, projection, scans, capture>>
               PROVE [D!Next]_databases
    BY PointerStep
  <2> QED BY DEF Next
<1>3. PointerIInv => PointerInv
  BY DEF PointerIInv, PointerInv
<1> QED BY <1>1, <1>2, <1>3, PTL DEF Spec

\* A switch takes over every session state of the database it replaces, its log included, and a
\* migration that got as far as its switch has candidate and archive whole whatever becomes of the
\* switch (conversation-topology-repair.ts, canonical-migration.ts, engine.ts).
THEOREM SwitchesAreClean == Spec => SwitchIsClean
<1>1. Init => PointerIInv
  BY PointerInit DEF Init
<1>2. PointerIInv /\ [Next]_<<focus, ownership, databases, continuation, projection, scans, capture>>
         => PointerIInv' /\ [D!SwitchIsClean]_databases
  <2> SUFFICES ASSUME PointerIInv, [Next]_<<focus, ownership, databases, continuation, projection, scans, capture>>
               PROVE [D!Next]_databases
    BY PointerStep
  <2> QED BY DEF Next
<1> QED BY <1>1, <1>2, PTL DEF Spec, SwitchIsClean

-----------------------------------------------------------------------------
(* Scans and plans (Synchronisation).                                      *)

BodyRow    == [of : S!Keys, n : Nat, d : Nat, t : Nat]
VersionRow == [in : S!Keys, of : S!Keys, n : Nat, d : Nat, t : Nat, parent : Nat]
Prints     == [kind : {"catalog"}, stamp : Nat] \cup [kind : {"content"}, body : BodyRow]

\* What Codex has only grows, and what DSH has is what was written once and its own since.
PlatformFits ==
    LET c == platform["codex"]
        d == platform["dsh"]
    IN
    /\ platform \in [S!Keys -> [n : Nat, d : Nat, t : Nat, stamp : Nat]]
    /\ c.stamp > 0 /\ c.stamp <= MaxChanges + 1 /\ c.n <= c.stamp /\ c.d = 0 /\ c.t < c.stamp
    /\ d.n <= MaxChanges + 1 /\ c.stamp + d.stamp <= MaxChanges + 2
    /\ d.stamp = 0 => d.n = 0 /\ d.d = 0 /\ d.t = 0
    /\ d.stamp > 0 => d.d < d.stamp /\ d.t + 2 <= c.stamp + d.stamp

\* A content of Codex is one it had.
WasThere(b) == b.of = "codex" => b.n <= platform["codex"].n /\ b.d = 0 /\ b.t <= platform["codex"].t

GraphFits ==
    /\ graph \in Seq(VersionRow)
    /\ \A v \in 1..Len(graph) : graph[v].parent < v /\ WasThere(graph[v])

\* A head is of its binding's session, and no catalog is later than the platform.
HeadsFit ==
    /\ binding \in [S!Keys -> S!Bindings] /\ head \in [S!Keys -> [version : S!Versions, fp : Prints]]
    /\ \A k \in S!Keys :
          /\ binding[k].session = "none" => binding[k] = S!Unbound /\ head[k].version = 0
          /\ binding[k].session # "none" => head[k].version # 0 /\ graph[head[k].version].in = binding[k].session
          /\ head[k].fp.kind = "catalog" => head[k].fp.stamp <= platform[k].stamp
    /\ binding["codex"].session \in {"none", "codex"} /\ head["codex"].fp.kind = "catalog"

\* What a scan has read of its session: a binding that was, a version of its session, and the content
\* that is there as long as the stamp is.
TaskFits(task) ==
    /\ task.at \in {"idle", "listed", "bound", "read", "seen"}
    /\ task.at # "idle" => task.key \in S!Keys /\ task.stamp \in Nat /\ task.stamp <= platform[task.key].stamp
    /\ task.at \in {"bound", "read", "seen"} =>
          /\ task.row \in S!Bindings /\ task.row.session \in {"none", binding[task.key].session}
          /\ task.row.session = "none" => task.row = S!Unbound
    /\ task.at \in {"read", "seen"} =>
          /\ task.version \in S!Versions
          /\ task.version # 0 => task.row.session # "none" /\ graph[task.version].in = task.row.session
    /\ task.at = "seen" =>
          /\ task.body \in BodyRow /\ task.body.of = task.key /\ WasThere(task.body)
          /\ task.stamp = platform[task.key].stamp => task.body = S!Content(task.key)

ScansFit == DOMAIN scanning = Scanners /\ \A s \in Scanners : TaskFits(scanning[s])

Proposals == [there : {TRUE}, source : 1..Len(graph), target : S!Versions,
              operations : SUBSET {"review", "append", "title", "create"},
              preconditions : SUBSET [key : S!Keys, fp : Prints], completed : BOOLEAN]

\* Only the restoration of a version that is no longer the head is without a precondition; a catalog
\* is never what an adapter observes, so nothing else is written, and that once.
ProposalFits ==
    /\ proposal.there \in BOOLEAN
    /\ proposal.there =>
          /\ proposal \in Proposals
          /\ proposal.preconditions = {} => proposal.operations = {"create"} /\ graph[proposal.source].of = "codex"
          /\ proposal.preconditions # {} => \E p \in proposal.preconditions : p.key = "codex" /\ p.fp.kind = "catalog"
    /\ ~proposal.there \/ (proposal.preconditions = {} /\ ~proposal.completed) => platform["dsh"].stamp = 0

\* The version that is verified has the content of the plan's source.
ApplyFits ==
    /\ answer \in {"none", "verify", "advance", "refused", "stale", "failed", "completed"} /\ verified \in S!Versions
    /\ answer \in {"verify", "advance"} => proposal.there
    /\ answer = "advance" => /\ verified # 0 /\ graph[verified].in = "codex"
                             /\ S!Same(S!Body(proposal.source), S!Body(verified))

ScanIInv == PlatformFits /\ GraphFits /\ HeadsFit /\ ScansFit /\ ProposalFits /\ ApplyFits /\ S!SkipIsSound

LEMMA ScanInit == S!Init => ScanIInv
<1> SUFFICES ASSUME S!Init PROVE ScanIInv
  OBVIOUS
<1> USE DEF S!Init, S!Keys
<1>1. PlatformFits
  BY ScanAssumption DEF ScanAssumption, PlatformFits
<1>2. GraphFits
  BY DEF GraphFits
<1>3. HeadsFit
  <2>1. Len(graph) = 0
    OBVIOUS
  <2>2. S!Unbound \in S!Bindings /\ S!Unknown \in [version : S!Versions, fp : Prints]
    BY <2>1 DEF S!Unbound, S!Bindings, S!Versions, S!NoVersion, S!Unknown, S!Catalog, Prints
  <2> QED BY <2>2 DEF HeadsFit, S!Unbound, S!Unknown, S!Catalog, S!NoVersion
<1>4. ScansFit
  BY DEF ScansFit, TaskFits, S!Resting
<1>5. ProposalFits
  BY DEF ProposalFits, S!NoProposal
<1>6. ApplyFits
  BY DEF ApplyFits, S!Versions, S!NoVersion
<1>7. S!SkipIsSound
  BY DEF S!SkipIsSound, S!Unknown, S!NoVersion
<1> QED BY <1>1, <1>2, <1>3, <1>4, <1>5, <1>6, <1>7 DEF ScanIInv

LEMMA ScanHolds == ASSUME ScanIInv PROVE S!TypeOK /\ S!SkipIsSound
<1>1. \A k \in S!Keys : platform[k] \in [n : 0..MaxChanges + 1, d : 0..MaxChanges, t : 0..MaxChanges, stamp : 0..2 * MaxChanges + 2]
  <2>1. platform["codex"] \in [n : Nat, d : Nat, t : Nat, stamp : Nat] /\ platform["dsh"] \in [n : Nat, d : Nat, t : Nat, stamp : Nat]
    BY DEF ScanIInv, PlatformFits, S!Keys
  <2>2. platform["codex"] \in [n : 0..MaxChanges + 1, d : 0..MaxChanges, t : 0..MaxChanges, stamp : 0..2 * MaxChanges + 2]
    <3>1. /\ platform["codex"].n \in 0..MaxChanges + 1 /\ platform["codex"].d \in 0..MaxChanges
          /\ platform["codex"].t \in 0..MaxChanges /\ platform["codex"].stamp \in 0..2 * MaxChanges + 2
      BY <2>1, ScanAssumption DEF ScanAssumption, ScanIInv, PlatformFits
    <3> QED BY <2>1, <3>1
  <2>3. platform["dsh"] \in [n : 0..MaxChanges + 1, d : 0..MaxChanges, t : 0..MaxChanges, stamp : 0..2 * MaxChanges + 2]
    <3>1. /\ platform["dsh"].n \in 0..MaxChanges + 1 /\ platform["dsh"].d \in 0..MaxChanges
          /\ platform["dsh"].t \in 0..MaxChanges /\ platform["dsh"].stamp \in 0..2 * MaxChanges + 2
      BY <2>1, ScanAssumption DEF ScanAssumption, ScanIInv, PlatformFits
    <3> QED BY <2>1, <3>1
  <2> QED BY <2>2, <2>3 DEF S!Keys
<1>2. \A v \in DOMAIN graph : graph[v].in \in S!Keys /\ graph[v].of \in S!Keys /\ graph[v].parent \in 0..v - 1
  <2>1. ASSUME NEW v \in DOMAIN graph PROVE graph[v].in \in S!Keys /\ graph[v].of \in S!Keys /\ graph[v].parent \in 0..v - 1
    <3>1. v \in 1..Len(graph) /\ graph[v] \in VersionRow /\ v \in Nat
      BY DEF ScanIInv, GraphFits
    <3>2. graph[v].parent \in Nat /\ graph[v].parent < v
      BY <3>1 DEF ScanIInv, GraphFits, VersionRow
    <3> QED BY <3>1, <3>2 DEF VersionRow
  <2> QED BY <2>1
<1>3. /\ binding \in [S!Keys -> S!Bindings]
      /\ \A k \in S!Keys : head[k].version \in S!Versions
      /\ \A k \in S!Keys : head[k].version # S!NoVersion => graph[head[k].version].in = binding[k].session
  BY DEF ScanIInv, HeadsFit, S!NoVersion
<1>4. \A s \in Scanners : scanning[s].at \in {"idle", "listed", "bound", "read", "seen"}
  BY DEF ScanIInv, ScansFit, TaskFits
<1>5. proposal.there => proposal.source \in DOMAIN graph /\ proposal.target \in S!Versions
  BY DEF ScanIInv, ProposalFits, Proposals, GraphFits
<1>6. answer \in {"none", "verify", "advance", "refused", "stale", "failed", "completed"} /\ verified \in S!Versions
  BY DEF ScanIInv, ApplyFits
<1> QED BY <1>1, <1>2, <1>3, <1>4, <1>5, <1>6 DEF S!TypeOK, ScanIInv

\* Versions stay as they are.
Grows == Len(graph') \in Nat /\ Len(graph) <= Len(graph') /\ \A v \in 1..Len(graph) : graph'[v] = graph[v]

\* A platform that changes has a later stamp.
Elapses == \A k \in S!Keys :
    \/ platform'[k] = platform[k]
    \/ /\ platform'[k].stamp > platform[k].stamp
       /\ k = "codex" => platform'[k].n >= platform[k].n /\ platform'[k].t >= platform[k].t

\* A session that is bound stays bound to the same.
StayBound == \A k \in S!Keys : binding[k].session # "none" => binding'[k].session = binding[k].session

LEMMA ContentThere == ASSUME PlatformFits, NEW b, WasThere(b), Elapses, PlatformFits',
                             b.of = "codex" => b.n \in Nat /\ b.t \in Nat
                      PROVE  WasThere(b)'
<1>1. /\ platform["codex"].n \in Nat /\ platform["codex"].t \in Nat
      /\ platform'["codex"].n \in Nat /\ platform'["codex"].t \in Nat
  BY DEF PlatformFits, S!Keys
<1>2. platform'["codex"].n >= platform["codex"].n /\ platform'["codex"].t >= platform["codex"].t
  BY <1>1 DEF Elapses, S!Keys
<1> QED BY <1>1, <1>2 DEF WasThere

LEMMA TaskStays ==
    ASSUME PlatformFits, PlatformFits', GraphFits, Grows, Elapses, StayBound, NEW task, TaskFits(task)
    PROVE  TaskFits(task)'
<1>1. Len(graph) \in Nat /\ Len(graph') \in Nat
  BY DEF GraphFits, Grows
<1>2. ASSUME task.at # "idle"
      PROVE  /\ task.key \in S!Keys /\ task.stamp \in Nat /\ task.stamp <= platform'[task.key].stamp
             /\ task.stamp = platform'[task.key].stamp => platform'[task.key] = platform[task.key]
  <2>1. task.key \in S!Keys /\ task.stamp \in Nat /\ task.stamp <= platform[task.key].stamp
    BY <1>2 DEF TaskFits
  <2>2. platform[task.key].stamp \in Nat /\ platform'[task.key].stamp \in Nat
    BY <2>1 DEF PlatformFits
  <2> QED BY <2>1, <2>2 DEF Elapses
<1>3. ASSUME task.at \in {"bound", "read", "seen"}
      PROVE  /\ task.row \in S!Bindings' /\ task.row.session \in {"none", binding'[task.key].session}
             /\ task.row.session = "none" => task.row = S!Unbound
  <2>1. task.key \in S!Keys /\ task.row \in S!Bindings /\ task.row.session \in {"none", binding[task.key].session}
        /\ (task.row.session = "none" => task.row = S!Unbound)
    BY <1>3 DEF TaskFits
  <2>2. \A v \in S!Versions : v \in S!Versions'
    BY <1>1 DEF S!Versions, Grows
  <2> QED BY <2>1, <2>2 DEF StayBound, S!Bindings
<1>4. ASSUME task.at \in {"read", "seen"}
      PROVE  /\ task.version \in S!Versions'
             /\ task.version # 0 => task.row.session # "none" /\ graph'[task.version].in = task.row.session
  <2>1. /\ task.version \in S!Versions
        /\ task.version # 0 => task.row.session # "none" /\ graph[task.version].in = task.row.session
    BY <1>4 DEF TaskFits
  <2>2. task.version \in S!Versions' /\ (task.version # 0 => task.version \in 1..Len(graph))
    BY <1>1, <2>1 DEF S!Versions, Grows
  <2> QED BY <2>1, <2>2 DEF Grows
<1>5. ASSUME task.at = "seen"
      PROVE  /\ task.body \in BodyRow /\ task.body.of = task.key /\ WasThere(task.body)'
             /\ task.stamp = platform'[task.key].stamp => task.body = S!Content(task.key)'
  <2>1. /\ task.body \in BodyRow /\ task.body.of = task.key /\ WasThere(task.body)
        /\ task.stamp = platform[task.key].stamp => task.body = S!Content(task.key)
    BY <1>5 DEF TaskFits
  <2>2. PICK b : b = task.body
    OBVIOUS
  <2>3. WasThere(b)'
    BY <2>1, <2>2, ContentThere DEF BodyRow
  <2>4. WasThere(task.body)'
    BY <2>2, <2>3
  <2>5. task.stamp = platform'[task.key].stamp => task.body = S!Content(task.key)'
    BY <1>2, <1>5, <2>1 DEF S!Content
  <2> QED BY <2>1, <2>4, <2>5
<1> QED BY <1>2, <1>3, <1>4, <1>5 DEF TaskFits

\* All tasks but one stay, and that one fits.
LEMMA ScansStay ==
    ASSUME PlatformFits, PlatformFits', GraphFits, ScansFit, Grows, Elapses, StayBound,
           NEW s \in Scanners, NEW task, scanning' = [scanning EXCEPT ![s] = task], TaskFits(task)'
    PROVE  ScansFit'
<1>1. ASSUME NEW o \in Scanners PROVE TaskFits(scanning[o])'
  <2>1. PICK q : q = scanning'[o]
    OBVIOUS
  <2>2. CASE o = s
    <3>1. q = task
      BY <2>1, <2>2 DEF ScansFit
    <3> QED BY <2>1, <3>1
  <2>3. CASE o # s
    <3>1. q = scanning[o]
      BY <2>1, <2>3 DEF ScansFit
    <3>2. TaskFits(q)'
      BY <3>1, TaskStays DEF ScansFit
    <3> QED BY <2>1, <3>2
  <2> QED BY <2>2, <2>3
<1> QED BY <1>1 DEF ScansFit

LEMMA ScansRest ==
    ASSUME PlatformFits, PlatformFits', GraphFits, ScansFit, Grows, Elapses, StayBound, UNCHANGED scanning
    PROVE  ScansFit'
<1>1. ASSUME NEW o \in Scanners PROVE TaskFits(scanning[o])'
  <2>1. PICK q : q = scanning[o]
    OBVIOUS
  <2>2. TaskFits(q)'
    BY <2>1, TaskStays DEF ScansFit
  <2> QED BY <2>1, <2>2
<1> QED BY <1>1 DEF ScansFit

\* The repository rests while a platform may change.
LEMMA StoreRests ==
    ASSUME ScanIInv, PlatformFits', Elapses, UNCHANGED <<graph, binding, head>>
    PROVE  GraphFits' /\ HeadsFit' /\ S!SkipIsSound' /\ Grows /\ StayBound
<1>1. GraphFits'
  <2>1. ASSUME NEW v \in 1..Len(graph) PROVE WasThere(graph[v])'
    <3>1. PICK b : b = graph[v]
      OBVIOUS
    <3>2. b \in VersionRow /\ WasThere(b)
      BY <3>1 DEF ScanIInv, GraphFits
    <3>3. WasThere(b)'
      BY <3>2, ContentThere DEF ScanIInv, VersionRow
    <3> QED BY <3>1, <3>3
  <2> QED BY <2>1 DEF ScanIInv, GraphFits
<1>2. ASSUME NEW k \in S!Keys, head[k].fp.kind = "catalog"
      PROVE  /\ head[k].fp.stamp \in Nat /\ head[k].fp.stamp <= platform'[k].stamp
             /\ head[k].fp.stamp = platform'[k].stamp => platform'[k] = platform[k]
  <2>1. head[k].fp \in Prints /\ head[k].fp.stamp <= platform[k].stamp
    BY <1>2 DEF ScanIInv, HeadsFit
  <2>2. head[k].fp.stamp \in Nat
    BY <1>2, <2>1 DEF Prints
  <2>3. platform[k].stamp \in Nat /\ platform'[k].stamp \in Nat
    BY DEF ScanIInv, PlatformFits
  <2> QED BY <2>1, <2>2, <2>3 DEF Elapses
<1>3. HeadsFit'
  BY <1>2 DEF ScanIInv, HeadsFit, S!Versions, S!Bindings
<1>4. S!SkipIsSound'
  <2> SUFFICES ASSUME NEW k \in S!Keys, head[k].version # 0, head[k].fp = S!Catalog(platform'[k].stamp)
               PROVE  S!Same(S!Body(head[k].version), S!Content(k)')
    BY DEF S!SkipIsSound, S!Same, S!Body, S!NoVersion
  <2>1. head[k].fp.kind = "catalog" /\ head[k].fp.stamp = platform'[k].stamp
    BY DEF S!Catalog
  <2>2. platform'[k] = platform[k]
    BY <1>2, <2>1
  <2>3. S!Content(k)' = S!Content(k)
    BY <2>2 DEF S!Content
  <2> QED BY <2>2, <2>3 DEF ScanIInv, S!SkipIsSound, S!NoVersion
<1>5. Grows /\ StayBound
  BY DEF Grows, StayBound, ScanIInv, GraphFits
<1> QED BY <1>1, <1>3, <1>4, <1>5

LEMMA AnswersRest ==
    ASSUME ScanIInv, Grows, UNCHANGED <<proposal, answer, verified>>,
           platform["dsh"].stamp = 0 => platform'["dsh"].stamp = 0
    PROVE  ProposalFits' /\ ApplyFits'
<1>1. Len(graph) \in Nat /\ Len(graph') \in Nat /\ \A v \in S!Versions : v \in S!Versions'
  BY DEF ScanIInv, GraphFits, Grows, S!Versions
<1>2. \A v \in 1..Len(graph) : v \in 1..Len(graph') /\ graph'[v] = graph[v] /\ S!Body(v)' = S!Body(v)
  BY <1>1 DEF Grows, S!Body
<1>3. \A v \in S!Versions : v # 0 => v \in 1..Len(graph)
  BY <1>1 DEF S!Versions
<1>4. ProposalFits'
  BY <1>1, <1>2 DEF ScanIInv, ProposalFits, Proposals
<1>5. ApplyFits'
  <2>1. answer = "advance" => proposal.source \in 1..Len(graph) /\ verified \in 1..Len(graph)
    BY <1>3 DEF ScanIInv, ApplyFits, ProposalFits, Proposals
  <2>2. answer = "advance" => S!Same(S!Body(proposal.source)', S!Body(verified)')
    BY <1>2, <2>1 DEF ScanIInv, ApplyFits
  <2> QED BY <1>1, <1>2, <2>1, <2>2 DEF ScanIInv, ApplyFits, S!Same
<1> QED BY <1>4, <1>5

LEMMA PlatformRests == ASSUME ScanIInv, UNCHANGED platform PROVE PlatformFits' /\ Elapses
  BY DEF ScanIInv, PlatformFits, Elapses

\* A scan goes on, and nothing else.
LEMMA TaskGoes ==
    ASSUME ScanIInv, NEW s \in Scanners, NEW task, S!Scanning(s, task), UNCHANGED <<graph, binding, head>>, TaskFits(task)
    PROVE  ScanIInv'
<1>1. scanning' = [scanning EXCEPT ![s] = task] /\ UNCHANGED <<platform, proposal, answer, verified>>
  BY DEF S!Scanning
<1>2. PlatformFits' /\ Elapses
  BY <1>1, PlatformRests
<1>3. GraphFits' /\ HeadsFit' /\ S!SkipIsSound' /\ Grows /\ StayBound
  BY <1>2, StoreRests
<1>4. TaskFits(task)'
  BY <1>2, <1>3, TaskStays DEF ScanIInv
<1>5. ScansFit'
  BY <1>1, <1>2, <1>3, <1>4, ScansStay DEF ScanIInv
<1> QED BY <1>1, <1>2, <1>3, <1>5, AnswersRest DEF ScanIInv

LEMMA RestingFits == TaskFits(S!Resting)
  BY DEF TaskFits, S!Resting

LEMMA ListKeeps == ASSUME ScanIInv, NEW s \in Scanners, NEW k \in S!Keys, S!List(s, k) PROVE ScanIInv'
<1> DEFINE task == [at |-> "listed", key |-> k, stamp |-> platform[k].stamp]
<1>1. S!Scanning(s, task) /\ UNCHANGED <<graph, binding, head>>
  BY DEF S!List, S!Store
<1>2. TaskFits(task)
  BY DEF TaskFits, ScanIInv, PlatformFits
<1> QED BY <1>1, <1>2, TaskGoes

LEMMA FindBindingKeeps == ASSUME ScanIInv, NEW s \in Scanners, S!FindBinding(s) PROVE ScanIInv'
<1> DEFINE k == scanning[s].key
           task == [at |-> "bound", key |-> k, stamp |-> scanning[s].stamp, row |-> binding[k]]
<1>1. S!Scanning(s, task) /\ UNCHANGED <<graph, binding, head>> /\ scanning[s].at = "listed"
  BY DEF S!FindBinding, S!Store
<1>2. k \in S!Keys /\ scanning[s].stamp \in Nat /\ scanning[s].stamp <= platform[k].stamp
  BY <1>1 DEF ScanIInv, ScansFit, TaskFits
<1>3. binding[k] \in S!Bindings /\ (binding[k].session = "none" => binding[k] = S!Unbound)
  BY <1>2 DEF ScanIInv, HeadsFit
<1>4. TaskFits(task)
  BY <1>2, <1>3 DEF TaskFits
<1> QED BY <1>1, <1>4, TaskGoes

LEMMA ReadHeadKeeps == ASSUME ScanIInv, NEW s \in Scanners, S!ReadHead(s) PROVE ScanIInv'
<1>1. PICK q : q = scanning[s]
  OBVIOUS
<1> DEFINE version == IF q.row = S!Unbound THEN 0 ELSE head[q.key].version
           task == [at |-> "read", key |-> q.key, stamp |-> q.stamp, row |-> q.row, version |-> version]
<1>2. /\ q.at = "bound" /\ UNCHANGED <<graph, binding, head>>
      /\ S!Scanning(s, S!Resting) \/ S!Scanning(s, task)
  BY <1>1 DEF S!ReadHead, S!Store, S!NoVersion
<1>3. TaskFits(q)
  BY <1>1 DEF ScanIInv, ScansFit
<1>4. /\ q.key \in S!Keys /\ q.stamp \in Nat /\ q.stamp <= platform[q.key].stamp
      /\ q.row \in S!Bindings /\ q.row.session \in {"none", binding[q.key].session}
      /\ q.row.session = "none" => q.row = S!Unbound
  BY <1>2, <1>3 DEF TaskFits
<1>5. version \in S!Versions
  BY <1>4 DEF ScanIInv, HeadsFit, GraphFits, S!Versions
<1>6. version # 0 => q.row.session # "none" /\ graph[version].in = q.row.session
  BY <1>4 DEF ScanIInv, HeadsFit
<1> HIDE DEF version
<1>7. TaskFits(task)
  BY <1>4, <1>5, <1>6 DEF TaskFits
<1> QED BY <1>2, <1>7, RestingFits, TaskGoes

LEMMA ObserveKeeps == ASSUME ScanIInv, NEW s \in Scanners, S!Observe(s) PROVE ScanIInv'
<1>1. PICK q : q = scanning[s]
  OBVIOUS
<1> DEFINE task == [at |-> "seen", key |-> q.key, stamp |-> q.stamp, row |-> q.row, version |-> q.version,
                    body |-> S!Content(q.key)]
<1>2. /\ q.at = "read" /\ UNCHANGED <<graph, binding, head>>
      /\ S!Scanning(s, S!Resting) \/ S!Scanning(s, task)
  BY <1>1 DEF S!Observe, S!Store
<1>3. TaskFits(q)
  BY <1>1 DEF ScanIInv, ScansFit
<1>4. /\ q.key \in S!Keys /\ q.stamp \in Nat /\ q.stamp <= platform[q.key].stamp
      /\ q.row \in S!Bindings /\ q.row.session \in {"none", binding[q.key].session}
      /\ q.row.session = "none" => q.row = S!Unbound
      /\ q.version \in S!Versions
      /\ q.version # 0 => q.row.session # "none" /\ graph[q.version].in = q.row.session
  BY <1>2, <1>3 DEF TaskFits
<1>5. S!Content(q.key) \in BodyRow /\ S!Content(q.key).of = q.key /\ WasThere(S!Content(q.key))
  <2>1. platform[q.key] \in [n : Nat, d : Nat, t : Nat, stamp : Nat]
    BY <1>4 DEF ScanIInv, PlatformFits
  <2>2. platform["codex"].d = 0 /\ platform["codex"].n \in Nat /\ platform["codex"].t \in Nat
    BY DEF ScanIInv, PlatformFits, S!Keys
  <2> QED BY <1>4, <2>1, <2>2 DEF S!Content, BodyRow, WasThere
<1>6. TaskFits(task)
  BY <1>4, <1>5 DEF TaskFits
<1> QED BY <1>2, <1>6, RestingFits, TaskGoes

\* A version is stored, or is there already.
LEMMA PutGrows ==
    ASSUME GraphFits, NEW v \in VersionRow, v.parent <= Len(graph), WasThere(v), S!Put(v), UNCHANGED platform
    PROVE  /\ GraphFits' /\ Grows /\ S!Index(v) \in 1..Len(graph') /\ graph'[S!Index(v)] = v
           /\ S!Index(v) \in S!Versions' /\ S!Index(v) # 0
<1>1. graph \in Seq(VersionRow) /\ Len(graph) \in Nat /\ DOMAIN graph = 1..Len(graph)
  BY DEF GraphFits
<1>a. PICK at : at = S!Index(v)
  OBVIOUS
<1>b. graph' = IF at > Len(graph) THEN Append(graph, v) ELSE graph
  BY <1>a DEF S!Put
<1>2. CASE \E i \in DOMAIN graph : graph[i] = v
  <2>1. S!Index(v) \in DOMAIN graph /\ graph[S!Index(v)] = v
    BY <1>2 DEF S!Index
  <2>a. ~(at > Len(graph))
    BY <1>1, <1>a, <2>1
  <2>2. graph' = graph
    BY <1>b, <2>a
  <2>3. GraphFits'
    BY <2>2 DEF GraphFits, WasThere
  <2> QED BY <1>1, <2>1, <2>2, <2>3 DEF Grows, S!Versions
<1>3. CASE ~(\E i \in DOMAIN graph : graph[i] = v)
  <2>1. S!Index(v) = Len(graph) + 1
    BY <1>3 DEF S!Index
  <2>a. at > Len(graph)
    BY <1>1, <1>a, <2>1
  <2>2. graph' = Append(graph, v)
    BY <1>b, <2>a
  <2>3. /\ graph' \in Seq(VersionRow) /\ Len(graph') = Len(graph) + 1 /\ graph'[Len(graph) + 1] = v
        /\ \A i \in 1..Len(graph) : graph'[i] = graph[i]
    BY <1>1, <2>2
  <2>4. \A i \in 1..Len(graph') : graph'[i].parent < i /\ WasThere(graph'[i])
    <3>1. v.parent \in Nat /\ v.parent < Len(graph) + 1
      BY <1>1 DEF VersionRow
    <3>2. \A i \in 1..Len(graph') : i \in 1..Len(graph) \/ i = Len(graph) + 1
      BY <1>1, <2>3
    <3> QED BY <2>3, <3>1, <3>2 DEF GraphFits
  <2>5. GraphFits'
    BY <2>3, <2>4 DEF GraphFits, WasThere
  <2> QED BY <1>1, <2>1, <2>3, <2>5 DEF Grows, S!Versions
<1> QED BY <1>2, <1>3

LEMMA HeadsUnderGrowth ==
    ASSUME ScanIInv, Grows, UNCHANGED <<platform, binding, head>> PROVE HeadsFit' /\ S!SkipIsSound'
<1>1. Len(graph) \in Nat /\ Len(graph') \in Nat /\ \A v \in S!Versions : v \in S!Versions'
  BY DEF ScanIInv, GraphFits, Grows, S!Versions
<1>2. \A v \in S!Versions : v # 0 => graph'[v] = graph[v]
  BY <1>1 DEF S!Versions, Grows
<1>3. \A k \in S!Keys : head[k].version \in S!Versions
  BY DEF ScanIInv, HeadsFit
<1>4. HeadsFit'
  <2>1. binding' \in [S!Keys -> S!Bindings]' /\ head' \in [S!Keys -> [version : S!Versions, fp : Prints]]'
    BY <1>1 DEF ScanIInv, HeadsFit, S!Bindings
  <2>2. \A k \in S!Keys : head[k].version # 0 => graph'[head[k].version] = graph[head[k].version]
    BY <1>2, <1>3
  <2> QED BY <2>1, <2>2 DEF ScanIInv, HeadsFit
<1>5. S!SkipIsSound'
  BY <1>2, <1>3 DEF ScanIInv, S!SkipIsSound, S!Same, S!Body, S!Content, S!NoVersion
<1> QED BY <1>4, <1>5

\* A head of a session is recorded with the catalog of a scan.
LEMMA HeadMoves ==
    ASSUME ScanIInv, UNCHANGED platform, Grows, NEW k \in S!Keys, NEW v \in 1..Len(graph'), NEW st \in Nat,
           st <= platform[k].stamp, st = platform[k].stamp => S!Same(graph'[v], S!Content(k)),
           head' = [head EXCEPT ![k] = [version |-> v, fp |-> S!Catalog(st)]],
           NEW row \in S!Bindings', binding' = [binding EXCEPT ![k] = row],
           row.session # "none", graph'[v].in = row.session, k = "codex" => row.session = "codex"
    PROVE  HeadsFit' /\ S!SkipIsSound'
<1>1. Len(graph) \in Nat /\ Len(graph') \in Nat /\ (\A i \in S!Versions : i \in S!Versions') /\ v \in S!Versions' /\ v # 0
  BY DEF ScanIInv, GraphFits, Grows, S!Versions
<1>2. \A i \in S!Versions : i # 0 => graph'[i] = graph[i]
  BY <1>1 DEF S!Versions, Grows
<1>3. \A o \in S!Keys : head[o] \in [version : S!Versions, fp : Prints] /\ binding[o] \in S!Bindings
  BY DEF ScanIInv, HeadsFit
<1>4. /\ \A o \in S!Keys \ {k} : head'[o] = head[o] /\ binding'[o] = binding[o]
      /\ head'[k] = [version |-> v, fp |-> S!Catalog(st)] /\ binding'[k] = row
      /\ DOMAIN head' = S!Keys /\ DOMAIN binding' = S!Keys
  BY DEF ScanIInv, HeadsFit
<1>5. HeadsFit'
  <2>1. \A o \in S!Keys : head'[o] \in [version : S!Versions', fp : Prints] /\ binding'[o] \in S!Bindings'
    <3>1. S!Catalog(st) \in Prints
      BY DEF S!Catalog, Prints
    <3>2. \A r \in S!Bindings : r \in S!Bindings'
      BY <1>1 DEF S!Bindings
    <3> QED BY <1>1, <1>3, <1>4, <3>1, <3>2
  <2>2. binding' \in [S!Keys -> S!Bindings]' /\ head' \in [S!Keys -> [version : S!Versions, fp : Prints]]'
    <3>1. binding' = [o \in S!Keys |-> binding'[o]] /\ head' = [o \in S!Keys |-> head'[o]]
      BY DEF ScanIInv, HeadsFit
    <3> QED BY <2>1, <3>1
  <2>3. ASSUME NEW o \in S!Keys
        PROVE  /\ binding'[o].session = "none" => binding'[o] = S!Unbound /\ head'[o].version = 0
               /\ binding'[o].session # "none" => head'[o].version # 0 /\ graph'[head'[o].version].in = binding'[o].session
               /\ head'[o].fp.kind = "catalog" => head'[o].fp.stamp <= platform[o].stamp
    <3>1. CASE o = k
      BY <1>1, <1>4, <3>1 DEF S!Catalog
    <3>2. CASE o # k
      BY <1>2, <1>3, <1>4, <3>2 DEF ScanIInv, HeadsFit
    <3> QED BY <3>1, <3>2
  <2>4. binding'["codex"].session \in {"none", "codex"} /\ head'["codex"].fp.kind = "catalog"
    BY <1>4 DEF ScanIInv, HeadsFit, S!Catalog, S!Keys
  <2> QED BY <2>2, <2>3, <2>4 DEF HeadsFit
<1>6. S!SkipIsSound'
  <2> SUFFICES ASSUME NEW o \in S!Keys, head'[o].version # 0, head'[o].fp = S!Catalog(platform[o].stamp)
               PROVE  S!Same(graph'[head'[o].version], S!Content(o))
    BY DEF S!SkipIsSound, S!Same, S!Body, S!Content, S!NoVersion
  <2>1. CASE o = k
    BY <1>4, <2>1 DEF S!Catalog
  <2>2. CASE o # k
    <3>1. head'[o] = head[o] /\ graph'[head[o].version] = graph[head[o].version]
      BY <1>2, <1>3, <1>4, <2>2
    <3>2. S!Same(S!Body(head[o].version), S!Content(o))
      BY <3>1 DEF ScanIInv, S!SkipIsSound, S!NoVersion
    <3> QED BY <3>1, <3>2 DEF S!Same, S!Body
  <2> QED BY <2>1, <2>2
<1> QED BY <1>5, <1>6

\* A session that is read again as its head has it gets the scan's catalog.
LEMMA RecordObservationKeeps == ASSUME ScanIInv, NEW s \in Scanners, S!RecordObservation(s) PROVE ScanIInv'
<1>1. PICK q : q = scanning[s]
  OBVIOUS
<1>2. /\ q.at = "seen" /\ q.version # 0 /\ S!Body(q.version) = q.body
      /\ head' = [head EXCEPT ![q.key] = [version |-> q.version, fp |-> S!Catalog(q.stamp)]]
      /\ S!Scanning(s, S!Resting) /\ UNCHANGED <<graph, binding>>
  BY <1>1 DEF S!RecordObservation, S!NoVersion
<1>3. scanning' = [scanning EXCEPT ![s] = S!Resting] /\ UNCHANGED <<platform, proposal, answer, verified>>
  BY <1>2 DEF S!Scanning
<1>4. TaskFits(q)
  BY <1>1 DEF ScanIInv, ScansFit
<1>5. /\ q.key \in S!Keys /\ q.stamp \in Nat /\ q.stamp <= platform[q.key].stamp
      /\ q.version \in S!Versions /\ q.row.session # "none" /\ graph[q.version].in = q.row.session
      /\ q.row.session \in {"none", binding[q.key].session}
      /\ q.stamp = platform[q.key].stamp => q.body = S!Content(q.key)
  BY <1>2, <1>4 DEF TaskFits
<1>6. PlatformFits' /\ Elapses
  BY <1>3, PlatformRests
<1>7. GraphFits' /\ Grows /\ StayBound /\ Len(graph) \in Nat
  BY <1>2, <1>3 DEF ScanIInv, GraphFits, Grows, StayBound, WasThere
<1>8. q.version \in 1..Len(graph')
  BY <1>2, <1>5, <1>7 DEF S!Versions
<1>9. HeadsFit' /\ S!SkipIsSound'
  <2>1. q.stamp = platform[q.key].stamp => S!Same(graph'[q.version], S!Content(q.key))
    BY <1>2, <1>5 DEF S!Same, S!Body
  <2>2. binding[q.key] \in S!Bindings' /\ binding' = [binding EXCEPT ![q.key] = binding[q.key]]
    BY <1>2, <1>5 DEF ScanIInv, HeadsFit, S!Bindings, S!Versions
  <2>3. binding[q.key].session # "none" /\ graph'[q.version].in = binding[q.key].session
        /\ (q.key = "codex" => binding[q.key].session = "codex")
    BY <1>2, <1>5 DEF ScanIInv, HeadsFit
  <2> QED BY <1>2, <1>3, <1>5, <1>7, <1>8, <2>1, <2>2, <2>3, HeadMoves
<1>10. ScansFit'
  <2>1. TaskFits(S!Resting)'
    BY DEF TaskFits, S!Resting
  <2> QED BY <1>3, <1>6, <1>7, <2>1, ScansStay DEF ScanIInv
<1> QED BY <1>3, <1>6, <1>7, <1>9, <1>10, AnswersRest DEF ScanIInv

\* A session that is read for the first time, or has changed, gets a version.
LEMMA RecordObservedVersionKeeps == ASSUME ScanIInv, NEW s \in Scanners, S!RecordObservedVersion(s) PROVE ScanIInv'
<1>1. PICK q : q = scanning[s]
  OBVIOUS
<1> DEFINE session == IF q.row = S!Unbound THEN q.key ELSE q.row.session
           row == [session |-> session, common |-> q.row.common]
           v == S!Version(session, q.body, q.version)
<1>2. /\ q.at = "seen" /\ S!Scanning(s, S!Resting)
      /\ IF binding[q.key] \in {S!Unbound, row}
         THEN /\ S!Put(v) /\ binding' = [binding EXCEPT ![q.key] = row]
              /\ head' = [head EXCEPT ![q.key] = [version |-> S!Index(v), fp |-> S!Catalog(q.stamp)]]
         ELSE UNCHANGED <<graph, binding, head>>
  BY <1>1 DEF S!RecordObservedVersion, S!Store
<1>3. scanning' = [scanning EXCEPT ![s] = S!Resting] /\ UNCHANGED <<platform, proposal, answer, verified>>
  BY <1>2 DEF S!Scanning
<1>4. CASE binding[q.key] \notin {S!Unbound, row}
  BY <1>2, <1>4, RestingFits, TaskGoes
<1>5. CASE binding[q.key] \in {S!Unbound, row}
  <2>1. TaskFits(q)
    BY <1>1 DEF ScanIInv, ScansFit
  <2>2. /\ q.key \in S!Keys /\ q.stamp \in Nat /\ q.stamp <= platform[q.key].stamp
        /\ q.row \in S!Bindings /\ q.row.session \in {"none", binding[q.key].session}
        /\ q.row.session = "none" => q.row = S!Unbound
        /\ q.version \in S!Versions /\ q.body \in BodyRow /\ q.body.of = q.key /\ WasThere(q.body)
        /\ q.stamp = platform[q.key].stamp => q.body = S!Content(q.key)
    BY <1>2, <2>1 DEF TaskFits
  <2>3. /\ session # "none" /\ session \in S!Keys /\ (q.key = "codex" => session = "codex")
        /\ row \in S!Bindings /\ row.session = session
        /\ binding[q.key].session # "none" => binding[q.key].session = session
    <3>1. session # "none" /\ session \in S!Keys
      BY <2>2 DEF S!Unbound, S!Bindings, S!Keys
    <3>2. q.key = "codex" => session = "codex"
      BY <2>2 DEF ScanIInv, HeadsFit, S!Unbound, S!Keys
    <3>3. row \in S!Bindings /\ row.session = session
      BY <2>2, <3>1 DEF S!Bindings
    <3>4. binding[q.key].session # "none" => binding[q.key].session = session
      BY <1>5, <3>3 DEF S!Unbound
    <3> HIDE DEF session, row
    <3> QED BY <3>1, <3>2, <3>3, <3>4
  <2> HIDE DEF session, row
  <2>4. v \in VersionRow /\ v.parent <= Len(graph) /\ v.in = session /\ v.of = q.body.of /\ v.n = q.body.n
        /\ v.d = q.body.d /\ v.t = q.body.t
    BY <2>2, <2>3 DEF S!Version, S!Versions, VersionRow, BodyRow, ScanIInv, GraphFits
  <2>5. WasThere(v)
    BY <2>2, <2>4 DEF WasThere
  <2> HIDE DEF v
  <2>6. PICK at : at = S!Index(v)
    OBVIOUS
  <2>7. GraphFits' /\ Grows /\ at \in 1..Len(graph') /\ graph'[at] = v /\ S!Versions \subseteq S!Versions'
    <3>1. GraphFits' /\ Grows /\ S!Index(v) \in 1..Len(graph') /\ graph'[S!Index(v)] = v
      BY <1>2, <1>3, <1>5, <2>4, <2>5, PutGrows DEF ScanIInv
    <3>2. S!Versions \subseteq S!Versions'
      BY <3>1 DEF Grows, S!Versions, ScanIInv, GraphFits
    <3> QED BY <2>6, <3>1, <3>2
  <2>8. head' = [head EXCEPT ![q.key] = [version |-> at, fp |-> S!Catalog(q.stamp)]]
        /\ binding' = [binding EXCEPT ![q.key] = row] /\ row \in S!Bindings'
    BY <1>2, <1>5, <2>3, <2>6, <2>7 DEF S!Bindings
  <2>9. q.stamp = platform[q.key].stamp => S!Same(graph'[at], S!Content(q.key))
    BY <2>2, <2>4, <2>7 DEF S!Same
  <2>10. HeadsFit' /\ S!SkipIsSound'
    BY <1>3, <2>2, <2>3, <2>4, <2>7, <2>8, <2>9, HeadMoves
  <2>11. StayBound
    BY <2>3, <2>8 DEF StayBound, ScanIInv, HeadsFit
  <2>12. PlatformFits' /\ Elapses
    BY <1>3, PlatformRests
  <2>13. ScansFit'
    <3>1. TaskFits(S!Resting)'
      BY DEF TaskFits, S!Resting
    <3> QED BY <1>3, <2>7, <2>11, <2>12, <3>1, ScansStay DEF ScanIInv
  <2> QED BY <1>3, <2>7, <2>10, <2>12, <2>13, AnswersRest DEF ScanIInv
<1> QED BY <1>4, <1>5

\* A message, a title, or a write that changes nothing.
LEMMA ChangeKeeps == ASSUME ScanIInv, NEW k \in S!Keys, S!Change(k) PROVE ScanIInv'
<1>1. PICK p \in {[platform[k] EXCEPT !.n = IF k = "codex" THEN @ + 1 ELSE @, !.d = IF k = "dsh" THEN @ + 1 ELSE @],
                  [platform[k] EXCEPT !.t = @ + 1], platform[k]} :
         platform' = [platform EXCEPT ![k] = [p EXCEPT !.stamp = @ + 1]]
  BY DEF S!Change
<1>2. /\ platform[k].stamp > 0 /\ platform["codex"].stamp + platform["dsh"].stamp <= MaxChanges
      /\ UNCHANGED <<graph, binding, head, scanning, proposal, answer, verified>>
  BY DEF S!Change, S!There, S!Changes
<1>3. /\ platform \in [S!Keys -> [n : Nat, d : Nat, t : Nat, stamp : Nat]]
      /\ platform["codex"] \in [n : Nat, d : Nat, t : Nat, stamp : Nat] /\ platform["dsh"] \in [n : Nat, d : Nat, t : Nat, stamp : Nat]
  BY DEF ScanIInv, PlatformFits, S!Keys
<1>4. platform[k] \in [n : Nat, d : Nat, t : Nat, stamp : Nat]
  BY <1>3
<1>5. PICK n \in Nat, d \in Nat, t \in Nat :
         /\ platform'[k] = [n |-> n, d |-> d, t |-> t, stamp |-> platform[k].stamp + 1]
         /\ n = platform[k].n \/ (k = "codex" /\ n = platform[k].n + 1)
         /\ d = platform[k].d \/ (k = "dsh" /\ d = platform[k].d + 1)
         /\ t = platform[k].t \/ t = platform[k].t + 1
  <2>1. platform'[k] = [p EXCEPT !.stamp = @ + 1]
    BY <1>1, <1>3
  <2>2. p \in [n : Nat, d : Nat, t : Nat, stamp : Nat] /\ p.stamp = platform[k].stamp
        /\ (p.n = platform[k].n \/ (k = "codex" /\ p.n = platform[k].n + 1))
        /\ (p.d = platform[k].d \/ (k = "dsh" /\ p.d = platform[k].d + 1))
        /\ (p.t = platform[k].t \/ p.t = platform[k].t + 1)
    <3>1. CASE p = [platform[k] EXCEPT !.n = IF k = "codex" THEN @ + 1 ELSE @, !.d = IF k = "dsh" THEN @ + 1 ELSE @]
      <4>1. PICK r \in [n : Nat, d : Nat, t : Nat, stamp : Nat] : r = platform[k]
        BY <1>4
      <4>2. PICK a \in Nat : a = (IF k = "codex" THEN r.n + 1 ELSE r.n)
        BY <4>1
      <4>3. PICK b \in Nat : b = (IF k = "dsh" THEN r.d + 1 ELSE r.d)
        BY <4>1
      <4>4. p = [r EXCEPT !.n = a, !.d = b]
        BY <3>1, <4>1, <4>2, <4>3
      <4>5. p \in [n : Nat, d : Nat, t : Nat, stamp : Nat] /\ p.n = a /\ p.d = b /\ p.t = r.t /\ p.stamp = r.stamp
        BY <4>1, <4>4
      <4> QED BY <4>1, <4>2, <4>3, <4>5
    <3>2. CASE p = [platform[k] EXCEPT !.t = @ + 1]
      BY <1>4, <3>2
    <3>3. CASE p = platform[k]
      BY <1>4, <3>3
    <3> QED BY <1>1, <3>1, <3>2, <3>3
  <2>3. [p EXCEPT !.stamp = @ + 1] = [n |-> p.n, d |-> p.d, t |-> p.t, stamp |-> platform[k].stamp + 1]
    BY <2>2
  <2>4. p.n \in Nat /\ p.d \in Nat /\ p.t \in Nat
    BY <2>2
  <2> QED BY <2>1, <2>2, <2>3, <2>4
<1>6. platform' \in [S!Keys -> [n : Nat, d : Nat, t : Nat, stamp : Nat]] /\ \A o \in S!Keys \ {k} : platform'[o] = platform[o]
  <2>1. [n |-> n, d |-> d, t |-> t, stamp |-> platform[k].stamp + 1] \in [n : Nat, d : Nat, t : Nat, stamp : Nat]
    BY <1>4
  <2> QED BY <1>1, <1>3, <1>5, <2>1
<1>7. PlatformFits'
  <2>1. CASE k = "codex"
    <3>1. platform'["dsh"] = platform["dsh"]
      BY <1>6, <2>1 DEF S!Keys
    <3> QED BY <1>2, <1>3, <1>5, <1>6, <2>1, <3>1, ScanAssumption DEF ScanAssumption, ScanIInv, PlatformFits
  <2>2. CASE k = "dsh"
    <3>1. platform'["codex"] = platform["codex"]
      BY <1>6, <2>2 DEF S!Keys
    <3> QED BY <1>2, <1>3, <1>5, <1>6, <2>2, <3>1, ScanAssumption DEF ScanAssumption, ScanIInv, PlatformFits
  <2> QED BY <2>1, <2>2 DEF S!Keys
<1>8. Elapses
  BY <1>3, <1>4, <1>5, <1>6 DEF Elapses, S!Keys
<1>9. GraphFits' /\ HeadsFit' /\ S!SkipIsSound' /\ Grows /\ StayBound
  BY <1>2, <1>7, <1>8, StoreRests
<1>10. ScansFit'
  BY <1>2, <1>7, <1>8, <1>9, ScansRest DEF ScanIInv
<1>11. platform["dsh"].stamp = 0 => platform'["dsh"].stamp = 0
  BY <1>2, <1>6 DEF S!Keys
<1> QED BY <1>2, <1>7, <1>9, <1>10, <1>11, AnswersRest DEF ScanIInv

\* What a plan rests on does not change while it is made.
LEMMA ProposeKeeps ==
    ASSUME ScanIInv, NEW source \in 1..Len(graph), NEW target \in S!Versions,
           NEW operations \in SUBSET {"review", "append", "title", "create"},
           NEW preconditions \in SUBSET [key : S!Keys, fp : Prints],
           S!Propose(source, target, operations, preconditions),
           preconditions = {} => operations = {"create"} /\ graph[source].of = "codex" /\ platform["dsh"].stamp = 0,
           preconditions # {} => \E p \in preconditions : p.key = "codex" /\ p.fp.kind = "catalog"
    PROVE  ScanIInv'
<1>1. /\ proposal' = [there |-> TRUE, source |-> source, target |-> target, operations |-> operations,
                      preconditions |-> preconditions, completed |-> FALSE]
      /\ answer' = "none" /\ UNCHANGED <<platform, graph, binding, head, scanning, verified>>
  BY DEF S!Propose
<1>2. PlatformFits' /\ Elapses
  BY <1>1, PlatformRests
<1>3. GraphFits' /\ HeadsFit' /\ S!SkipIsSound' /\ Grows /\ StayBound
  BY <1>1, <1>2, StoreRests
<1>4. ScansFit'
  BY <1>1, <1>2, <1>3, ScansRest DEF ScanIInv
<1>5. ProposalFits'
  BY <1>1 DEF ProposalFits, Proposals, S!Versions
<1>6. ApplyFits'
  BY <1>1 DEF ScanIInv, ApplyFits, S!Versions
<1> QED BY <1>2, <1>3, <1>4, <1>5, <1>6 DEF ScanIInv

LEMMA CreatePlanKeeps == ASSUME ScanIInv, S!CreatePlan PROVE ScanIInv'
<1> DEFINE source == head["codex"].version
           target == head["dsh"].version
           operations == S!Operations(S!Body(source), S!Body(target))
           preconditions == S!Fingerprints(S!Keys)
<1>1. (\A k \in S!Keys : binding[k].session = "codex") /\ S!Propose(source, target, operations, preconditions)
  BY DEF S!CreatePlan
<1>2. source \in 1..Len(graph) /\ target \in S!Versions
  BY <1>1 DEF ScanIInv, HeadsFit, GraphFits, S!Versions, S!Keys
<1>3. \E p \in preconditions : p.key = "codex" /\ p.fp.kind = "catalog"
  <2>1. [key |-> "codex", fp |-> head["codex"].fp] \in preconditions
    BY DEF S!Fingerprints, S!Keys
  <2> HIDE DEF preconditions
  <2> QED BY <2>1 DEF ScanIInv, HeadsFit
<1>4. operations \in SUBSET {"review", "append", "title", "create"}
  BY DEF S!Operations
<1>5. preconditions \in SUBSET [key : S!Keys, fp : Prints]
  BY DEF ScanIInv, HeadsFit, S!Fingerprints
<1> HIDE DEF source, target, operations, preconditions
<1> QED BY <1>1, <1>2, <1>3, <1>4, <1>5, ProposeKeeps

LEMMA CreateRestorePlanKeeps == ASSUME ScanIInv, NEW v \in DOMAIN graph, S!CreateRestorePlan(v) PROVE ScanIInv'
<1>1. PICK preconditions : preconditions = IF head["codex"].version = v THEN S!Fingerprints({"codex"}) ELSE {}
  OBVIOUS
<1>2. graph[v].of = "codex" /\ ~proposal.there /\ S!Propose(v, 0, {"create"}, preconditions)
  BY <1>1 DEF S!CreateRestorePlan, S!NoVersion
<1>3. v \in 1..Len(graph) /\ 0 \in S!Versions
  BY DEF ScanIInv, GraphFits, S!Versions
<1>4. platform["dsh"].stamp = 0
  BY <1>2 DEF ScanIInv, ProposalFits
<1>5. preconditions # {} => \E p \in preconditions : p.key = "codex" /\ p.fp.kind = "catalog"
  <2>1. preconditions # {} => [key |-> "codex", fp |-> head["codex"].fp] \in preconditions
    BY <1>1 DEF S!Fingerprints
  <2> QED BY <2>1 DEF ScanIInv, HeadsFit
<1>6. preconditions \in SUBSET [key : S!Keys, fp : Prints]
  BY <1>1 DEF ScanIInv, HeadsFit, S!Fingerprints, S!Keys
<1> QED BY <1>2, <1>3, <1>4, <1>5, <1>6, ProposeKeeps

\* An answer is given, and nothing written.
LEMMA AnswerKeeps ==
    ASSUME ScanIInv, NEW a \in {"none", "verify", "refused", "stale", "failed", "completed"}, S!Answer(a),
           UNCHANGED <<graph, verified>>, proposal.there
    PROVE  ScanIInv'
<1>1. answer' = a /\ UNCHANGED <<platform, graph, binding, head, scanning, proposal, verified>>
  BY DEF S!Answer
<1>2. PlatformFits' /\ Elapses
  BY <1>1, PlatformRests
<1>3. GraphFits' /\ HeadsFit' /\ S!SkipIsSound' /\ Grows /\ StayBound
  BY <1>1, <1>2, StoreRests
<1>4. ScansFit'
  BY <1>1, <1>2, <1>3, ScansRest DEF ScanIInv
<1>5. ProposalFits'
  BY <1>1 DEF ScanIInv, ProposalFits, Proposals, S!Versions
<1>6. ApplyFits'
  BY <1>1 DEF ScanIInv, ApplyFits, S!Versions
<1> QED BY <1>2, <1>3, <1>4, <1>5, <1>6 DEF ScanIInv

LEMMA ApplyPlanKeeps == ASSUME ScanIInv, S!ApplyPlan PROVE ScanIInv'
<1>1. proposal.there /\ proposal.completed \in BOOLEAN /\ proposal.source \in 1..Len(graph)
  BY DEF S!ApplyPlan, ScanIInv, ProposalFits, Proposals
<1>2. CASE proposal.completed \/ "review" \in proposal.operations \/ ~(\A p \in proposal.preconditions : S!Holds(p))
  <2>1. (S!Answer("verify") \/ S!Answer("refused") \/ S!Answer("stale")) /\ UNCHANGED <<graph, verified>>
    BY <1>1, <1>2 DEF S!ApplyPlan
  <2> QED BY <1>1, <2>1, AnswerKeeps
<1>3. CASE ~(proposal.completed \/ "review" \in proposal.operations \/ ~(\A p \in proposal.preconditions : S!Holds(p)))
  <2>1. /\ platform' = [platform EXCEPT !["dsh"] = S!Written]
        /\ proposal' = [proposal EXCEPT !.completed = TRUE]
        /\ answer' = "verify" /\ UNCHANGED <<graph, binding, head, scanning, verified>>
    BY <1>1, <1>3 DEF S!ApplyPlan
  <2>2. proposal.preconditions = {}
    <3>1. ASSUME NEW p \in proposal.preconditions, p.fp.kind = "catalog" PROVE ~S!Holds(p)
      BY <3>1 DEF S!Holds, S!Observed
    <3> QED BY <1>1, <1>3, <3>1 DEF ScanIInv, ProposalFits
  <2>3. proposal.operations = {"create"} /\ graph[proposal.source].of = "codex" /\ platform["dsh"].stamp = 0
    BY <1>1, <1>3, <2>2 DEF ScanIInv, ProposalFits
  <2>4. PICK g \in VersionRow : /\ g = graph[proposal.source] /\ g.n <= platform["codex"].n /\ g.d = 0
                                /\ g.t <= platform["codex"].t
    BY <1>1, <2>3 DEF ScanIInv, GraphFits, WasThere
  <2>5. platform["dsh"] \in [n : Nat, d : Nat, t : Nat, stamp : Nat] /\ platform["codex"] \in [n : Nat, d : Nat, t : Nat, stamp : Nat]
    BY DEF ScanIInv, PlatformFits, S!Keys
  <2>6. S!Written = [n |-> g.n, d |-> 0, t |-> g.t, stamp |-> 1]
    <3>1. S!Body(proposal.source) = [of |-> g.of, n |-> g.n, d |-> 0, t |-> g.t]
      BY <2>4 DEF S!Body
    <3>2. {"create", "append"} \cap proposal.operations # {}
      BY <2>3
    <3>3. PICK there \in [n : Nat, d : Nat, t : Nat, stamp : Nat] : there = platform["dsh"] /\ there.stamp = 0
      BY <2>3, <2>5
    <3>4. PICK x : x = [there EXCEPT !.n = g.n, !.d = 0]
      OBVIOUS
    <3>5. x \in [n : Nat, d : Nat, t : Nat, stamp : Nat] /\ x.n = g.n /\ x.d = 0 /\ x.stamp = 0
      BY <2>4, <3>3, <3>4 DEF VersionRow
    <3>6. S!Written = [x EXCEPT !.t = g.t, !.stamp = @ + 1]
      BY <3>1, <3>2, <3>3, <3>4 DEF S!Written
    <3>7. PICK y : y = [x EXCEPT !.t = g.t, !.stamp = @ + 1]
      OBVIOUS
    <3>8. y \in [n : Nat, d : Nat, t : Nat, stamp : Nat] /\ y.n = x.n /\ y.d = x.d /\ y.t = g.t /\ y.stamp = x.stamp + 1
      <4>1. y = [x EXCEPT !.t = g.t, !.stamp = x.stamp + 1]
        BY <3>7
      <4>2. g.t \in Nat /\ x.stamp + 1 \in Nat
        BY <2>4, <3>5 DEF VersionRow
      <4> QED BY <3>5, <4>1, <4>2
    <3>9. y = [n |-> y.n, d |-> y.d, t |-> y.t, stamp |-> y.stamp]
      BY <3>8
    <3> QED BY <3>5, <3>6, <3>7, <3>8, <3>9
  <2>7. /\ platform' \in [S!Keys -> [n : Nat, d : Nat, t : Nat, stamp : Nat]]
        /\ platform'["codex"] = platform["codex"] /\ platform'["dsh"] = [n |-> g.n, d |-> 0, t |-> g.t, stamp |-> 1]
    <3>1. [n |-> g.n, d |-> 0, t |-> g.t, stamp |-> 1] \in [n : Nat, d : Nat, t : Nat, stamp : Nat]
      BY <2>4 DEF VersionRow
    <3> QED BY <2>1, <2>6, <3>1 DEF ScanIInv, PlatformFits, S!Keys
  <2>8. PlatformFits'
    <3>1. g.n \in Nat /\ g.t \in Nat
      BY <2>4 DEF VersionRow
    <3> QED BY <2>4, <2>5, <2>7, <3>1, ScanAssumption DEF ScanAssumption, ScanIInv, PlatformFits
  <2>9. Elapses
    BY <2>3, <2>7 DEF Elapses, S!Keys
  <2>10. GraphFits' /\ HeadsFit' /\ S!SkipIsSound' /\ Grows /\ StayBound
    BY <2>1, <2>8, <2>9, StoreRests
  <2>11. ScansFit'
    BY <2>1, <2>8, <2>9, <2>10, ScansRest DEF ScanIInv
  <2>12. ProposalFits'
    <3>1. /\ proposal'.source = proposal.source /\ proposal'.target = proposal.target /\ proposal'.there = proposal.there
          /\ proposal'.operations = proposal.operations /\ proposal'.preconditions = proposal.preconditions
          /\ proposal'.completed /\ proposal' \in Proposals
      BY <1>1, <2>1 DEF ScanIInv, ProposalFits, Proposals
    <3> QED BY <1>1, <2>1, <3>1 DEF ScanIInv, ProposalFits, Proposals, S!Versions
  <2>13. ApplyFits'
    BY <1>1, <2>1 DEF ScanIInv, ApplyFits, S!Versions
  <2> QED BY <2>8, <2>10, <2>11, <2>12, <2>13 DEF ScanIInv
<1> QED BY <1>2, <1>3

\* What the plan wrote is read again and stored.
LEMMA VerifyKeeps == ASSUME ScanIInv, S!Verify PROVE ScanIInv'
<1>1. proposal.there /\ proposal.source \in 1..Len(graph) /\ proposal.target \in S!Versions
  BY DEF S!Verify, ScanIInv, ApplyFits, ProposalFits, Proposals
<1> DEFINE v == S!Version("codex", S!Content("dsh"), proposal.target)
<1>2. CASE ~S!Same(S!Body(proposal.source), S!Content("dsh"))
  <2>1. S!Answer("failed") /\ UNCHANGED <<graph, verified>>
    BY <1>2 DEF S!Verify
  <2> QED BY <1>1, <2>1, AnswerKeeps
<1>3. CASE S!Same(S!Body(proposal.source), S!Content("dsh"))
  <2>1. S!Put(v) /\ verified' = S!Index(v) /\ answer' = "advance" /\ UNCHANGED <<platform, binding, head, scanning, proposal>>
    BY <1>3 DEF S!Verify, S!Answer
  <2>2. platform["dsh"] \in [n : Nat, d : Nat, t : Nat, stamp : Nat]
    BY DEF ScanIInv, PlatformFits, S!Keys
  <2>3. /\ v.parent = proposal.target /\ v.in = "codex" /\ v.of = "dsh"
        /\ v.n = S!Content("dsh").n /\ v.d = S!Content("dsh").d /\ v.t = S!Content("dsh").t
    BY DEF S!Version, S!Content
  <2>a. v \in VersionRow
    BY <1>1, <2>2 DEF S!Version, S!Content, S!Versions, S!Keys, VersionRow
  <2>b. v.parent <= Len(graph)
    BY <1>1, <2>3 DEF S!Versions, ScanIInv, GraphFits
  <2>c. S!Same(S!Body(proposal.source), v)
    BY <1>3, <2>3 DEF S!Same
  <2>4. WasThere(v)
    BY <2>3 DEF WasThere
  <2> HIDE DEF v
  <2>5. GraphFits' /\ Grows /\ verified' \in S!Versions' /\ verified' # 0 /\ graph'[verified'] = v
    BY <2>1, <2>a, <2>b, <2>4, PutGrows DEF ScanIInv
  <2>6. HeadsFit' /\ S!SkipIsSound'
    BY <2>1, <2>5, HeadsUnderGrowth
  <2>7. PlatformFits' /\ Elapses /\ StayBound
    BY <2>1, PlatformRests DEF StayBound
  <2>8. ScansFit'
    BY <2>1, <2>5, <2>7, ScansRest DEF ScanIInv
  <2>9. ProposalFits'
    <3>1. \A i \in S!Versions : i \in S!Versions'
      BY <2>5 DEF ScanIInv, GraphFits, Grows, S!Versions
    <3>2. \A i \in 1..Len(graph) : i \in 1..Len(graph') /\ graph'[i] = graph[i]
      BY <2>5 DEF ScanIInv, GraphFits, Grows
    <3> QED BY <1>1, <2>1, <3>1, <3>2 DEF ScanIInv, ProposalFits, Proposals
  <2>10. ApplyFits'
    <3>1. graph'[proposal.source] = graph[proposal.source]
      BY <1>1, <2>5 DEF Grows
    <3>2. S!Same(S!Body(proposal.source)', S!Body(verified)')
      <4>1. S!Same(graph[proposal.source], v)
        BY <2>c DEF S!Same, S!Body
      <4>2. S!Same(graph'[proposal.source], graph'[verified'])
        BY <2>5, <3>1, <4>1
      <4> QED BY <2>1, <4>2 DEF S!Same, S!Body
    <3>3. graph'[verified'].in = "codex" /\ proposal'.there
      BY <1>1, <2>1, <2>3, <2>5
    <3> QED BY <1>1, <2>1, <2>5, <3>2, <3>3 DEF ApplyFits, S!Same
  <2> QED BY <2>5, <2>6, <2>7, <2>8, <2>9, <2>10 DEF ScanIInv
<1> QED BY <1>2, <1>3

\* The heads move to what was verified, in one transaction.
LEMMA AdvanceKeeps == ASSUME ScanIInv, S!AdvanceVerifiedRefs PROVE ScanIInv'
<1>1. /\ answer = "advance" /\ UNCHANGED <<graph, verified>>
      /\ proposal.there /\ proposal.source \in 1..Len(graph)
      /\ verified \in S!Versions /\ verified # 0 /\ graph[verified].in = "codex"
      /\ S!Same(S!Body(proposal.source), S!Body(verified))
  BY DEF S!AdvanceVerifiedRefs, ScanIInv, ApplyFits, ProposalFits, Proposals
<1>2. CASE ~S!Advanceable
  <2>1. S!Answer("stale")
    BY <1>2 DEF S!AdvanceVerifiedRefs
  <2> QED BY <1>1, <2>1, AnswerKeeps
<1>3. CASE S!Advanceable
  <2> DEFINE fp == [kind |-> "content", body |-> S!Body(verified)]
  <2>1. /\ head' = [codex |-> [head["codex"] EXCEPT !.version = verified], dsh |-> [version |-> verified, fp |-> fp]]
        /\ binding' = [k \in S!Keys |-> [session |-> "codex", common |-> verified]]
        /\ answer' = "completed" /\ UNCHANGED <<platform, scanning, proposal>>
    BY <1>3 DEF S!AdvanceVerifiedRefs
  <2>2. fp \in Prints /\ fp.kind = "content"
    <3>1. graph[verified] \in VersionRow
      BY <1>1 DEF ScanIInv, GraphFits, S!Versions
    <3> QED BY <3>1 DEF S!Body, VersionRow, BodyRow, Prints
  <2>3. /\ head["codex"] \in [version : S!Versions, fp : Prints]
        /\ [head["codex"] EXCEPT !.version = verified] = [version |-> verified, fp |-> head["codex"].fp]
    BY DEF ScanIInv, HeadsFit, S!Keys
  <2>4. /\ head'["codex"] = [version |-> verified, fp |-> head["codex"].fp]
        /\ head'["dsh"] = [version |-> verified, fp |-> fp]
        /\ \A k \in S!Keys : binding'[k] = [session |-> "codex", common |-> verified]
    BY <2>1, <2>3
  <2> HIDE DEF fp
  <2>5. HeadsFit'
    <3>1. binding' \in [S!Keys -> S!Bindings]'
      BY <1>1, <2>1 DEF S!Bindings, S!Keys, S!Versions
    <3>2. head' \in [S!Keys -> [version : S!Versions, fp : Prints]]'
      <4>1. [version |-> verified, fp |-> head["codex"].fp] \in [version : S!Versions, fp : Prints]
            /\ [version |-> verified, fp |-> fp] \in [version : S!Versions, fp : Prints]
        BY <1>1, <2>2, <2>3
      <4>2. head' = [k \in S!Keys |-> IF k = "codex" THEN [version |-> verified, fp |-> head["codex"].fp]
                                       ELSE [version |-> verified, fp |-> fp]]
        BY <2>1, <2>3 DEF S!Keys
      <4> QED BY <1>1, <4>1, <4>2 DEF S!Versions
    <3>3. \A k \in S!Keys : head'[k].fp.kind = "catalog" => head'[k].fp.stamp <= platform'[k].stamp
      BY <2>1, <2>2, <2>4 DEF ScanIInv, HeadsFit, S!Keys
    <3> QED BY <1>1, <2>4, <3>1, <3>2, <3>3 DEF ScanIInv, HeadsFit, S!Keys
  <2>6. S!SkipIsSound'
    <3> SUFFICES ASSUME NEW k \in S!Keys, head'[k].version # 0, head'[k].fp = S!Catalog(platform'[k].stamp)
                 PROVE  S!Same(S!Body(verified), S!Content(k))
      BY <1>1, <2>1, <2>4 DEF S!SkipIsSound, S!Same, S!Body, S!Content, S!NoVersion, S!Keys
    <3>1. k = "codex"
      BY <2>2, <2>4 DEF S!Keys, S!Catalog
    <3>2. head["codex"].fp = S!Catalog(platform["codex"].stamp) /\ head["codex"].version \in {proposal.source, verified}
      BY <1>3, <2>1, <2>4, <3>1 DEF S!Catalog, S!Advanceable
    <3>3. head["codex"].version # 0
      BY <1>1, <3>2
    <3>4. S!Same(S!Body(head["codex"].version), S!Content("codex"))
      BY <3>2, <3>3 DEF ScanIInv, S!SkipIsSound, S!NoVersion, S!Keys
    <3> QED BY <1>1, <3>1, <3>2, <3>4 DEF S!Same
  <2>7. PlatformFits' /\ Elapses
    BY <2>1, PlatformRests
  <2>8. GraphFits' /\ Grows
    BY <1>1, <2>1 DEF ScanIInv, GraphFits, Grows, WasThere
  <2>9. StayBound
    BY <1>3, <2>4 DEF StayBound, S!Advanceable, ScanIInv, HeadsFit, S!Keys
  <2>10. ScansFit'
    BY <2>1, <2>7, <2>8, <2>9, ScansRest DEF ScanIInv
  <2>11. ProposalFits'
    BY <1>1, <2>1 DEF ScanIInv, ProposalFits, Proposals, S!Versions
  <2>12. ApplyFits'
    BY <1>1, <2>1 DEF ScanIInv, ApplyFits, S!Versions
  <2> QED BY <2>5, <2>6, <2>7, <2>8, <2>10, <2>11, <2>12 DEF ScanIInv
<1> QED BY <1>2, <1>3

LEMMA ScanStep == ScanIInv /\ [S!Next]_scans => ScanIInv'
<1> SUFFICES ASSUME ScanIInv, [S!Next]_scans PROVE ScanIInv'
  OBVIOUS
<1>1. CASE UNCHANGED scans
  <2>1. UNCHANGED <<platform, graph, binding, head, scanning, proposal, answer, verified>>
    BY <1>1 DEF scans
  <2>2. PlatformFits' /\ Elapses
    BY <2>1, PlatformRests
  <2>3. GraphFits' /\ HeadsFit' /\ S!SkipIsSound' /\ Grows /\ StayBound
    BY <2>1, <2>2, StoreRests
  <2>4. ScansFit'
    BY <2>1, <2>2, <2>3, ScansRest DEF ScanIInv
  <2> QED BY <2>1, <2>2, <2>3, <2>4, AnswersRest DEF ScanIInv
<1>2. CASE \E k \in S!Keys : S!Change(k)
  BY <1>2, ChangeKeeps
<1>3. ASSUME NEW s \in Scanners,
             \/ \E k \in S!Keys : S!List(s, k)
             \/ S!FindBinding(s) \/ S!ReadHead(s) \/ S!Observe(s)
             \/ S!RecordObservation(s) \/ S!RecordObservedVersion(s)
      PROVE  ScanIInv'
  BY <1>3, ListKeeps, FindBindingKeeps, ReadHeadKeeps, ObserveKeeps, RecordObservationKeeps, RecordObservedVersionKeeps
<1>4. CASE S!CreatePlan \/ S!ApplyPlan \/ S!Verify \/ S!AdvanceVerifiedRefs
  BY <1>4, CreatePlanKeeps, ApplyPlanKeeps, VerifyKeeps, AdvanceKeeps
<1>5. CASE \E v \in DOMAIN graph : S!CreateRestorePlan(v)
  BY <1>5, CreateRestorePlanKeeps
<1> QED BY <1>1, <1>2, <1>3, <1>4, <1>5 DEF S!Next

\* What a scan passes over is in the graph as it is, whatever scans and applies raced (discovery.ts,
\* repository.ts).
THEOREM ScansAreSound == Spec => []ScanInv
<1>1. Init => ScanIInv
  BY ScanInit DEF Init
<1>2. ScanIInv /\ [Next]_<<focus, ownership, databases, continuation, projection, scans, capture>> => ScanIInv'
  <2> SUFFICES ASSUME ScanIInv, [Next]_<<focus, ownership, databases, continuation, projection, scans, capture>>
               PROVE [S!Next]_scans
    BY ScanStep
  <2> QED BY DEF Next
<1>3. ScanIInv => ScanInv
  BY ScanHolds DEF ScanInv
<1> QED BY <1>1, <1>2, <1>3, PTL DEF Spec

-----------------------------------------------------------------------------
(* The retained projection (ProjectionCache).                              *)

Work      == {"edit", "file", "index", "catalog"}   \* a delta that is loaded
Build     == {"after", "build", "swap"}             \* a baseline that is loaded
Selection == UNION {[some -> P!Payloads] : some \in SUBSET Sessions}
CanonRow  == [state : {"none", "live", "dead"}, head : 0..MaxRevision, ws : Workspaces \cup {"none"}]
CacheRow  == [there : BOOLEAN, by : Nat, through : Nat, digest : [Sessions -> P!Payloads],
              names : [Workspaces -> 0..1], file : [Sessions -> P!Payloads], index : SUBSET Sessions,
              catalog : [Sessions -> P!Payloads], wsFile : [Workspaces -> 0..1]]
JobRow    == [at : P!Points, cursor : Nat, target : Nat, affected : SUBSET Sessions, selected : Selection,
              wss : [Workspaces -> 0..1], todo : SUBSET Sessions, tables : SUBSET Workspaces,
              on : Sessions \cup {"none"}, attempt : Nat, wrote : BOOLEAN]

CacheTyped ==
    /\ canon \in [Sessions -> CanonRow] /\ names \in [Workspaces -> 0..1] /\ log \in Seq(Sessions)
    /\ adapter \in 1..MaxUpgrades + 1 /\ cache \in CacheRow /\ apply \in JobRow /\ dirty \in BOOLEAN
    /\ Len(log) <= MaxRevision /\ cache.by <= adapter /\ cache.through <= Len(log) /\ apply.cursor <= Len(log)

\* No row about the session after the n-th.
Quiet(s, n) == \A r \in (n + 1)..Len(log) : log[r] # s

Alive(s)  == canon[s].state = "live"
Housed(s) == Alive(s) /\ canon[s].ws \in Workspaces

\* A head only grows, and there is one with the first row about the session.
HeadsGrow == \A s \in Sessions :
    /\ canon[s].head <= Len(log) /\ (canon[s].state # "none" => canon[s].head > 0)
    /\ cache.digest[s].head <= canon[s].head
    /\ s \in DOMAIN apply.selected => apply.selected[s].head \in 1..canon[s].head

\* The definitions in the manifest are those of settled sessions, like the sessions themselves.
NamesAreCurrent == \A s \in Sessions : P!Settled(s) /\ Housed(s) => cache.names[canon[s].ws] = names[canon[s].ws]

\* An update has every session the journal names up to its cursor.
DeltaFits == apply.at \in {"page"} \cup Work =>
    /\ cache.there /\ cache.by = adapter /\ cache.through <= apply.cursor
    /\ \A r \in (cache.through + 1)..apply.cursor : log[r] \in apply.affected

\* What is loaded is as the library has it, but for what the journal names behind the cursor.
LoadFits == apply.at \in Work \cup Build => \A s \in Sessions :
    /\ (s \in apply.affected \/ apply.at \in Build) /\ Quiet(s, apply.cursor) => P!Target(s) = P!Shown(s)
    /\ s \in apply.affected /\ apply.at \in Work /\ Alive(s) /\ cache.digest[s].head = canon[s].head =>
          s \in DOMAIN apply.selected /\ apply.selected[s].head = canon[s].head
    /\ Quiet(s, apply.cursor) /\ Housed(s) => apply.wss[canon[s].ws] = names[canon[s].ws]

\* The cache has the head: in the file, in the index and in the catalog.
Placed(s, h) == cache.file[s].head = h /\ s \in cache.index /\ cache.catalog[s].head = h

\* A session that is no longer to be written is written, or was as it is in the manifest.
EditFits == apply.at \in Work =>
    /\ apply.todo \subseteq apply.affected /\ (apply.at # "edit" => apply.on \in apply.todo)
    /\ \A s \in apply.affected \ apply.todo : s \in DOMAIN apply.selected =>
          Placed(s, apply.selected[s].head) \/ cache.digest[s] = apply.selected[s]
    /\ apply.at \in {"index", "catalog"} => cache.file[apply.on] = P!Target(apply.on) /\ apply.wrote
    /\ apply.at = "index" => (apply.on \in cache.index <=> P!Gone(apply.on))
    /\ apply.at = "catalog" => (apply.on \in cache.index <=> ~P!Gone(apply.on))

\* A head never returns: what the manifest has of a live session with the head it has now is there,
\* whatever was interrupted.
HeadsAreThere == \A s \in Sessions :
    Alive(s) /\ cache.digest[s].head = canon[s].head => Placed(s, canon[s].head)

\* Everything there is is what the manifest says.
AsManifest(s) == /\ cache.file[s] = cache.digest[s] /\ cache.catalog[s] = cache.digest[s]
                 /\ s \in cache.index <=> cache.digest[s] # P!Nothing
Written(s)    == /\ cache.file[s] = P!Target(s) /\ cache.catalog[s] = P!Target(s)
                 /\ s \in cache.index <=> s \in DOMAIN apply.selected

Begun(s) == apply.at \in {"index", "catalog"} /\ s = apply.on

CleanFits ==
    /\ apply.at \notin Work => ~apply.wrote
    /\ ~dirty /\ ~apply.wrote => (\A s \in Sessions : AsManifest(s)) /\ cache.wsFile = cache.names
    /\ ~dirty /\ apply.at \in Work =>
          /\ \A s \in Sessions : s \notin apply.affected \/ (s \in apply.todo /\ ~Begun(s)) => AsManifest(s)
          /\ \A s \in apply.affected \ apply.todo : Written(s)
          /\ \A w \in Workspaces \ apply.tables : cache.wsFile[w] = apply.wss[w]

CacheIInv == CacheTyped /\ HeadsGrow /\ P!ManifestIsCurrent /\ NamesAreCurrent /\ DeltaFits /\ LoadFits /\ EditFits
             /\ HeadsAreThere /\ CleanFits

\* What a change of the library that journals the rows does.
Changes(rows) ==
    /\ log' = log \o rows /\ Len(log) + Len(rows) <= MaxRevision
    /\ UNCHANGED <<adapter, cache, apply, dirty>>
    /\ canon' \in [Sessions -> CanonRow] /\ names' \in [Workspaces -> 0..1]
    /\ \A s \in Sessions :
          /\ canon[s].head <= canon'[s].head /\ canon'[s].head <= Len(log) + Len(rows)
          /\ canon'[s].state # "none" => canon'[s].head > 0
          /\ canon'[s].state = "live" /\ canon'[s].head = canon[s].head => canon[s].state = "live"
          /\ (\A r \in 1..Len(rows) : rows[r] # s) =>
                canon'[s] = canon[s] /\ (Housed(s) => names'[canon[s].ws] = names[canon[s].ws])

\* The journal only grows: what is quiet afterwards was quiet before, and no new row is about it.
LEMMA LogGrows ==
  ASSUME log \in Seq(Sessions), NEW rows \in Seq(Sessions), log' = log \o rows
  PROVE  /\ log' \in Seq(Sessions) /\ Len(log') = Len(log) + Len(rows)
         /\ \A r \in 1..Len(log) : log'[r] = log[r]
         /\ \A s \in Sessions, n \in 0..Len(log) : (\A r \in (n + 1)..Len(log') : log'[r] # s) =>
               Quiet(s, n) /\ \A r \in 1..Len(rows) : rows[r] # s
<1>1. log' \in Seq(Sessions) /\ Len(log') = Len(log) + Len(rows) /\ Len(log) \in Nat /\ Len(rows) \in Nat
  OBVIOUS
<1>2. \A r \in 1..Len(log) : log'[r] = log[r]
  OBVIOUS
<1>3. \A r \in 1..Len(rows) : log'[Len(log) + r] = rows[r]
  OBVIOUS
<1>4. ASSUME NEW s \in Sessions, NEW n \in 0..Len(log), \A r \in (n + 1)..Len(log') : log'[r] # s
      PROVE  Quiet(s, n) /\ \A r \in 1..Len(rows) : rows[r] # s
  <2>1. ASSUME NEW r \in (n + 1)..Len(log) PROVE log[r] # s
    <3>1. r \in 1..Len(log) /\ r \in (n + 1)..Len(log')
      BY <1>1
    <3> QED BY <3>1, <1>2, <1>4
  <2>2. ASSUME NEW r \in 1..Len(rows) PROVE rows[r] # s
    <3>1. Len(log) + r \in (n + 1)..Len(log')
      BY <1>1
    <3> QED BY <3>1, <1>3, <1>4
  <2> QED BY <2>1, <2>2 DEF Quiet
<1> QED BY <1>1, <1>2, <1>4

LEMMA LibraryKeeps ==
  ASSUME CacheIInv, NEW rows \in Seq(Sessions), Changes(rows)
  PROVE  CacheIInv'
<1>1. /\ log' \in Seq(Sessions) /\ Len(log') = Len(log) + Len(rows) /\ Len(log') <= MaxRevision
      /\ \A r \in 1..Len(log) : log'[r] = log[r]
      /\ \A s \in Sessions, n \in 0..Len(log) : (\A r \in (n + 1)..Len(log') : log'[r] # s) =>
            Quiet(s, n) /\ \A r \in 1..Len(rows) : rows[r] # s
  BY LogGrows DEF CacheIInv, CacheTyped, Changes
<1>2. /\ Len(log) \in Nat /\ Len(rows) \in Nat /\ Len(log) <= Len(log')
      /\ cache.through \in 0..Len(log) /\ apply.cursor \in 0..Len(log)
  BY <1>1 DEF CacheIInv, CacheTyped, CacheRow, JobRow
<1>3. UNCHANGED <<adapter, cache, apply, dirty>>
  BY DEF Changes
<1>4. ASSUME NEW s \in Sessions, NEW n \in 0..Len(log), \A r \in (n + 1)..Len(log') : log'[r] # s
      PROVE  /\ Quiet(s, n) /\ canon'[s] = canon[s] /\ P!Shown(s)' = P!Shown(s)
             /\ Housed(s)' => Housed(s) /\ names'[canon[s].ws] = names[canon[s].ws]
  <2>1. Quiet(s, n) /\ canon'[s] = canon[s] /\ (Housed(s) => names'[canon[s].ws] = names[canon[s].ws])
    BY <1>1, <1>4 DEF Changes
  <2> QED BY <2>1, <1>3 DEF P!Shown, P!Payload, P!Nothing, Housed, Alive
<1>5. CacheTyped'
  BY <1>1, <1>2, <1>3 DEF CacheIInv, CacheTyped, Changes
<1>6. HeadsGrow'
  <2> SUFFICES ASSUME NEW s \in Sessions
               PROVE  /\ canon'[s].head <= Len(log') /\ (canon'[s].state # "none" => canon'[s].head > 0)
                      /\ cache.digest[s].head <= canon'[s].head
                      /\ s \in DOMAIN apply.selected => apply.selected[s].head \in 1..canon'[s].head
    BY <1>3 DEF HeadsGrow
  <2>1. canon[s].head \in Nat /\ canon'[s].head \in Nat
    BY CacheAssumption DEF CacheIInv, CacheTyped, CanonRow, Changes, CacheAssumption
  <2>2. cache.digest[s].head \in Nat
    BY CacheAssumption DEF CacheIInv, CacheTyped, CacheRow, P!Payloads, CacheAssumption
  <2> QED BY <1>1, <2>1, <2>2 DEF CacheIInv, HeadsGrow, Changes
<1>7. ASSUME NEW s \in Sessions, P!Settled(s)'
      PROVE  P!Settled(s) /\ \A r \in (cache.through + 1)..Len(log') : log'[r] # s
  <2>1. cache.there /\ cache.by = adapter /\ \A r \in (cache.through + 1)..Len(log') : log'[r] # s
    BY <1>3, <1>7 DEF P!Settled
  <2> QED BY <2>1, <1>2, <1>4 DEF P!Settled, Quiet
<1>8. P!ManifestIsCurrent' /\ NamesAreCurrent'
  <2> SUFFICES ASSUME NEW s \in Sessions, P!Settled(s)'
               PROVE  /\ cache.digest[s] = P!Shown(s)'
                      /\ Housed(s)' => cache.names[canon'[s].ws] = names'[canon'[s].ws]
    BY <1>3 DEF P!ManifestIsCurrent, NamesAreCurrent
  <2> QED BY <1>2, <1>4, <1>7 DEF CacheIInv, P!ManifestIsCurrent, NamesAreCurrent
<1>9. DeltaFits'
  BY <1>1, <1>2, <1>3 DEF CacheIInv, DeltaFits
<1>10. LoadFits'
  <2> SUFFICES ASSUME apply.at \in Work \cup Build, NEW s \in Sessions
               PROVE  /\ (s \in apply.affected \/ apply.at \in Build) /\ Quiet(s, apply.cursor)' => P!Target(s) = P!Shown(s)'
                      /\ s \in apply.affected /\ apply.at \in Work /\ Alive(s)' /\ cache.digest[s].head = canon'[s].head =>
                            s \in DOMAIN apply.selected /\ apply.selected[s].head = canon'[s].head
                      /\ Quiet(s, apply.cursor)' /\ Housed(s)' => apply.wss[canon'[s].ws] = names'[canon'[s].ws]
    BY <1>3 DEF LoadFits, P!Target, P!Gone
  <2>1. ASSUME Quiet(s, apply.cursor)'
        PROVE  /\ (s \in apply.affected \/ apply.at \in Build) => P!Target(s) = P!Shown(s)'
               /\ Housed(s)' => apply.wss[canon'[s].ws] = names'[canon'[s].ws]
    <3>1. \A r \in (apply.cursor + 1)..Len(log') : log'[r] # s
      BY <1>3, <2>1 DEF Quiet
    <3> QED BY <3>1, <1>2, <1>4 DEF CacheIInv, LoadFits
  <2>2. ASSUME s \in apply.affected, apply.at \in Work, Alive(s)', cache.digest[s].head = canon'[s].head
        PROVE  s \in DOMAIN apply.selected /\ apply.selected[s].head = canon'[s].head
    <3>1. canon[s].head \in Nat /\ canon'[s].head \in Nat /\ cache.digest[s].head <= canon[s].head
          /\ canon[s].head <= canon'[s].head
      BY CacheAssumption DEF CacheIInv, CacheTyped, CanonRow, Changes, HeadsGrow, CacheAssumption
    <3>2. canon'[s].head = canon[s].head /\ Alive(s)
      BY <2>2, <3>1 DEF Alive, Changes
    <3> QED BY <2>2, <3>2 DEF CacheIInv, LoadFits
  <2> QED BY <2>1, <2>2
<1>11. EditFits' /\ CleanFits'
  BY <1>3 DEF CacheIInv, EditFits, CleanFits, Placed, AsManifest, Written, Begun, P!Target, P!Gone, P!Nothing
<1>12. HeadsAreThere'
  <2> SUFFICES ASSUME NEW s \in Sessions, Alive(s)', cache.digest[s].head = canon'[s].head
               PROVE  Placed(s, canon'[s].head)
    BY <1>3 DEF HeadsAreThere, Placed
  <2>1. canon[s].head \in Nat /\ canon'[s].head \in Nat /\ cache.digest[s].head <= canon[s].head
        /\ canon[s].head <= canon'[s].head
    BY CacheAssumption DEF CacheIInv, CacheTyped, CanonRow, Changes, HeadsGrow, CacheAssumption
  <2>2. canon'[s].head = canon[s].head /\ Alive(s)
    BY <2>1 DEF Alive, Changes
  <2> QED BY <2>2 DEF CacheIInv, HeadsAreThere
<1> QED BY <1>5, <1>6, <1>8, <1>9, <1>10, <1>11, <1>12 DEF CacheIInv

LEMMA StampKeeps ==
  ASSUME CacheIInv, NEW s \in Sessions, NEW from, NEW to \in {"live", "dead"}, P!Stamp(s, from, to),
         to = "live" \/ from = "live"
  PROVE  CacheIInv'
<1> DEFINE rows == <<s>>
           row  == [canon[s] EXCEPT !.state = to, !.head = @ + 1]
<1>1. rows \in Seq(Sessions) /\ Len(rows) = 1 /\ rows[1] = s
  OBVIOUS
<1>2. canon[s] \in CanonRow
  BY DEF CacheIInv, CacheTyped
<1>3. canon' = [canon EXCEPT ![s] = row] /\ P!Journalled(rows) /\ names' = names
  BY DEF P!Stamp
<1>4. canon[s].head \in Nat /\ canon[s].head <= Len(log) /\ Len(log) \in Nat /\ Len(log) + 1 <= MaxRevision
  BY <1>1, <1>3, CacheAssumption DEF CacheIInv, CacheTyped, CanonRow, HeadsGrow, P!Journalled, CacheAssumption
<1>5. row \in CanonRow /\ row.state = to /\ row.head = canon[s].head + 1
  <2>1. PICK h \in 0..MaxRevision : h = canon[s].head + 1
    BY <1>4, CacheAssumption DEF CacheAssumption
  <2>2. row = [canon[s] EXCEPT !.state = to, !.head = h]
    BY <2>1
  <2> QED BY <1>2, <2>1, <2>2 DEF CanonRow
<1>6. canon' \in [Sessions -> CanonRow] /\ canon'[s] = row /\ \A x \in Sessions \ {s} : canon'[x] = canon[x]
  BY <1>3, <1>5 DEF CacheIInv, CacheTyped
<1>7. row.state = to /\ row.head = canon[s].head + 1
  BY <1>5
<1>8. \A x \in Sessions : canon[x].head \in Nat /\ canon[x].head <= Len(log)
                          /\ (canon[x].state # "none" => canon[x].head > 0)
  BY CacheAssumption DEF CacheIInv, CacheTyped, CanonRow, HeadsGrow, CacheAssumption
<1> HIDE DEF row, rows
<1>9. Changes(rows)
  <2>1. ASSUME NEW x \in Sessions
        PROVE  /\ canon[x].head <= canon'[x].head /\ canon'[x].head <= Len(log) + Len(rows)
               /\ canon'[x].state # "none" => canon'[x].head > 0
               /\ canon'[x].state = "live" /\ canon'[x].head = canon[x].head => canon[x].state = "live"
               /\ (\A r \in 1..Len(rows) : rows[r] # x) =>
                     canon'[x] = canon[x] /\ (Housed(x) => names'[canon[x].ws] = names[canon[x].ws])
    <3>1. CASE x = s
      <4>1. canon'[x].head = canon[x].head + 1
        BY <1>6, <1>7, <3>1
      <4>2. ~\A r \in 1..Len(rows) : rows[r] # x
        BY <1>1, <3>1
      <4> QED BY <1>1, <1>8, <4>1, <4>2
    <3>2. CASE x # s
      BY <1>1, <1>3, <1>4, <1>6, <1>8, <3>2
    <3> QED BY <3>1, <3>2
  <2> QED BY <1>1, <1>3, <1>6, <2>1 DEF Changes, P!Journalled, CacheIInv, CacheTyped
<1> QED BY <1>1, <1>9, LibraryKeeps

LEMMA MoveKeeps ==
  ASSUME CacheIInv, NEW s \in Sessions, NEW w \in Workspaces \cup {"none"}, P!Move(s, w)
  PROVE  CacheIInv'
<1> DEFINE rows == <<s>>
           row  == [state |-> canon[s].state, head |-> canon[s].head, ws |-> w]
<1>1. rows \in Seq(Sessions) /\ Len(rows) = 1 /\ rows[1] = s
  OBVIOUS
<1>2. canon[s] \in CanonRow /\ [canon[s] EXCEPT !.ws = w] = row /\ canon[s].state = "live"
  <2>1. canon[s] \in CanonRow /\ canon[s].state = "live"
    BY DEF CacheIInv, CacheTyped, P!Move
  <2> QED BY <2>1 DEF CanonRow
<1>3. canon' = [canon EXCEPT ![s] = row] /\ P!Journalled(rows) /\ names' = names
  BY <1>2 DEF P!Move
<1>4. Len(log) \in Nat
  BY DEF CacheIInv, CacheTyped
<1>5. row \in CanonRow /\ row.head = canon[s].head /\ row.state = canon[s].state
  BY <1>2 DEF CanonRow
<1>6. canon' \in [Sessions -> CanonRow] /\ canon'[s] = row /\ \A x \in Sessions \ {s} : canon'[x] = canon[x]
  BY <1>3, <1>5 DEF CacheIInv, CacheTyped
<1>8. \A x \in Sessions : canon[x].head \in Nat /\ canon[x].head <= Len(log)
                          /\ (canon[x].state # "none" => canon[x].head > 0)
  BY CacheAssumption DEF CacheIInv, CacheTyped, CanonRow, HeadsGrow, CacheAssumption
<1> HIDE DEF row, rows
<1>9. Changes(rows)
  <2>1. ASSUME NEW x \in Sessions
        PROVE  /\ canon[x].head <= canon'[x].head /\ canon'[x].head <= Len(log) + Len(rows)
               /\ canon'[x].state # "none" => canon'[x].head > 0
               /\ canon'[x].state = "live" /\ canon'[x].head = canon[x].head => canon[x].state = "live"
               /\ (\A r \in 1..Len(rows) : rows[r] # x) =>
                     canon'[x] = canon[x] /\ (Housed(x) => names'[canon[x].ws] = names[canon[x].ws])
    <3>1. CASE x = s
      <4>1. canon'[x].head = canon[x].head /\ canon'[x].state = canon[x].state
        BY <1>5, <1>6, <3>1
      <4>2. ~\A r \in 1..Len(rows) : rows[r] # x
        BY <1>1, <3>1
      <4> QED BY <1>1, <1>4, <1>8, <4>1, <4>2
    <3>2. CASE x # s
      BY <1>1, <1>3, <1>4, <1>6, <1>8, <3>2
    <3> QED BY <3>1, <3>2
  <2> QED BY <1>1, <1>3, <1>6, <2>1 DEF Changes, P!Journalled, CacheIInv, CacheTyped
<1> QED BY <1>1, <1>9, LibraryKeeps

\* The cardinality the instance counts with is that of the theorems.
LEMMA SameCardinality == \A some : P!Cardinality(some) = Cardinality(some)
  BY DEF P!Cardinality, Cardinality

\* A sequence of a set's elements, each once, has them all.
LEMMA RowsCover ==
  ASSUME NEW some \in SUBSET Sessions, NEW rows \in P!SetToSeqs(some)
  PROVE  rows \in Seq(Sessions) /\ \A s \in some : \E r \in 1..Len(rows) : rows[r] = s
<1> DEFINE places == 1..Cardinality(some)
<1>1. IsFiniteSet(some) /\ Cardinality(some) \in Nat
  BY CacheAssumption, FS_Subset, FS_CardinalityType DEF CacheAssumption
<1>2. rows \in [places -> some] /\ \A i, j \in places : rows[i] = rows[j] => i = j
  BY SameCardinality DEF P!SetToSeqs
<1>4. Cardinality(places) = Cardinality(some)
  <2>1. Cardinality(1..Cardinality(some)) = IF 1 > Cardinality(some) THEN 0 ELSE Cardinality(some) - 1 + 1
    BY <1>1, FS_Interval
  <2> QED BY <1>1, <2>1
<1>5. ASSUME NEW s \in some, \A r \in places : rows[r] # s PROVE FALSE
  <2>1. IsFiniteSet(some \ {s}) /\ Cardinality(some \ {s}) = Cardinality(some) - 1
    BY <1>1, FS_RemoveElement
  <2>2. rows \in [places -> some \ {s}]
    BY <1>2, <1>5
  <2>3. IsFiniteSet(places) /\ Cardinality(some \ {s}) < Cardinality(places)
    BY <1>1, <1>4, <2>1, FS_Interval
  <2> HIDE DEF places
  <2>4. \E x, y \in places : x # y /\ rows[x] = rows[y]
    BY <2>1, <2>2, <2>3, FS_PigeonHole
  <2> QED BY <1>2, <2>4
<1>6. rows \in Seq(Sessions) /\ DOMAIN rows = places /\ Len(rows) = Cardinality(some)
  <2>1. rows \in [1..Cardinality(some) -> Sessions]
    BY <1>2
  <2> QED BY <1>1, <2>1
<1> QED BY <1>5, <1>6

LEMMA RenameKeeps ==
  ASSUME CacheIInv, NEW w \in Workspaces, P!Rename(w)
  PROVE  CacheIInv'
<1> DEFINE members == {s \in Sessions : canon[s].ws = w}
<1>1. PICK rows \in P!SetToSeqs(members) : P!Journalled(rows)
  BY DEF P!Rename
<1>2. PICK n \in 0..1 : names' = [names EXCEPT ![w] = n]
  BY DEF P!Rename
<1>3. rows \in Seq(Sessions) /\ \A s \in members : \E r \in 1..Len(rows) : rows[r] = s
  BY RowsCover
<1>4. canon' = canon /\ Len(log) \in Nat /\ Len(rows) \in Nat
  BY <1>3 DEF P!Rename, CacheIInv, CacheTyped
<1>5. names' \in [Workspaces -> 0..1] /\ \A x \in Workspaces \ {w} : names'[x] = names[x]
  BY <1>2 DEF CacheIInv, CacheTyped
<1>6. \A x \in Sessions : canon[x].head \in Nat /\ canon[x].head <= Len(log)
                          /\ (canon[x].state # "none" => canon[x].head > 0)
  BY CacheAssumption DEF CacheIInv, CacheTyped, CanonRow, HeadsGrow, CacheAssumption
<1>7. \A x \in Sessions : (\A r \in 1..Len(rows) : rows[r] # x) /\ Housed(x) => names'[canon[x].ws] = names[canon[x].ws]
  BY <1>3, <1>5 DEF Housed
<1>8. Changes(rows)
  BY <1>1, <1>4, <1>5, <1>6, <1>7 DEF Changes, P!Journalled, CacheIInv, CacheTyped
<1> QED BY <1>3, <1>8, LibraryKeeps

\* Another adapter's cache is nobody's: nothing is owed, and what is there rests.
LEMMA UpgradeKeeps ==
  ASSUME CacheIInv, P!Upgrade
  PROVE  CacheIInv'
<1>1. /\ apply.at = "idle" /\ adapter <= MaxUpgrades /\ adapter' = adapter + 1
      /\ UNCHANGED <<canon, names, log, cache, apply, dirty>>
  BY DEF P!Upgrade
<1>2. adapter \in Nat /\ cache.by \in Nat /\ cache.by <= adapter
  BY CacheAssumption DEF CacheIInv, CacheTyped, CacheRow, CacheAssumption
<1>3. CacheTyped'
  BY <1>1, <1>2, CacheAssumption DEF CacheIInv, CacheTyped, CacheAssumption
<1>4. P!ManifestIsCurrent' /\ NamesAreCurrent'
  BY <1>1, <1>2 DEF P!ManifestIsCurrent, NamesAreCurrent, P!Settled
<1>5. HeadsGrow' /\ HeadsAreThere'
  BY <1>1 DEF CacheIInv, HeadsGrow, HeadsAreThere, Placed, Alive
<1>6. DeltaFits' /\ LoadFits' /\ EditFits'
  BY <1>1 DEF DeltaFits, LoadFits, EditFits, Work, Build
<1>7. CleanFits'
  BY <1>1 DEF CacheIInv, CleanFits, AsManifest, Work, P!Nothing
<1> QED BY <1>3, <1>4, <1>5, <1>6, <1>7 DEF CacheIInv

LEMMA IdleFits ==
  /\ P!Idle \in JobRow /\ P!Idle.at = "idle" /\ P!Idle.cursor = 0 /\ DOMAIN P!Idle.selected = {}
  /\ P!Idle.affected = {} /\ ~P!Idle.wrote
<1>1. [s \in {} |-> P!Nothing] \in Selection
  <2>1. [s \in {} |-> P!Nothing] \in [{} -> P!Payloads]
    OBVIOUS
  <2> QED BY <2>1 DEF Selection
<1>2. [w \in Workspaces |-> 0] \in [Workspaces -> 0..1]
  OBVIOUS
<1> QED BY <1>1, <1>2 DEF P!Idle, JobRow, P!Points

\* What only looks at the library and the cache, outside of the work.
LEMMA CacheRests ==
  ASSUME CacheIInv, UNCHANGED <<canon, names, log, adapter, cache>>
  PROVE  /\ P!ManifestIsCurrent' /\ NamesAreCurrent' /\ HeadsAreThere'
         /\ \A s \in Sessions : /\ P!Shown(s)' = P!Shown(s) /\ (Alive(s)' <=> Alive(s)) /\ (Housed(s)' <=> Housed(s))
                                /\ AsManifest(s)' <=> AsManifest(s)
<1>1. \A s \in Sessions : /\ P!Shown(s)' = P!Shown(s) /\ (Alive(s)' <=> Alive(s)) /\ (Housed(s)' <=> Housed(s))
                          /\ AsManifest(s)' <=> AsManifest(s)
  BY DEF P!Shown, P!Payload, P!Nothing, Alive, Housed, AsManifest
<1>2. P!ManifestIsCurrent' /\ NamesAreCurrent' /\ HeadsAreThere'
  BY <1>1 DEF CacheIInv, P!ManifestIsCurrent, NamesAreCurrent, HeadsAreThere, P!Settled, Placed
<1> QED BY <1>1, <1>2

LEMMA OutsideWork ==
  ASSUME CacheIInv, UNCHANGED <<canon, names, log, adapter, cache>>, dirty' = (dirty \/ apply.wrote),
         apply' \in JobRow, apply'.at \notin Work, ~apply'.wrote, apply'.cursor <= Len(log)
  PROVE  /\ CacheTyped' /\ P!ManifestIsCurrent' /\ NamesAreCurrent' /\ EditFits' /\ HeadsAreThere' /\ CleanFits'
<1>1. P!ManifestIsCurrent' /\ NamesAreCurrent' /\ HeadsAreThere'
  BY CacheRests
<1>2. CacheTyped'
  BY DEF CacheIInv, CacheTyped, JobRow
<1>3. EditFits'
  BY DEF EditFits, Work
<1>4. CleanFits'
  BY CacheRests DEF CacheIInv, CleanFits, Work
<1> QED BY <1>1, <1>2, <1>3, <1>4

\* A step of an update that does not load.
LEMMA RoamKeeps ==
  ASSUME CacheIInv, P!Begin \/ P!Page \/ P!Unchanged \/ P!ReadBefore \/ P!GiveUp \/ P!Interrupt
  PROVE  CacheIInv'
<1>1. UNCHANGED <<canon, names, log, adapter, cache>>
  BY DEF P!Begin, P!Page, P!Unchanged, P!ReadBefore, P!GiveUp, P!Interrupt, P!Library
<1>2. apply \in JobRow /\ apply.cursor \in 0..Len(log) /\ cache.through \in 0..Len(log) /\ Len(log) \in Nat
      /\ log \in Seq(Sessions)
  BY DEF CacheIInv, CacheTyped, CacheRow, JobRow
<1>3. dirty \in BOOLEAN /\ apply.wrote \in BOOLEAN /\ (apply.at \notin Work => ~apply.wrote)
  BY <1>2 DEF CacheIInv, CacheTyped, JobRow, CleanFits
<1>4. \A s \in DOMAIN P!Idle.selected : FALSE
  BY IdleFits
<1>5. CASE P!Begin /\ ~P!Stale
  <2>1. /\ apply' = [P!Idle EXCEPT !.at = "page", !.cursor = cache.through, !.target = Len(log)]
        /\ dirty' = dirty /\ apply.at = "idle"
    BY <1>5 DEF P!Begin
  <2>2. /\ apply' \in JobRow /\ apply'.at = "page" /\ apply'.cursor = cache.through /\ ~apply'.wrote
        /\ apply'.selected = P!Idle.selected
    <3>1. PICK from \in Nat, to \in Nat : from = cache.through /\ to = Len(log)
      BY <1>2
    <3>2. apply' = [P!Idle EXCEPT !.at = "page", !.cursor = from, !.target = to]
      BY <2>1, <3>1
    <3> QED BY <3>1, <3>2, IdleFits DEF JobRow, P!Points
  <2>3. CacheTyped' /\ P!ManifestIsCurrent' /\ NamesAreCurrent' /\ EditFits' /\ HeadsAreThere' /\ CleanFits'
    BY <1>1, <1>2, <1>3, <2>1, <2>2, OutsideWork DEF Work
  <2>4. HeadsGrow'
    BY <1>1, <1>4, <2>2 DEF CacheIInv, HeadsGrow
  <2>5. DeltaFits'
    BY <1>1, <1>2, <1>5, <2>2 DEF DeltaFits, P!Stale
  <2>6. LoadFits'
    BY <2>2 DEF LoadFits, Work, Build
  <2> QED BY <2>3, <2>4, <2>5, <2>6 DEF CacheIInv
<1>6. CASE P!Page
  <2>1. PICK last : last = IF apply.cursor + PageLimit < Len(log) THEN apply.cursor + PageLimit ELSE Len(log)
    OBVIOUS
  <2> DEFINE read == {log[r] : r \in (apply.cursor + 1)..last}
  <2>2. /\ apply.at = "page" /\ dirty' = dirty
        /\ apply' = [apply EXCEPT !.cursor = last, !.target = Len(log), !.affected = @ \cup read]
    BY <1>6, <2>1 DEF P!Page
  <2>3. last \in 0..Len(log) /\ apply.cursor <= last
    BY <1>2, <2>1, CacheAssumption DEF CacheAssumption
  <2>4. read \subseteq Sessions
    BY <1>2, <2>3
  <2>5. /\ apply' \in JobRow /\ apply'.at = "page" /\ apply'.cursor = last
        /\ apply'.affected = apply.affected \cup read /\ apply'.selected = apply.selected /\ apply'.wrote = apply.wrote
    <3>1. PICK to \in Nat, all \in SUBSET Sessions : to = Len(log) /\ all = apply.affected \cup read
      BY <1>2, <2>4 DEF JobRow
    <3>2. apply' = [apply EXCEPT !.cursor = last, !.target = to, !.affected = all]
      BY <2>2, <3>1
    <3>3. last \in Nat
      BY <1>2, <2>3
    <3> HIDE DEF read
    <3> QED BY <1>2, <2>2, <3>1, <3>2, <3>3 DEF JobRow
  <2>6. CacheTyped' /\ P!ManifestIsCurrent' /\ NamesAreCurrent' /\ EditFits' /\ HeadsAreThere' /\ CleanFits'
    BY <1>1, <1>2, <1>3, <2>2, <2>3, <2>5, OutsideWork DEF Work
  <2>7. HeadsGrow'
    BY <1>1, <2>5 DEF CacheIInv, HeadsGrow
  <2>8. DeltaFits'
    <3>1. cache.there /\ cache.by = adapter /\ cache.through <= apply.cursor
          /\ \A r \in (cache.through + 1)..apply.cursor : log[r] \in apply.affected
      BY <2>2 DEF CacheIInv, DeltaFits
    <3>2. ASSUME NEW r \in (cache.through + 1)..last PROVE log[r] \in apply.affected \cup read
      BY <1>2, <2>3, <3>1
    <3> QED BY <1>1, <1>2, <2>3, <2>5, <3>1, <3>2 DEF DeltaFits
  <2>9. LoadFits'
    BY <2>5 DEF LoadFits, Work, Build
  <2> QED BY <2>6, <2>7, <2>8, <2>9 DEF CacheIInv
<1>7. CASE P!ReadBefore
  <2>1. /\ apply.at = "before" /\ dirty' = dirty
        /\ apply' = [apply EXCEPT !.at = "load-all", !.cursor = Len(log), !.attempt = @ + 1]
    BY <1>7 DEF P!ReadBefore
  <2>2. /\ apply' \in JobRow /\ apply'.at = "load-all" /\ apply'.cursor = Len(log)
        /\ apply'.selected = apply.selected /\ apply'.wrote = apply.wrote
    <3>1. PICK n \in Nat : n = apply.attempt + 1
      BY <1>2 DEF JobRow
    <3>2. apply' = [apply EXCEPT !.at = "load-all", !.cursor = Len(log), !.attempt = n]
      BY <2>1, <3>1
    <3> QED BY <1>2, <3>1, <3>2 DEF JobRow, P!Points
  <2>3. CacheTyped' /\ P!ManifestIsCurrent' /\ NamesAreCurrent' /\ EditFits' /\ HeadsAreThere' /\ CleanFits'
    BY <1>1, <1>2, <1>3, <2>1, <2>2, OutsideWork DEF Work
  <2>4. HeadsGrow' /\ DeltaFits' /\ LoadFits'
    BY <1>1, <2>2 DEF CacheIInv, HeadsGrow, DeltaFits, LoadFits, Work, Build
  <2> QED BY <2>3, <2>4 DEF CacheIInv
<1>8. CASE (P!Begin /\ P!Stale) \/ P!Unchanged \/ P!GiveUp \/ P!Interrupt
  <2>1. apply' \in {P!Idle, [P!Idle EXCEPT !.at = "before"]} /\ dirty' = (dirty \/ apply.wrote)
    BY <1>3, <1>8 DEF P!Begin, P!Unchanged, P!GiveUp, P!Interrupt, Work
  <2>2. /\ apply' \in JobRow /\ apply'.at \in {"idle", "before"} /\ apply'.cursor = 0 /\ ~apply'.wrote
        /\ apply'.selected = P!Idle.selected
    BY <2>1, IdleFits DEF JobRow, P!Points
  <2>3. CacheTyped' /\ P!ManifestIsCurrent' /\ NamesAreCurrent' /\ EditFits' /\ HeadsAreThere' /\ CleanFits'
    BY <1>1, <1>2, <2>1, <2>2, OutsideWork DEF Work
  <2>4. HeadsGrow'
    BY <1>1, <1>4, <2>2 DEF CacheIInv, HeadsGrow
  <2>5. DeltaFits' /\ LoadFits'
    BY <2>2 DEF DeltaFits, LoadFits, Work, Build
  <2> QED BY <2>3, <2>4, <2>5 DEF CacheIInv
<1> QED BY <1>5, <1>6, <1>7, <1>8

\* What the adapter makes of a session is a payload, and none is like the absence of one.
LEMMA PayloadFits ==
  ASSUME CacheIInv, NEW s \in Sessions
  PROVE  /\ P!Payload(s) \in P!Payloads /\ P!Payload(s).head = canon[s].head /\ P!Payload(s) # P!Nothing
         /\ P!Nothing \in P!Payloads /\ P!Nothing.head = 0
         /\ canon[s].head \in Nat /\ (Alive(s) => canon[s].head > 0)
<1>1. canon[s] \in CanonRow /\ adapter \in 1..MaxUpgrades + 1
  BY DEF CacheIInv, CacheTyped
<1>2. canon[s].head \in 0..MaxRevision /\ canon[s].ws \in Workspaces \cup {"none"} /\ adapter \in 0..MaxUpgrades + 1
      /\ adapter # 0
  BY <1>1, CacheAssumption DEF CanonRow, CacheAssumption
<1>3. Alive(s) => canon[s].head > 0
  BY DEF CacheIInv, HeadsGrow, Alive
<1>4. P!Nothing \in P!Payloads
  BY CacheAssumption DEF P!Nothing, P!Payloads, CacheAssumption
<1> QED BY <1>2, <1>3, <1>4, CacheAssumption DEF P!Payload, P!Payloads, P!Nothing, CacheAssumption

\* What is selected is what is to be there: the live sessions of some, as they are.
LEMMA SelectionFits ==
  ASSUME CacheIInv, UNCHANGED <<canon, names, log, adapter, cache>>, NEW some \in SUBSET Sessions,
         apply'.selected = [s \in {t \in some : canon[t].state = "live"} |-> P!Payload(s)]
  PROVE  /\ apply'.selected \in Selection
         /\ \A s \in Sessions : (s \in DOMAIN apply'.selected <=> s \in some /\ Alive(s))
         /\ \A s \in DOMAIN apply'.selected :
               s \in Sessions /\ apply'.selected[s] = P!Payload(s) /\ apply'.selected[s].head = canon[s].head
         /\ \A s \in some : P!Target(s)' = P!Shown(s)
         /\ HeadsGrow'
<1> DEFINE live == {t \in some : canon[t].state = "live"}
<1>1. DOMAIN apply'.selected = live /\ live \in SUBSET Sessions
      /\ \A s \in live : apply'.selected[s] = P!Payload(s)
  OBVIOUS
<1>2. apply'.selected \in Selection
  <2>1. apply'.selected \in [live -> P!Payloads]
    BY <1>1, PayloadFits
  <2> QED BY <1>1, <2>1 DEF Selection
<1>3. \A s \in live : apply'.selected[s].head = canon[s].head /\ canon[s].head \in Nat /\ canon[s].head > 0
  BY <1>1, PayloadFits DEF Alive
<1>4. \A s \in some : P!Target(s)' = P!Shown(s)
  BY <1>1 DEF P!Target, P!Gone, P!Shown, P!Nothing
<1>5. HeadsGrow'
  BY <1>1, <1>3 DEF CacheIInv, HeadsGrow
<1> QED BY <1>1, <1>2, <1>3, <1>4, <1>5 DEF Alive

LEMMA LoadKeeps ==
  ASSUME CacheIInv, P!Load
  PROVE  CacheIInv'
<1> DEFINE owed   == {s \in apply.affected : cache.digest[s] # P!Shown(s)}
           tables == {w \in Workspaces : cache.names[w] # names[w]}
           picked == [s \in {t \in apply.affected : canon[t].state = "live"} |-> P!Payload(s)]
<1>1. /\ apply.at = "page" /\ UNCHANGED <<canon, names, log, adapter, cache, dirty>>
      /\ apply' = [apply EXCEPT !.at = "edit", !.wss = names, !.selected = picked, !.todo = owed, !.tables = tables]
  BY DEF P!Load, P!Library
<1>2. apply \in JobRow /\ apply.affected \in SUBSET Sessions /\ names \in [Workspaces -> 0..1]
      /\ cache \in CacheRow /\ apply.cursor <= Len(log) /\ log \in Seq(Sessions)
  BY DEF CacheIInv, CacheTyped, JobRow
<1>3. owed \in SUBSET Sessions /\ owed \subseteq apply.affected /\ tables \in SUBSET Workspaces
  BY <1>2
<1>4. apply'.selected = picked
  <2> HIDE DEF picked, owed, tables
  <2> QED BY <1>1, <1>2 DEF JobRow
<1>5. /\ picked \in Selection
      /\ \A s \in Sessions : (s \in DOMAIN picked <=> s \in apply.affected /\ Alive(s))
      /\ \A s \in DOMAIN picked : s \in Sessions /\ picked[s] = P!Payload(s) /\ picked[s].head = canon[s].head
      /\ \A s \in apply.affected : P!Target(s)' = P!Shown(s)
      /\ HeadsGrow'
  BY <1>1, <1>2, <1>4, SelectionFits
<1>6. /\ apply' \in JobRow /\ apply'.at = "edit" /\ apply'.cursor = apply.cursor /\ apply'.affected = apply.affected
      /\ apply'.wss = names /\ apply'.todo = owed /\ apply'.tables = tables /\ apply'.wrote = apply.wrote
  <2> HIDE DEF picked, owed, tables
  <2> QED BY <1>1, <1>2, <1>3, <1>5 DEF JobRow, P!Points
<1>7. /\ \A s \in Sessions : /\ P!Shown(s)' = P!Shown(s) /\ (Alive(s)' <=> Alive(s)) /\ (Housed(s)' <=> Housed(s))
                             /\ AsManifest(s)' <=> AsManifest(s)
      /\ P!ManifestIsCurrent' /\ NamesAreCurrent' /\ HeadsAreThere'
  BY <1>1, CacheRests
<1>8. CacheTyped'
  BY <1>1, <1>2, <1>6 DEF CacheIInv, CacheTyped
<1>9. DeltaFits'
  BY <1>1, <1>6 DEF CacheIInv, DeltaFits, Work
<1>10. LoadFits'
  BY <1>1, <1>4, <1>5, <1>6, <1>7 DEF LoadFits, Work, Build
<1>11. \A s \in apply.affected \ owed : cache.digest[s] = P!Shown(s)
  OBVIOUS
<1>12. EditFits'
  <2>1. \A s \in apply.affected \ owed : s \in DOMAIN picked => cache.digest[s] = picked[s]
    BY <1>2, <1>5, <1>11 DEF P!Shown, Alive
  <2> QED BY <1>1, <1>3, <1>4, <1>6, <2>1 DEF EditFits
<1>13. CleanFits'
  <2>1. ~apply.wrote /\ (~dirty => (\A s \in Sessions : AsManifest(s)) /\ cache.wsFile = cache.names)
    BY <1>1 DEF CacheIInv, CleanFits, Work
  <2>2. ASSUME ~dirty, NEW s \in apply.affected \ owed PROVE Written(s)'
    <3>1. s \in Sessions /\ AsManifest(s) /\ cache.digest[s] = P!Shown(s) /\ P!Target(s)' = P!Shown(s)
      BY <1>2, <1>5, <1>11, <2>1, <2>2
    <3>2. P!Shown(s) # P!Nothing <=> s \in DOMAIN picked
      BY <1>5, <2>2, <3>1, PayloadFits DEF P!Shown, Alive
    <3> QED BY <1>1, <1>4, <3>1, <3>2 DEF AsManifest, Written
  <2>3. ASSUME ~dirty, NEW w \in Workspaces \ tables PROVE cache.wsFile[w] = names[w]
    BY <2>1, <2>3
  <2> QED BY <1>1, <1>4, <1>6, <1>7, <2>1, <2>2, <2>3 DEF CleanFits, Begun
<1> QED BY <1>5, <1>7, <1>8, <1>9, <1>10, <1>12, <1>13 DEF CacheIInv

LEMMA LoadAllKeeps ==
  ASSUME CacheIInv, P!LoadAll
  PROVE  CacheIInv'
<1> DEFINE picked == [s \in {t \in Sessions : canon[t].state = "live"} |-> P!Payload(s)]
<1>1. /\ apply.at = "load-all" /\ UNCHANGED <<canon, names, log, adapter, cache, dirty>>
      /\ apply' = [apply EXCEPT !.at = "after", !.wss = names, !.selected = picked]
  BY DEF P!LoadAll, P!Library
<1>2. apply \in JobRow /\ names \in [Workspaces -> 0..1] /\ apply.cursor <= Len(log)
  BY DEF CacheIInv, CacheTyped
<1>3. apply'.selected = picked
  <2> HIDE DEF picked
  <2> QED BY <1>1, <1>2 DEF JobRow
<1>4. picked \in Selection /\ HeadsGrow' /\ \A s \in Sessions : P!Target(s)' = P!Shown(s)
  BY <1>1, <1>3, SelectionFits
<1>5. /\ apply' \in JobRow /\ apply'.at = "after" /\ apply'.cursor = apply.cursor
      /\ apply'.wss = names /\ apply'.wrote = apply.wrote
  <2> HIDE DEF picked
  <2> QED BY <1>1, <1>2, <1>4 DEF JobRow, P!Points
<1>6. ~apply.wrote /\ dirty \in BOOLEAN
  BY <1>1 DEF CacheIInv, CacheTyped, CleanFits, Work
<1>7. CacheTyped' /\ P!ManifestIsCurrent' /\ NamesAreCurrent' /\ EditFits' /\ HeadsAreThere' /\ CleanFits'
  BY <1>1, <1>2, <1>5, <1>6, OutsideWork DEF Work
<1>8. DeltaFits'
  BY <1>5 DEF DeltaFits, Work
<1>9. LoadFits'
  BY <1>1, <1>4, <1>5, CacheRests DEF LoadFits, Work, Build
<1> QED BY <1>4, <1>7, <1>8, <1>9 DEF CacheIInv

LEMMA ReadAfterKeeps ==
  ASSUME CacheIInv, P!ReadAfter
  PROVE  CacheIInv'
<1>1. PICK at \in {"build", "before"} : apply' = [apply EXCEPT !.at = at]
  BY DEF P!ReadAfter
<1>2. apply.at = "after" /\ UNCHANGED <<canon, names, log, adapter, cache, dirty>>
  BY DEF P!ReadAfter, P!Library
<1>3. /\ apply' \in JobRow /\ apply'.at = at /\ apply'.cursor = apply.cursor /\ apply'.selected = apply.selected
      /\ apply'.wss = apply.wss /\ apply'.wrote = apply.wrote /\ apply.cursor <= Len(log)
  BY <1>1 DEF CacheIInv, CacheTyped, JobRow, P!Points
<1>4. ~apply.wrote /\ dirty \in BOOLEAN
  BY <1>2 DEF CacheIInv, CacheTyped, CleanFits, Work
<1>5. CacheTyped' /\ P!ManifestIsCurrent' /\ NamesAreCurrent' /\ EditFits' /\ HeadsAreThere' /\ CleanFits'
  BY <1>2, <1>3, <1>4, OutsideWork DEF Work
<1>6. HeadsGrow' /\ DeltaFits'
  BY <1>2, <1>3 DEF CacheIInv, HeadsGrow, DeltaFits, Work
<1>7. \A s \in Sessions : /\ P!Shown(s)' = P!Shown(s) /\ (Housed(s)' <=> Housed(s)) /\ P!Target(s)' = P!Target(s)
                          /\ Quiet(s, apply.cursor)' <=> Quiet(s, apply.cursor)
  BY <1>2, <1>3, CacheRests DEF P!Target, P!Gone, P!Nothing, Quiet
<1>8. LoadFits'
  BY <1>2, <1>3, <1>7 DEF CacheIInv, LoadFits, Work, Build
<1> QED BY <1>5, <1>6, <1>8 DEF CacheIInv

\* A step of a loaded update that leaves the manifest and what is loaded.
WorkGoesOn ==
    /\ UNCHANGED <<canon, names, log, adapter, dirty>>
    /\ apply.at \in Work /\ apply'.at \in Work
    /\ apply' \in JobRow /\ cache' \in CacheRow
    /\ apply'.cursor = apply.cursor /\ apply'.affected = apply.affected /\ apply'.selected = apply.selected
    /\ apply'.wss = apply.wss
    /\ cache'.there = cache.there /\ cache'.by = cache.by /\ cache'.through = cache.through
    /\ cache'.digest = cache.digest /\ cache'.names = cache.names

LEMMA WorkRests ==
  ASSUME CacheIInv, WorkGoesOn
  PROVE  /\ CacheTyped' /\ HeadsGrow' /\ P!ManifestIsCurrent' /\ NamesAreCurrent' /\ DeltaFits' /\ LoadFits'
         /\ \A s \in Sessions : P!Target(s)' = P!Target(s)
<1>1. \A s \in Sessions : /\ P!Shown(s)' = P!Shown(s) /\ (Alive(s)' <=> Alive(s)) /\ (Housed(s)' <=> Housed(s))
                          /\ P!Target(s)' = P!Target(s) /\ (P!Settled(s)' <=> P!Settled(s))
                          /\ Quiet(s, apply.cursor)' <=> Quiet(s, apply.cursor)
  BY DEF WorkGoesOn, P!Shown, P!Payload, P!Nothing, Alive, Housed, P!Target, P!Gone, P!Settled, Quiet
<1>2. CacheTyped'
  BY DEF CacheIInv, CacheTyped, WorkGoesOn
<1>3. HeadsGrow'
  BY DEF CacheIInv, HeadsGrow, WorkGoesOn
<1>4. P!ManifestIsCurrent' /\ NamesAreCurrent'
  BY <1>1 DEF CacheIInv, P!ManifestIsCurrent, NamesAreCurrent, WorkGoesOn
<1>5. DeltaFits'
  BY DEF CacheIInv, DeltaFits, WorkGoesOn
<1>6. LoadFits'
  BY <1>1 DEF CacheIInv, LoadFits, WorkGoesOn, Work, Build
<1> QED BY <1>1, <1>2, <1>3, <1>4, <1>5, <1>6

\* A head the manifest has and the library still has is the one that is loaded.
LEMMA LoadedHead ==
  ASSUME CacheIInv, apply.at \in Work, NEW s \in apply.affected, Alive(s), cache.digest[s].head = canon[s].head
  PROVE  ~P!Gone(s) /\ P!Target(s).head = canon[s].head
<1>1. s \in Sessions
  BY DEF CacheIInv, CacheTyped, JobRow
<1> QED BY <1>1 DEF CacheIInv, LoadFits, P!Gone, P!Target

LEMMA RemoveNextKeeps ==
  ASSUME CacheIInv, NEW s \in Sessions, P!RemoveNext(s)
  PROVE  CacheIInv'
<1>1. /\ apply.at = "edit" /\ s \in apply.todo /\ P!Gone(s) /\ UNCHANGED <<canon, names, log, adapter, cache, dirty>>
  BY DEF P!RemoveNext, P!Library, P!Removals
<1>2. apply \in JobRow /\ cache \in CacheRow /\ apply.todo \in SUBSET Sessions
  BY DEF CacheIInv, CacheTyped, JobRow
<1>3. P!ManifestIsCurrent' /\ HeadsAreThere' /\ \A x \in Sessions : AsManifest(x)' <=> AsManifest(x)
  BY <1>1, CacheRests
<1>4. CASE s \in cache.index
  <2>1. apply' = [apply EXCEPT !.at = "file", !.on = s]
    BY <1>4 DEF P!RemoveNext
  <2>2. /\ apply' \in JobRow /\ apply'.at = "file" /\ apply'.on = s /\ apply'.cursor = apply.cursor
        /\ apply'.affected = apply.affected /\ apply'.selected = apply.selected /\ apply'.wss = apply.wss
        /\ apply'.todo = apply.todo /\ apply'.tables = apply.tables /\ apply'.wrote = apply.wrote
    BY <1>2, <2>1 DEF JobRow, P!Points
  <2>3. WorkGoesOn
    BY <1>1, <1>2, <2>2 DEF WorkGoesOn, Work
  <2>4. EditFits'
    BY <1>1, <2>2 DEF CacheIInv, EditFits, Work, Placed
  <2>5. CleanFits'
    BY <1>1, <1>3, <2>2 DEF CacheIInv, CleanFits, Work, Written, Begun, P!Target, P!Gone, P!Nothing, CacheTyped, JobRow
  <2> QED BY <1>3, <2>3, <2>4, <2>5, WorkRests DEF CacheIInv
<1>5. CASE s \notin cache.index
  <2>1. apply' = [apply EXCEPT !.todo = apply.todo \ {s}]
    BY <1>5 DEF P!RemoveNext
  <2>2. /\ apply' \in JobRow /\ apply'.at = "edit" /\ apply'.cursor = apply.cursor
        /\ apply'.affected = apply.affected /\ apply'.selected = apply.selected /\ apply'.wss = apply.wss
        /\ apply'.todo = apply.todo \ {s} /\ apply'.tables = apply.tables /\ apply'.wrote = apply.wrote
    <3>1. PICK rest \in SUBSET Sessions : rest = apply.todo \ {s}
      BY <1>2
    <3>2. apply' = [apply EXCEPT !.todo = rest]
      BY <2>1, <3>1
    <3> QED BY <1>1, <1>2, <3>1, <3>2 DEF JobRow
  <2>3. WorkGoesOn
    BY <1>1, <1>2, <2>2 DEF WorkGoesOn, Work
  <2>4. EditFits'
    BY <1>1, <2>2 DEF CacheIInv, EditFits, Work, Placed, P!Gone
  <2>5. ~dirty => Written(s)
    <3>1. ~dirty => AsManifest(s)
      BY <1>1 DEF CacheIInv, CleanFits, Begun, Work
    <3> QED BY <1>1, <1>5, <3>1 DEF AsManifest, Written, P!Target, P!Gone
  <2>6. \A x \in Sessions : (Written(x)' <=> Written(x)) /\ ~Begun(x)'
    BY <1>1, <2>2 DEF Written, Begun, P!Target, P!Gone, P!Nothing
  <2>7. CleanFits'
    <3>1. ASSUME ~dirty, NEW x \in apply.affected \ apply'.todo PROVE x \in Sessions /\ Written(x)
      <4>1. CASE x = s
        BY <3>1, <4>1, <2>5
      <4>2. CASE x # s
        BY <1>1, <2>2, <3>1, <4>2 DEF CacheIInv, CleanFits, Work, CacheTyped, JobRow
      <4> QED BY <4>1, <4>2
    <3>2. ASSUME ~dirty, NEW x \in Sessions, x \notin apply.affected \/ x \in apply.todo PROVE AsManifest(x)
      BY <1>1, <3>2 DEF CacheIInv, CleanFits, Work, Begun
    <3> QED BY <1>1, <1>3, <2>2, <2>6, <3>1, <3>2 DEF CacheIInv, CleanFits, Work
  <2> QED BY <1>3, <2>3, <2>4, <2>7, WorkRests DEF CacheIInv
<1> QED BY <1>4, <1>5

LEMMA WriteNextKeeps ==
  ASSUME CacheIInv, NEW s \in Sessions, P!WriteNext(s)
  PROVE  CacheIInv'
<1>1. /\ apply.at = "edit" /\ s \in apply.todo /\ UNCHANGED <<canon, names, log, adapter, cache, dirty>>
      /\ apply' = [apply EXCEPT !.at = "file", !.on = s]
  BY DEF P!WriteNext, P!Library
<1>2. apply \in JobRow /\ cache \in CacheRow
  BY DEF CacheIInv, CacheTyped
<1>3. P!ManifestIsCurrent' /\ HeadsAreThere' /\ \A x \in Sessions : AsManifest(x)' <=> AsManifest(x)
  BY <1>1, CacheRests
<1>4. /\ apply' \in JobRow /\ apply'.at = "file" /\ apply'.on = s /\ apply'.cursor = apply.cursor
      /\ apply'.affected = apply.affected /\ apply'.selected = apply.selected /\ apply'.wss = apply.wss
      /\ apply'.todo = apply.todo /\ apply'.tables = apply.tables /\ apply'.wrote = apply.wrote
  BY <1>1, <1>2 DEF JobRow, P!Points
<1>5. WorkGoesOn
  BY <1>1, <1>2, <1>4 DEF WorkGoesOn, Work
<1>6. EditFits'
  BY <1>1, <1>4 DEF CacheIInv, EditFits, Work, Placed
<1>7. CleanFits'
  BY <1>1, <1>3, <1>4 DEF CacheIInv, CleanFits, Work, Written, Begun, P!Target, P!Gone, P!Nothing, CacheTyped, JobRow
<1> QED BY <1>3, <1>5, <1>6, <1>7, WorkRests DEF CacheIInv

LEMMA WriteWorkspaceKeeps ==
  ASSUME CacheIInv, NEW w \in Workspaces, P!WriteWorkspace(w)
  PROVE  CacheIInv'
<1> DEFINE files == [cache.wsFile EXCEPT ![w] = apply.wss[w]]
<1>1. /\ apply.at = "edit" /\ UNCHANGED <<canon, names, log, adapter, dirty>>
      /\ cache' = [cache EXCEPT !.wsFile = files]
      /\ apply' = [apply EXCEPT !.tables = apply.tables \ {w}, !.wrote = TRUE]
  BY DEF P!WriteWorkspace, P!Library, CacheIInv, CacheTyped, CacheRow
<1>2. apply \in JobRow /\ cache \in CacheRow /\ cache.wsFile \in [Workspaces -> 0..1]
      /\ apply.wss \in [Workspaces -> 0..1] /\ apply.tables \in SUBSET Workspaces
  BY DEF CacheIInv, CacheTyped, JobRow, CacheRow
<1>3. files \in [Workspaces -> 0..1] /\ \A v \in Workspaces : files[v] = IF v = w THEN apply.wss[v] ELSE cache.wsFile[v]
  BY <1>2
<1>4. /\ apply' \in JobRow /\ apply'.at = "edit" /\ apply'.cursor = apply.cursor
      /\ apply'.affected = apply.affected /\ apply'.selected = apply.selected /\ apply'.wss = apply.wss
      /\ apply'.todo = apply.todo /\ apply'.tables = apply.tables \ {w} /\ apply'.wrote
  <2>1. PICK rest \in SUBSET Workspaces : rest = apply.tables \ {w}
    BY <1>2
  <2>2. apply' = [apply EXCEPT !.tables = rest, !.wrote = TRUE]
    BY <1>1, <2>1
  <2> QED BY <1>1, <1>2, <2>1, <2>2 DEF JobRow
<1> HIDE DEF files
<1>5. /\ cache' \in CacheRow /\ cache'.there = cache.there /\ cache'.by = cache.by /\ cache'.through = cache.through
      /\ cache'.digest = cache.digest /\ cache'.names = cache.names /\ cache'.file = cache.file
      /\ cache'.index = cache.index /\ cache'.catalog = cache.catalog /\ cache'.wsFile = files
  BY <1>1, <1>2, <1>3 DEF CacheRow
<1>6. WorkGoesOn
  BY <1>1, <1>4, <1>5 DEF WorkGoesOn, Work
<1>7. HeadsAreThere'
  BY <1>1, <1>5 DEF CacheIInv, HeadsAreThere, Alive, Placed
<1>8. EditFits'
  BY <1>1, <1>4, <1>5 DEF CacheIInv, EditFits, Work, Placed
<1>9. CleanFits'
  <2>1. \A x \in Sessions : /\ AsManifest(x)' <=> AsManifest(x)
                            /\ Written(x)' <=> Written(x)
                            /\ Begun(x)' <=> Begun(x)
    BY <1>1, <1>4, <1>5 DEF AsManifest, Written, Begun, P!Target, P!Gone, P!Nothing
  <2>2. ASSUME ~dirty, NEW v \in Workspaces \ apply'.tables PROVE files[v] = apply.wss[v]
    BY <1>1, <1>3, <1>4, <2>2 DEF CacheIInv, CleanFits, Work
  <2> QED BY <1>1, <1>4, <1>5, <2>1, <2>2 DEF CacheIInv, CleanFits, Work, CacheTyped, JobRow
<1> QED BY <1>6, <1>7, <1>8, <1>9, WorkRests DEF CacheIInv

\* The session an update writes is one it has to write.
LEMMA OneIsWritten ==
  ASSUME CacheIInv, apply.at \in Work, apply.at # "edit"
  PROVE  apply.on \in apply.todo /\ apply.on \in apply.affected /\ apply.on \in Sessions
<1>1. apply.on \in apply.todo /\ apply.todo \subseteq apply.affected
  BY DEF CacheIInv, EditFits
<1> QED BY <1>1 DEF CacheIInv, CacheTyped, JobRow

\* What is to be there of a session is a payload.
LEMMA TargetFits ==
  ASSUME CacheIInv, NEW s \in Sessions
  PROVE  /\ P!Target(s) \in P!Payloads /\ (P!Target(s) # P!Nothing <=> s \in DOMAIN apply.selected)
         /\ P!Target(s).head <= canon[s].head /\ P!Target(s).head \in Nat
         /\ P!Target(s).head > 0 <=> s \in DOMAIN apply.selected
<1>1. CASE s \notin DOMAIN apply.selected
  <2>1. P!Target(s) = P!Nothing
    BY <1>1 DEF P!Target, P!Gone
  <2> QED BY <1>1, <2>1, PayloadFits
<1>2. CASE s \in DOMAIN apply.selected
  <2>1. P!Target(s) = apply.selected[s]
    BY <1>2 DEF P!Target, P!Gone
  <2>2. apply.selected[s] \in P!Payloads
    <3>1. apply.selected \in Selection
      BY DEF CacheIInv, CacheTyped, JobRow
    <3>2. PICK some \in SUBSET Sessions : apply.selected \in [some -> P!Payloads]
      BY <3>1 DEF Selection
    <3> QED BY <1>2, <3>2
  <2>3. apply.selected[s].head \in 1..canon[s].head /\ canon[s].head \in Nat
    BY <1>2, PayloadFits DEF CacheIInv, HeadsGrow
  <2>4. apply.selected[s].head # P!Nothing.head
    BY <2>3, PayloadFits
  <2> QED BY <1>2, <2>1, <2>2, <2>3, <2>4
<1> QED BY <1>1, <1>2

LEMMA PutFileKeeps ==
  ASSUME CacheIInv, P!PutFile
  PROVE  CacheIInv'
<1> DEFINE files == [cache.file EXCEPT ![apply.on] = P!Target(apply.on)]
<1>1. /\ apply.at = "file" /\ UNCHANGED <<canon, names, log, adapter, dirty>>
      /\ cache' = [cache EXCEPT !.file = files]
      /\ apply' = [apply EXCEPT !.wrote = TRUE,
                      !.at = IF (apply.on \in cache.index) = P!Gone(apply.on) THEN "index" ELSE "catalog"]
  BY DEF P!PutFile, P!Library
<1>2. apply \in JobRow /\ cache \in CacheRow /\ cache.file \in [Sessions -> P!Payloads]
  BY DEF CacheIInv, CacheTyped, CacheRow
<1>3. apply.on \in apply.todo /\ apply.on \in apply.affected /\ apply.on \in Sessions
  BY <1>1, OneIsWritten DEF Work
<1>4. /\ files \in [Sessions -> P!Payloads] /\ files[apply.on] = P!Target(apply.on)
      /\ \A s \in Sessions : s # apply.on => files[s] = cache.file[s]
  BY <1>2, <1>3, TargetFits
<1>5. PICK at \in {"index", "catalog"} :
         /\ at = "index" <=> (apply.on \in cache.index <=> P!Gone(apply.on))
         /\ apply' = [apply EXCEPT !.wrote = TRUE, !.at = at]
  <2>1. ((apply.on \in cache.index) = P!Gone(apply.on)) <=> (apply.on \in cache.index <=> P!Gone(apply.on))
    BY DEF P!Gone
  <2>2. CASE (apply.on \in cache.index) = P!Gone(apply.on)
    <3>1. apply' = [apply EXCEPT !.wrote = TRUE, !.at = "index"]
      BY <1>1, <2>2
    <3> QED BY <2>1, <2>2, <3>1
  <2>3. CASE ~((apply.on \in cache.index) = P!Gone(apply.on))
    <3>1. apply' = [apply EXCEPT !.wrote = TRUE, !.at = "catalog"]
      BY <1>1, <2>3
    <3> QED BY <2>1, <2>3, <3>1
  <2> QED BY <2>2, <2>3
<1>6. /\ apply' \in JobRow /\ apply'.at = at /\ apply'.cursor = apply.cursor /\ apply'.on = apply.on
      /\ apply'.affected = apply.affected /\ apply'.selected = apply.selected /\ apply'.wss = apply.wss
      /\ apply'.todo = apply.todo /\ apply'.tables = apply.tables /\ apply'.wrote
  BY <1>2, <1>5 DEF JobRow, P!Points
<1> HIDE DEF files
<1>7. /\ cache' \in CacheRow /\ cache'.there = cache.there /\ cache'.by = cache.by /\ cache'.through = cache.through
      /\ cache'.digest = cache.digest /\ cache'.names = cache.names /\ cache'.file = files
      /\ cache'.index = cache.index /\ cache'.catalog = cache.catalog /\ cache'.wsFile = cache.wsFile
  BY <1>1, <1>2, <1>4 DEF CacheRow
<1>8. WorkGoesOn
  BY <1>1, <1>6, <1>7 DEF WorkGoesOn, Work
<1>9. \A s \in Sessions : P!Target(s)' = P!Target(s) /\ (P!Gone(s)' <=> P!Gone(s))
  BY <1>6, <1>8, WorkRests DEF P!Gone
<1>10. HeadsAreThere'
  <2> SUFFICES ASSUME NEW s \in Sessions, Alive(s), cache.digest[s].head = canon[s].head
               PROVE  files[s].head = canon[s].head /\ s \in cache.index /\ cache.catalog[s].head = canon[s].head
    BY <1>1, <1>7 DEF HeadsAreThere, Placed, Alive
  <2>1. Placed(s, canon[s].head)
    BY DEF CacheIInv, HeadsAreThere
  <2>2. CASE s = apply.on
    BY <1>1, <1>3, <1>4, <2>1, <2>2, LoadedHead DEF Placed, Work
  <2>3. CASE s # apply.on
    BY <1>4, <2>1, <2>3 DEF Placed
  <2> QED BY <2>2, <2>3
<1>11. EditFits'
  <2>1. ASSUME NEW s \in apply.affected \ apply.todo, s \in DOMAIN apply.selected
        PROVE  Placed(s, apply.selected[s].head)' \/ cache.digest[s] = apply.selected[s]
    <3>1. s \in Sessions /\ s # apply.on
      BY <1>3 DEF CacheIInv, CacheTyped, JobRow
    <3> QED BY <1>1, <1>4, <1>6, <1>7, <2>1, <3>1 DEF CacheIInv, EditFits, Work, Placed
  <2> QED BY <1>1, <1>3, <1>4, <1>5, <1>6, <1>7, <1>9, <2>1 DEF CacheIInv, EditFits, Work
<1>12. CleanFits'
  <2>1. \A s \in Sessions : s # apply.on => (AsManifest(s)' <=> AsManifest(s)) /\ (Written(s)' <=> Written(s))
    BY <1>4, <1>6, <1>7, <1>9 DEF AsManifest, Written, P!Nothing
  <2>2. ASSUME ~dirty, NEW s \in Sessions, s \notin apply.affected \/ (s \in apply.todo /\ s # apply.on)
        PROVE  AsManifest(s) /\ s # apply.on
    BY <1>1, <1>3, <2>2 DEF CacheIInv, CleanFits, Work, Begun
  <2>3. ASSUME ~dirty, NEW s \in apply.affected \ apply.todo
        PROVE  s \in Sessions /\ Written(s) /\ s # apply.on
    BY <1>1, <1>3, <2>3 DEF CacheIInv, CleanFits, Work, CacheTyped, JobRow
  <2> QED BY <1>1, <1>6, <1>7, <2>1, <2>2, <2>3 DEF CacheIInv, CleanFits, Work, Begun
<1> QED BY <1>8, <1>10, <1>11, <1>12, WorkRests DEF CacheIInv

LEMMA PutIndexKeeps ==
  ASSUME CacheIInv, P!PutIndex
  PROVE  CacheIInv'
<1>1. PICK index \in SUBSET Sessions :
         /\ cache' = [cache EXCEPT !.index = index]
         /\ apply.on \in index <=> ~P!Gone(apply.on)
         /\ \A s \in Sessions : s # apply.on => (s \in index <=> s \in cache.index)
  <2>1. apply.on \in Sessions /\ cache.index \in SUBSET Sessions
    BY OneIsWritten DEF P!PutIndex, CacheIInv, CacheTyped, CacheRow, Work
  <2>2. cache' = [cache EXCEPT !.index = IF P!Gone(apply.on) THEN cache.index \ {apply.on} ELSE cache.index \cup {apply.on}]
    BY DEF P!PutIndex
  <2>3. CASE P!Gone(apply.on)
    BY <2>1, <2>2, <2>3
  <2>4. CASE ~P!Gone(apply.on)
    BY <2>1, <2>2, <2>4
  <2> QED BY <2>3, <2>4
<1>2. /\ apply.at = "index" /\ UNCHANGED <<canon, names, log, adapter, dirty>>
      /\ apply' = [apply EXCEPT !.at = "catalog"]
  BY DEF P!PutIndex, P!Library
<1>3. apply \in JobRow /\ cache \in CacheRow
  BY DEF CacheIInv, CacheTyped
<1>4. apply.on \in apply.todo /\ apply.on \in apply.affected /\ apply.on \in Sessions
  BY <1>2, OneIsWritten DEF Work
<1>5. apply.wrote /\ cache.file[apply.on] = P!Target(apply.on)
  BY <1>2 DEF CacheIInv, EditFits, Work
<1>6. /\ apply' \in JobRow /\ apply'.at = "catalog" /\ apply'.cursor = apply.cursor /\ apply'.on = apply.on
      /\ apply'.affected = apply.affected /\ apply'.selected = apply.selected /\ apply'.wss = apply.wss
      /\ apply'.todo = apply.todo /\ apply'.tables = apply.tables /\ apply'.wrote = apply.wrote
  BY <1>2, <1>3 DEF JobRow, P!Points
<1>7. /\ cache' \in CacheRow /\ cache'.there = cache.there /\ cache'.by = cache.by /\ cache'.through = cache.through
      /\ cache'.digest = cache.digest /\ cache'.names = cache.names /\ cache'.file = cache.file
      /\ cache'.index = index /\ cache'.catalog = cache.catalog /\ cache'.wsFile = cache.wsFile
  BY <1>1, <1>3 DEF CacheRow
<1>8. WorkGoesOn
  BY <1>2, <1>6, <1>7 DEF WorkGoesOn, Work
<1>9. \A s \in Sessions : P!Target(s)' = P!Target(s) /\ (P!Gone(s)' <=> P!Gone(s))
  BY <1>6, <1>8, WorkRests DEF P!Gone
<1>10. HeadsAreThere'
  <2> SUFFICES ASSUME NEW s \in Sessions, Alive(s), cache.digest[s].head = canon[s].head
               PROVE  cache.file[s].head = canon[s].head /\ s \in index /\ cache.catalog[s].head = canon[s].head
    BY <1>2, <1>7 DEF HeadsAreThere, Placed, Alive
  <2>1. Placed(s, canon[s].head)
    BY DEF CacheIInv, HeadsAreThere
  <2>2. CASE s = apply.on
    BY <1>1, <1>2, <1>4, <2>1, <2>2, LoadedHead DEF Placed, Work
  <2>3. CASE s # apply.on
    BY <1>1, <2>1, <2>3 DEF Placed
  <2> QED BY <2>2, <2>3
<1>11. EditFits'
  <2>1. ASSUME NEW s \in apply.affected \ apply.todo, s \in DOMAIN apply.selected
        PROVE  Placed(s, apply.selected[s].head)' \/ cache.digest[s] = apply.selected[s]
    <3>1. s \in Sessions /\ s # apply.on
      BY <1>4 DEF CacheIInv, CacheTyped, JobRow
    <3> QED BY <1>1, <1>2, <1>6, <1>7, <2>1, <3>1 DEF CacheIInv, EditFits, Work, Placed
  <2> QED BY <1>1, <1>2, <1>4, <1>5, <1>6, <1>7, <1>9, <2>1 DEF CacheIInv, EditFits, Work
<1>12. CleanFits'
  <2>1. \A s \in Sessions : s # apply.on => (AsManifest(s)' <=> AsManifest(s)) /\ (Written(s)' <=> Written(s))
    BY <1>1, <1>6, <1>7, <1>9 DEF AsManifest, Written, P!Nothing
  <2>2. ASSUME ~dirty, NEW s \in Sessions, s \notin apply.affected \/ (s \in apply.todo /\ s # apply.on)
        PROVE  AsManifest(s) /\ s # apply.on
    BY <1>2, <1>4, <2>2 DEF CacheIInv, CleanFits, Work, Begun
  <2>3. ASSUME ~dirty, NEW s \in apply.affected \ apply.todo
        PROVE  s \in Sessions /\ Written(s) /\ s # apply.on
    BY <1>2, <1>4, <2>3 DEF CacheIInv, CleanFits, Work, CacheTyped, JobRow
  <2> QED BY <1>2, <1>5, <1>6, <1>7, <2>1, <2>2, <2>3 DEF CacheIInv, CleanFits, Work, Begun
<1> QED BY <1>8, <1>10, <1>11, <1>12, WorkRests DEF CacheIInv

LEMMA PutCatalogKeeps ==
  ASSUME CacheIInv, P!PutCatalog
  PROVE  CacheIInv'
<1> DEFINE entries == [cache.catalog EXCEPT ![apply.on] = P!Target(apply.on)]
<1>1. /\ apply.at = "catalog" /\ UNCHANGED <<canon, names, log, adapter, dirty>>
      /\ cache' = [cache EXCEPT !.catalog = entries]
      /\ apply' = [apply EXCEPT !.at = "edit", !.on = "none", !.todo = apply.todo \ {apply.on}]
  BY DEF P!PutCatalog, P!Library
<1>2. apply \in JobRow /\ cache \in CacheRow /\ cache.catalog \in [Sessions -> P!Payloads]
      /\ apply.todo \in SUBSET Sessions
  BY DEF CacheIInv, CacheTyped, CacheRow, JobRow
<1>3. apply.on \in apply.todo /\ apply.on \in apply.affected /\ apply.on \in Sessions
  BY <1>1, OneIsWritten DEF Work
<1>4. /\ entries \in [Sessions -> P!Payloads] /\ entries[apply.on] = P!Target(apply.on)
      /\ \A s \in Sessions : s # apply.on => entries[s] = cache.catalog[s]
  BY <1>2, <1>3, TargetFits
<1>5. apply.wrote /\ cache.file[apply.on] = P!Target(apply.on) /\ (apply.on \in cache.index <=> ~P!Gone(apply.on))
  BY <1>1 DEF CacheIInv, EditFits, Work
<1>6. /\ apply' \in JobRow /\ apply'.at = "edit" /\ apply'.cursor = apply.cursor
      /\ apply'.affected = apply.affected /\ apply'.selected = apply.selected /\ apply'.wss = apply.wss
      /\ apply'.todo = apply.todo \ {apply.on} /\ apply'.tables = apply.tables /\ apply'.wrote = apply.wrote
  <2>1. PICK rest \in SUBSET Sessions : rest = apply.todo \ {apply.on}
    BY <1>2
  <2>2. apply' = [apply EXCEPT !.at = "edit", !.on = "none", !.todo = rest]
    BY <1>1, <2>1
  <2> QED BY <1>2, <2>1, <2>2 DEF JobRow, P!Points
<1> HIDE DEF entries
<1>7. /\ cache' \in CacheRow /\ cache'.there = cache.there /\ cache'.by = cache.by /\ cache'.through = cache.through
      /\ cache'.digest = cache.digest /\ cache'.names = cache.names /\ cache'.file = cache.file
      /\ cache'.index = cache.index /\ cache'.catalog = entries /\ cache'.wsFile = cache.wsFile
  BY <1>1, <1>2, <1>4 DEF CacheRow
<1>8. WorkGoesOn
  BY <1>1, <1>6, <1>7 DEF WorkGoesOn, Work
<1>9. \A s \in Sessions : P!Target(s)' = P!Target(s) /\ (P!Gone(s)' <=> P!Gone(s))
  BY <1>6, <1>8, WorkRests DEF P!Gone
<1>10. HeadsAreThere'
  <2> SUFFICES ASSUME NEW s \in Sessions, Alive(s), cache.digest[s].head = canon[s].head
               PROVE  cache.file[s].head = canon[s].head /\ s \in cache.index /\ entries[s].head = canon[s].head
    BY <1>1, <1>7 DEF HeadsAreThere, Placed, Alive
  <2>1. Placed(s, canon[s].head)
    BY DEF CacheIInv, HeadsAreThere
  <2>2. CASE s = apply.on
    BY <1>1, <1>3, <1>4, <2>1, <2>2, LoadedHead DEF Placed, Work
  <2>3. CASE s # apply.on
    BY <1>4, <2>1, <2>3 DEF Placed
  <2> QED BY <2>2, <2>3
<1>11. EditFits'
  <2>1. ASSUME NEW s \in apply.affected \ (apply.todo \ {apply.on}), s \in DOMAIN apply.selected
        PROVE  Placed(s, apply.selected[s].head)' \/ cache.digest[s] = apply.selected[s]
    <3>1. CASE s = apply.on
      <4>1. ~P!Gone(s) /\ P!Target(s) = apply.selected[s]
        BY <2>1 DEF P!Gone, P!Target
      <4> QED BY <1>4, <1>5, <1>6, <1>7, <3>1, <4>1 DEF Placed
    <3>2. CASE s # apply.on
      <4>1. s \in Sessions
        BY DEF CacheIInv, CacheTyped, JobRow
      <4> QED BY <1>1, <1>4, <1>6, <1>7, <2>1, <3>2, <4>1 DEF CacheIInv, EditFits, Work, Placed
    <3> QED BY <3>1, <3>2
  <2>2. apply.todo \subseteq apply.affected
    BY <1>1 DEF CacheIInv, EditFits, Work
  <2> QED BY <1>6, <1>7, <2>1, <2>2 DEF EditFits
<1>12. CleanFits'
  <2>1. \A s \in Sessions : s # apply.on => (AsManifest(s)' <=> AsManifest(s)) /\ (Written(s)' <=> Written(s))
    BY <1>4, <1>6, <1>7, <1>9 DEF AsManifest, Written, P!Nothing
  <2>2. ASSUME ~dirty, NEW s \in Sessions, s \notin apply.affected \/ s \in apply.todo \ {apply.on}
        PROVE  AsManifest(s) /\ s # apply.on
    BY <1>1, <1>3, <2>2 DEF CacheIInv, CleanFits, Work, Begun
  <2>3. \A s \in Sessions : s = apply.on => Written(s)'
    <3>1. apply.on \in cache.index <=> apply.on \in DOMAIN apply.selected
      BY <1>5 DEF P!Gone
    <3> QED BY <1>4, <1>5, <1>6, <1>7, <1>9, <3>1 DEF Written
  <2>4. ASSUME ~dirty, NEW s \in apply.affected \ (apply.todo \ {apply.on})
        PROVE  Written(s)'
    <3>1. s \in Sessions
      BY DEF CacheIInv, CacheTyped, JobRow
    <3>2. CASE s = apply.on
      BY <2>3, <3>1, <3>2
    <3>3. CASE s # apply.on
      BY <1>1, <2>1, <2>4, <3>1, <3>3 DEF CacheIInv, CleanFits, Work
    <3> QED BY <3>2, <3>3
  <2> QED BY <1>1, <1>5, <1>6, <1>7, <2>1, <2>2, <2>4 DEF CacheIInv, CleanFits, Work, Begun
<1> QED BY <1>8, <1>10, <1>11, <1>12, WorkRests DEF CacheIInv

LEMMA SealKeeps ==
  ASSUME CacheIInv, P!Seal
  PROVE  CacheIInv'
<1>1. /\ apply.at = "edit" /\ apply.todo = {} /\ apply.tables = {} /\ apply' = P!Idle
      /\ UNCHANGED <<canon, names, log, adapter, dirty>>
      /\ cache' = [cache EXCEPT !.through = apply.cursor, !.digest = P!Digests, !.names = apply.wss]
  BY DEF P!Seal, P!Library
<1>2. apply \in JobRow /\ cache \in CacheRow /\ apply.wss \in [Workspaces -> 0..1] /\ apply.affected \in SUBSET Sessions
      /\ apply.cursor \in Nat /\ apply.cursor <= Len(log) /\ cache.digest \in [Sessions -> P!Payloads]
  BY DEF CacheIInv, CacheTyped, CacheRow, JobRow
<1>3. /\ P!Digests \in [Sessions -> P!Payloads]
      /\ \A s \in Sessions : P!Digests[s] = IF s \in apply.affected THEN P!Target(s) ELSE cache.digest[s]
  BY <1>2, TargetFits DEF P!Digests
<1>4. /\ cache' \in CacheRow /\ cache'.there = cache.there /\ cache'.by = cache.by /\ cache'.through = apply.cursor
      /\ cache'.digest = P!Digests /\ cache'.names = apply.wss /\ cache'.file = cache.file
      /\ cache'.index = cache.index /\ cache'.catalog = cache.catalog /\ cache'.wsFile = cache.wsFile
  BY <1>1, <1>2, <1>3 DEF CacheRow
<1>5. /\ cache.there /\ cache.by = adapter /\ cache.through <= apply.cursor
      /\ \A r \in (cache.through + 1)..apply.cursor : log[r] \in apply.affected
  BY <1>1 DEF CacheIInv, DeltaFits, Work
<1>6. CacheTyped'
  BY <1>1, <1>2, <1>4, IdleFits DEF CacheIInv, CacheTyped
<1>7. HeadsGrow'
  <2>1. \A s \in Sessions : P!Digests[s].head <= canon[s].head
    BY <1>3, TargetFits DEF CacheIInv, HeadsGrow
  <2> QED BY <1>1, <1>4, <2>1, IdleFits DEF CacheIInv, HeadsGrow
<1>8. ASSUME NEW s \in Sessions, P!Settled(s)'
      PROVE  P!Digests[s] = P!Shown(s) /\ (Housed(s) => apply.wss[canon[s].ws] = names[canon[s].ws])
  <2>1. Quiet(s, apply.cursor)
    BY <1>1, <1>4, <1>8 DEF P!Settled, Quiet
  <2>2. CASE s \in apply.affected
    BY <1>1, <1>3, <2>1, <2>2 DEF CacheIInv, LoadFits, Work
  <2>3. CASE s \notin apply.affected
    <3>1. ASSUME NEW r \in (cache.through + 1)..Len(log) PROVE log[r] # s
      <4>1. cache.through \in Nat /\ Len(log) \in Nat
        BY DEF CacheIInv, CacheTyped, CacheRow
      <4>2. CASE r <= apply.cursor
        BY <1>2, <1>5, <2>3, <3>1, <4>1, <4>2
      <4>3. CASE r > apply.cursor
        BY <1>2, <2>1, <3>1, <4>1, <4>3 DEF Quiet
      <4> QED BY <1>2, <3>1, <4>1, <4>2, <4>3
    <3>2. cache.digest[s] = P!Shown(s)
      BY <1>5, <3>1 DEF CacheIInv, P!ManifestIsCurrent, P!Settled
    <3>3. Housed(s) => apply.wss[canon[s].ws] = names[canon[s].ws]
      BY <1>1, <2>1 DEF CacheIInv, LoadFits, Work
    <3> QED BY <1>3, <2>3, <3>2, <3>3
  <2>4. Housed(s) => apply.wss[canon[s].ws] = names[canon[s].ws]
    BY <1>1, <2>1 DEF CacheIInv, LoadFits, Work
  <2> QED BY <2>2, <2>3, <2>4
<1>9. P!ManifestIsCurrent' /\ NamesAreCurrent'
  <2>1. \A s \in Sessions : P!Shown(s)' = P!Shown(s) /\ (Housed(s)' <=> Housed(s))
    BY <1>1 DEF P!Shown, P!Payload, P!Nothing, Housed, Alive
  <2> QED BY <1>1, <1>4, <1>8, <2>1 DEF P!ManifestIsCurrent, NamesAreCurrent
<1>10. DeltaFits' /\ LoadFits' /\ EditFits'
  BY <1>1, IdleFits DEF DeltaFits, LoadFits, EditFits, Work, Build
<1>11. HeadsAreThere'
  <2> SUFFICES ASSUME NEW s \in Sessions, Alive(s), P!Digests[s].head = canon[s].head
               PROVE  Placed(s, canon[s].head)
    BY <1>1, <1>4 DEF HeadsAreThere, Placed, Alive
  <2>1. CASE cache.digest[s].head = canon[s].head
    BY <2>1 DEF CacheIInv, HeadsAreThere
  <2>2. CASE cache.digest[s].head # canon[s].head
    <3>1. s \in apply.affected /\ P!Target(s).head = canon[s].head /\ canon[s].head > 0
      BY <1>3, <2>2, PayloadFits
    <3>2. s \in DOMAIN apply.selected
      BY <3>1, TargetFits
    <3>3. P!Target(s) = apply.selected[s]
      BY <3>2 DEF P!Target, P!Gone
    <3>4. Placed(s, apply.selected[s].head) \/ cache.digest[s] = apply.selected[s]
      BY <1>1, <3>1, <3>2 DEF CacheIInv, EditFits, Work
    <3> QED BY <2>2, <3>1, <3>3, <3>4
  <2> QED BY <2>1, <2>2
<1>12. CleanFits'
  <2>1. ASSUME ~dirty, NEW s \in Sessions PROVE AsManifest(s)'
    <3>1. CASE s \notin apply.affected
      <4>1. AsManifest(s)
        BY <1>1, <2>1, <3>1 DEF CacheIInv, CleanFits, Work
      <4> QED BY <1>3, <1>4, <3>1, <4>1 DEF AsManifest, P!Nothing
    <3>2. CASE s \in apply.affected
      <4>1. Written(s)
        BY <1>1, <2>1, <3>2 DEF CacheIInv, CleanFits, Work
      <4> QED BY <1>3, <1>4, <3>2, <4>1, TargetFits DEF AsManifest, Written, P!Nothing
    <3> QED BY <3>1, <3>2
  <2>2. ASSUME ~dirty PROVE cache.wsFile = apply.wss
    <3>1. \A w \in Workspaces : cache.wsFile[w] = apply.wss[w]
      BY <1>1, <2>2 DEF CacheIInv, CleanFits, Work
    <3>2. cache.wsFile \in [Workspaces -> 0..1]
      BY <1>2 DEF CacheRow
    <3> QED BY <1>2, <3>1, <3>2
  <2> QED BY <1>1, <1>4, <2>1, <2>2, IdleFits DEF CleanFits, Work
<1> QED BY <1>6, <1>7, <1>9, <1>10, <1>11, <1>12 DEF CacheIInv

LEMMA NoCacheFits ==
  /\ P!NoCache \in CacheRow /\ ~P!NoCache.there /\ P!NoCache.by = 0 /\ P!NoCache.through = 0
  /\ P!NoCache.names = P!NoCache.wsFile /\ P!NoCache.index = {}
  /\ \A s \in Sessions : /\ P!NoCache.digest[s] = P!Nothing /\ P!NoCache.file[s] = P!Nothing
                         /\ P!NoCache.catalog[s] = P!Nothing /\ P!NoCache.digest[s].head = 0
<1>1. P!Nothing \in P!Payloads /\ P!Nothing.head = 0
  BY CacheAssumption DEF P!Nothing, P!Payloads, CacheAssumption
<1>2. [s \in Sessions |-> P!Nothing] \in [Sessions -> P!Payloads] /\ [w \in Workspaces |-> 0] \in [Workspaces -> 0..1]
  BY <1>1
<1> QED BY <1>1, <1>2 DEF P!NoCache, CacheRow

LEMMA MoveAsideKeeps ==
  ASSUME CacheIInv, P!MoveAside
  PROVE  CacheIInv'
<1>1. /\ apply.at = "build" /\ UNCHANGED <<canon, names, log, adapter, dirty>>
      /\ apply' = [apply EXCEPT !.at = "swap"] /\ cache' = P!NoCache
  BY DEF P!MoveAside, P!Library
<1>2. /\ apply' \in JobRow /\ apply'.at = "swap" /\ apply'.cursor = apply.cursor /\ apply'.affected = apply.affected
      /\ apply'.selected = apply.selected /\ apply'.wss = apply.wss /\ apply'.wrote = apply.wrote
  BY <1>1 DEF CacheIInv, CacheTyped, JobRow, P!Points
<1>3. adapter \in Nat /\ log \in Seq(Sessions) /\ \A s \in Sessions : canon[s].head \in Nat /\ (Alive(s) => canon[s].head > 0)
  BY CacheAssumption, PayloadFits DEF CacheIInv, CacheTyped, CacheAssumption
<1>4. CacheTyped'
  BY <1>1, <1>2, <1>3, NoCacheFits DEF CacheIInv, CacheTyped
<1>5. HeadsGrow'
  BY <1>1, <1>2, <1>3, NoCacheFits DEF CacheIInv, HeadsGrow
<1>6. P!ManifestIsCurrent' /\ NamesAreCurrent' /\ DeltaFits' /\ EditFits'
  BY <1>1, <1>2, NoCacheFits DEF P!ManifestIsCurrent, NamesAreCurrent, P!Settled, DeltaFits, EditFits, Work
<1>7. LoadFits'
  <2>1. \A s \in Sessions : /\ P!Shown(s)' = P!Shown(s) /\ (Housed(s)' <=> Housed(s)) /\ P!Target(s)' = P!Target(s)
                            /\ Quiet(s, apply.cursor)' <=> Quiet(s, apply.cursor)
    BY <1>1, <1>2 DEF P!Shown, P!Payload, P!Nothing, Housed, Alive, P!Target, P!Gone, Quiet
  <2> QED BY <1>1, <1>2, <2>1 DEF CacheIInv, LoadFits, Work, Build
<1>8. HeadsAreThere'
  <2>1. \A s \in Sessions : Alive(s)' => Alive(s) /\ canon'[s].head # cache'.digest[s].head
    BY <1>1, <1>3, NoCacheFits DEF Alive
  <2> QED BY <2>1 DEF HeadsAreThere
<1>9. CleanFits'
  <2>1. ~apply.wrote
    BY <1>1 DEF CacheIInv, CleanFits, Work
  <2>2. \A s \in Sessions : AsManifest(s)'
    BY <1>1, NoCacheFits DEF AsManifest, P!Nothing
  <2> QED BY <1>1, <1>2, <2>1, <2>2, NoCacheFits DEF CleanFits, Work
<1> QED BY <1>4, <1>5, <1>6, <1>7, <1>8, <1>9 DEF CacheIInv

LEMMA SwapKeeps ==
  ASSUME CacheIInv, P!Swap
  PROVE  CacheIInv'
<1> DEFINE made == [s \in Sessions |-> P!Target(s)]
<1>1. /\ apply.at = "swap" /\ apply' = P!Idle /\ ~dirty' /\ dirty' \in BOOLEAN
      /\ UNCHANGED <<canon, names, log, adapter>>
      /\ cache' = [there |-> TRUE, by |-> adapter, through |-> apply.cursor, digest |-> made, names |-> apply.wss,
                   file |-> made, index |-> DOMAIN apply.selected, catalog |-> made, wsFile |-> apply.wss]
  BY DEF P!Swap, P!Library
<1>2. apply \in JobRow /\ apply.wss \in [Workspaces -> 0..1] /\ apply.cursor \in Nat /\ apply.cursor <= Len(log)
      /\ apply.selected \in Selection /\ adapter \in Nat
  BY CacheAssumption DEF CacheIInv, CacheTyped, JobRow, CacheAssumption
<1>3. DOMAIN apply.selected \in SUBSET Sessions
  BY <1>2 DEF Selection
<1>4. made \in [Sessions -> P!Payloads] /\ \A s \in Sessions : made[s] = P!Target(s)
  BY TargetFits
<1> HIDE DEF made
<1>5. /\ cache' \in CacheRow /\ cache'.there /\ cache'.by = adapter /\ cache'.through = apply.cursor
      /\ cache'.digest = made /\ cache'.names = apply.wss /\ cache'.file = made
      /\ cache'.index = DOMAIN apply.selected /\ cache'.catalog = made /\ cache'.wsFile = apply.wss
  BY <1>1, <1>2, <1>3, <1>4 DEF CacheRow
<1>6. CacheTyped'
  BY <1>1, <1>2, <1>5, IdleFits DEF CacheIInv, CacheTyped
<1>7. HeadsGrow'
  BY <1>1, <1>4, <1>5, TargetFits, IdleFits DEF CacheIInv, HeadsGrow
<1>8. P!ManifestIsCurrent' /\ NamesAreCurrent'
  <2>1. \A s \in Sessions : P!Shown(s)' = P!Shown(s) /\ (Housed(s)' <=> Housed(s))
    BY <1>1 DEF P!Shown, P!Payload, P!Nothing, Housed, Alive
  <2>2. \A s \in Sessions : P!Settled(s)' => Quiet(s, apply.cursor)
    BY <1>1, <1>5 DEF P!Settled, Quiet
  <2>3. \A s \in Sessions : Quiet(s, apply.cursor) =>
          made[s] = P!Shown(s) /\ (Housed(s) => apply.wss[canon[s].ws] = names[canon[s].ws])
    BY <1>1, <1>4 DEF CacheIInv, LoadFits, Build
  <2> QED BY <1>1, <1>5, <2>1, <2>2, <2>3 DEF P!ManifestIsCurrent, NamesAreCurrent
<1>9. DeltaFits' /\ LoadFits' /\ EditFits'
  BY <1>1, IdleFits DEF DeltaFits, LoadFits, EditFits, Work, Build
<1>10. HeadsAreThere'
  <2> SUFFICES ASSUME NEW s \in Sessions, Alive(s), P!Target(s).head = canon[s].head
               PROVE  s \in DOMAIN apply.selected
    BY <1>1, <1>4, <1>5 DEF HeadsAreThere, Placed, Alive
  <2> QED BY PayloadFits, TargetFits
<1>11. CleanFits'
  <2>1. \A s \in Sessions : AsManifest(s)'
    BY <1>1, <1>4, <1>5, TargetFits DEF AsManifest, P!Nothing
  <2> QED BY <1>1, <1>5, <2>1, IdleFits DEF CleanFits, Work
<1> QED BY <1>6, <1>7, <1>8, <1>9, <1>10, <1>11 DEF CacheIInv

LEMMA CacheInit ==
  ASSUME P!Init
  PROVE  CacheIInv
<1>1. /\ canon = [s \in Sessions |-> [state |-> "none", head |-> 0, ws |-> "none"]]
      /\ names = [w \in Workspaces |-> 0] /\ log = <<>> /\ adapter = 1
      /\ cache = P!NoCache /\ apply = P!Idle /\ dirty = FALSE
  BY DEF P!Init
<1>2. CacheTyped
  <2>1. canon \in [Sessions -> CanonRow]
    BY <1>1, CacheAssumption DEF CanonRow, CacheAssumption
  <2>2. names \in [Workspaces -> 0..1] /\ log \in Seq(Sessions) /\ Len(log) = 0 /\ adapter \in 1..MaxUpgrades + 1
    BY <1>1, CacheAssumption DEF CacheAssumption
  <2>3. cache \in CacheRow /\ apply \in JobRow /\ dirty \in BOOLEAN
    BY <1>1, NoCacheFits, IdleFits
  <2>4. cache.by = 0 /\ cache.through = 0 /\ apply.cursor = 0
    BY <1>1, NoCacheFits, IdleFits
  <2>5. 0 <= MaxRevision /\ adapter = 1
    BY <1>1, CacheAssumption DEF CacheAssumption
  <2> QED BY <2>1, <2>2, <2>3, <2>4, <2>5 DEF CacheTyped
<1>3. \A s \in Sessions : canon[s].state = "none" /\ canon[s].head = 0 /\ Len(log) = 0
  BY <1>1
<1>4. HeadsGrow /\ HeadsAreThere
  BY <1>1, <1>3, NoCacheFits, IdleFits DEF HeadsGrow, HeadsAreThere, Alive
<1>5. P!ManifestIsCurrent /\ NamesAreCurrent
  BY <1>1, NoCacheFits DEF P!ManifestIsCurrent, NamesAreCurrent, P!Settled
<1>6. DeltaFits /\ LoadFits /\ EditFits
  BY <1>1, IdleFits DEF DeltaFits, LoadFits, EditFits, Work, Build
<1>7. CleanFits
  <2>1. \A s \in Sessions : AsManifest(s)
    BY <1>1, NoCacheFits DEF AsManifest
  <2> QED BY <1>1, <2>1, NoCacheFits, IdleFits DEF CleanFits, Work
<1> QED BY <1>2, <1>4, <1>5, <1>6, <1>7 DEF CacheIInv

\* What the run checks follows from the invariant: a settled session's manifest is current, its head
\* is there whatever was interrupted, and everything is as the manifest says when nothing was.
LEMMA CacheHolds ==
  ASSUME CacheIInv
  PROVE  P!TypeOK /\ P!ManifestIsCurrent /\ P!ContentIsCurrent /\ P!CacheIsCurrent
<1>1. P!TypeOK
  <2>1. adapter \in 1..MaxUpgrades + 1 /\ adapter \in Nat /\ cache.by \in Nat /\ cache.by <= adapter
        /\ MaxUpgrades \in Nat /\ cache.through \in 0..Len(log) /\ apply.cursor \in 0..Len(log)
    BY CacheAssumption DEF CacheIInv, CacheTyped, CacheRow, JobRow, CacheAssumption
  <2>2. DOMAIN apply.selected \subseteq Sessions
    BY DEF CacheIInv, CacheTyped, JobRow, Selection
  <2> QED BY <2>1, <2>2 DEF CacheIInv, CacheTyped, CacheRow, JobRow, CanonRow, P!TypeOK
<1>2. P!ManifestIsCurrent
  BY DEF CacheIInv
<1>3. P!ContentIsCurrent
  <2> SUFFICES ASSUME apply.at = "idle", NEW s \in Sessions, P!Settled(s), Alive(s)
               PROVE  Placed(s, canon[s].head)
    BY DEF P!ContentIsCurrent, Placed, Alive
  <2>1. cache.digest[s] = P!Payload(s)
    BY <1>2 DEF P!ManifestIsCurrent, P!Shown, Alive
  <2>2. cache.digest[s].head = canon[s].head
    BY <2>1, PayloadFits
  <2> QED BY <2>2 DEF CacheIInv, HeadsAreThere
<1>4. P!CacheIsCurrent
  <2> SUFFICES ASSUME apply.at = "idle", ~dirty, NEW s \in Sessions, P!Settled(s)
               PROVE  /\ cache.file[s] = P!Shown(s) /\ cache.catalog[s] = P!Shown(s)
                      /\ Alive(s) => s \in cache.index
                      /\ Housed(s) => cache.wsFile[canon[s].ws] = names[canon[s].ws]
    BY DEF P!CacheIsCurrent, Alive, Housed
  <2>1. AsManifest(s) /\ cache.wsFile = cache.names
    BY DEF CacheIInv, CleanFits, Work
  <2>2. cache.digest[s] = P!Shown(s)
    BY <1>2 DEF P!ManifestIsCurrent
  <2>3. Alive(s) => cache.digest[s] # P!Nothing
    BY <2>2, PayloadFits DEF P!Shown, Alive
  <2> QED BY <2>1, <2>2, <2>3 DEF CacheIInv, NamesAreCurrent, AsManifest
<1> QED BY <1>1, <1>2, <1>3, <1>4

LEMMA CacheStep == CacheIInv /\ [P!Next]_projection => CacheIInv'
<1> SUFFICES ASSUME CacheIInv, [P!Next]_projection PROVE CacheIInv'
  OBVIOUS
<1>1. CASE UNCHANGED projection
  <2>1. UNCHANGED <<canon, names, log, adapter, cache, apply, dirty>>
    BY <1>1 DEF projection
  <2>2. CacheTyped' /\ HeadsGrow' /\ DeltaFits'
    BY <2>1 DEF CacheIInv, CacheTyped, HeadsGrow, DeltaFits
  <2>3. P!ManifestIsCurrent' /\ NamesAreCurrent' /\ HeadsAreThere'
    BY <2>1, CacheRests
  <2>4. LoadFits'
    BY <2>1 DEF CacheIInv, LoadFits, P!Target, P!Gone, P!Shown, P!Payload, P!Nothing, Quiet, Alive, Housed
  <2>5. EditFits' /\ CleanFits'
    BY <2>1 DEF CacheIInv, EditFits, CleanFits, Placed, AsManifest, Written, Begun, P!Target, P!Gone, P!Nothing
  <2> QED BY <2>2, <2>3, <2>4, <2>5 DEF CacheIInv
<1>2. ASSUME NEW s \in Sessions,
             \/ P!Stamp(s, "none", "live") \/ P!Stamp(s, "live", "live")
             \/ P!Stamp(s, "live", "dead") \/ P!Stamp(s, "dead", "live")
      PROVE  CacheIInv'
  BY <1>2, StampKeeps
<1>3. ASSUME NEW s \in Sessions, NEW w \in Workspaces \cup {"none"}, P!Move(s, w) PROVE CacheIInv'
  BY <1>3, MoveKeeps
<1>4. ASSUME NEW w \in Workspaces, P!Rename(w) \/ P!WriteWorkspace(w) PROVE CacheIInv'
  BY <1>4, RenameKeeps, WriteWorkspaceKeeps
<1>5. CASE P!Upgrade \/ P!Begin \/ P!Page \/ P!Unchanged \/ P!Load
  BY <1>5, UpgradeKeeps, RoamKeeps, LoadKeeps
<1>6. ASSUME NEW s \in Sessions, P!RemoveNext(s) \/ P!WriteNext(s) PROVE CacheIInv'
  BY <1>6, RemoveNextKeeps, WriteNextKeeps
<1>7. CASE P!PutFile \/ P!PutIndex \/ P!PutCatalog \/ P!Seal
  BY <1>7, PutFileKeeps, PutIndexKeeps, PutCatalogKeeps, SealKeeps
<1>8. CASE P!ReadBefore \/ P!LoadAll \/ P!ReadAfter \/ P!GiveUp \/ P!MoveAside \/ P!Swap \/ P!Interrupt
  BY <1>8, RoamKeeps, LoadAllKeeps, ReadAfterKeeps, MoveAsideKeeps, SwapKeeps
<1> QED BY <1>1, <1>2, <1>3, <1>4, <1>5, <1>6, <1>7, <1>8 DEF P!Next

\* Manifest, files, index and catalog are as current as the cursor says, interrupted updates before
\* included; without interruptions the whole cache is (persistent-cache.ts, materialize.ts).
THEOREM CacheIsFollowed == Spec => []CacheFollows
<1>1. Init => CacheIInv
  BY CacheInit DEF Init
<1>2. CacheIInv /\ [Next]_<<focus, ownership, databases, continuation, projection, scans, capture>> => CacheIInv'
  <2> SUFFICES ASSUME CacheIInv, [Next]_<<focus, ownership, databases, continuation, projection, scans, capture>>
               PROVE [P!Next]_projection
    BY CacheStep
  <2> QED BY DEF Next
<1>3. CacheIInv => CacheFollows
  BY CacheHolds DEF CacheFollows
<1> QED BY <1>1, <1>2, <1>3, PTL DEF Spec

-----------------------------------------------------------------------------
(***************************************************************************)
(* The plugin of a projection run, for any conversations, lengths and      *)
(* faults: copies are whole, the queue is what is not acknowledged, a      *)
(* batch can be taken, and a detached plugin has sent what it observed.    *)
(***************************************************************************)

Conversations == K!Conversations
Entries == [lo : Nat, hi : Nat]

-----------------------------------------------------------------------------
(* The inductive invariant.                                                *)

\* A stream has copied what it counts, into a session DSH did not have.
StreamsCount ==
    /\ copied \in [Projected -> 0..Stored] /\ stream \in [Projected -> 0..Stored + 1] /\ hydrated \subseteq Projected
    /\ \A s \in Projected : /\ stream[s] # Stored + 1 => s \notin hydrated /\ copied[s] = stream[s]
                            /\ s \in hydrated => copied[s] = Stored

\* What is queued is no more than what was observed, and that no more than what DSH appended.
SpanFits(s) ==
    /\ Len(own[s]) <= emitted /\ Len(queue[s]) <= Len(own[s])
    /\ K!Base(s) <= observed[s] /\ observed[s] <= K!Base(s) + Len(own[s])
    /\ \A i \in 1..Len(queue[s]) : queue[s][i].lo < queue[s][i].hi /\ queue[s][i].hi <= observed[s]

SpansFit ==
    /\ own \in [Conversations -> Seq({"prelude", "turn"})] /\ observed \in [Conversations -> Nat]
    /\ queue \in [Conversations -> Seq(Entries)] /\ active \subseteq Conversations /\ emitted \in 0..MaxOwn
    /\ \A s \in Conversations : SpanFits(s)

\* The queue of a session reaches from the Engine's revision to what was observed, but for a batch whose
\* answer was lost.
Contiguous(q) ==
    /\ \A i \in 1..Len(q) - 1 : q[i].hi = q[i + 1].lo
    /\ \A i, j \in 1..Len(q) : i < j => q[i].hi <= q[j].lo

Follows(s) ==
    /\ s \in active =>
          /\ Contiguous(queue[s])
          /\ queue[s] # <<>> => queue[s][Len(queue[s])].hi = observed[s]
          /\ batch[s] = K!NoBatch => revision[s] = IF queue[s] = <<>> THEN observed[s] ELSE queue[s][1].lo
    /\ s \notin active => queue[s] = <<>> /\ revision[s] = K!Base(s) /\ batch[s] = K!NoBatch
    /\ batch[s] # K!NoBatch =>
          /\ batch[s].n \in 1..Len(queue[s])
          /\ batch[s].lo = queue[s][1].lo /\ batch[s].hi = queue[s][batch[s].n].hi
          /\ revision[s] = batch[s].lo \/ (revision[s] = batch[s].hi /\ batch[s].hi \in receipts[s])
    /\ tail[s] \in {"metadata", "posting"} => queue[s] # <<>>
    /\ tail[s] = "posting" => batch[s] # K!NoBatch

QueueFollows ==
    /\ batch \in [Conversations -> [n : Nat, lo : Nat, hi : Nat]] /\ revision \in [Conversations -> Nat]
    /\ receipts \in [Conversations -> SUBSET Nat] /\ failed \subseteq Conversations /\ known \subseteq Live
    /\ tail \in [Conversations -> {"none", "metadata", "posting", "ending"}]
    /\ \A s \in Conversations : Follows(s)

\* A drain flushes one session at a time, alone; what it leaves after its second attempt has failed.
FlushTyped ==
    /\ client \in {"attaching", "attached", "flushing", "draining", "detached", "failed"}
    /\ flush \in [K!Callers -> [at : {"none", "first", "woken", "second", "check", "failed"},
                                for : SUBSET Conversations]]
    /\ todo \subseteq Conversations /\ faults \in 0..MaxFaults
    /\ \A c \in K!Callers : /\ flush[c].at = "none" => flush[c].for = {}
                            /\ \A r, s \in flush[c].for : r = s
    /\ client \notin {"draining", "failed"} => flush["drain"] = K!Resting
    /\ client = "draining" => flush["dsh"].at = "none"

Drains(s) ==
    /\ s \notin todo => queue[s] = <<>>
    /\ s \in flush["drain"].for =>
          /\ flush["drain"].at \in {"woken", "check"} => tail[s] = "none"
          /\ flush["drain"].at = "second" /\ tail[s] \in {"none", "ending"} /\ queue[s] # <<>> => s \in failed
          /\ flush["drain"].at = "check" /\ queue[s] # <<>> => s \in failed

DrainFits ==
    /\ FlushTyped
    /\ client = "draining" => \A s \in Conversations : Drains(s)
    /\ client = "detached" => \A s \in Conversations : queue[s] = <<>>

CaptureIInv == StreamsCount /\ SpansFit /\ QueueFollows /\ DrainFits

-----------------------------------------------------------------------------
(* Spans.                                                                  *)

LEMMA NoSpan == ASSUME NEW q \in Seq(Entries) PROVE q = <<>> <=> Len(q) = 0
  OBVIOUS

LEMMA AppendSpan ==
  ASSUME NEW q \in Seq(Entries), NEW e \in Entries
  PROVE  /\ Append(q, e) \in Seq(Entries) /\ Append(q, e) # <<>> /\ Len(Append(q, e)) = Len(q) + 1
         /\ \A i \in 1..Len(q) : Append(q, e)[i] = q[i]
         /\ Append(q, e)[Len(q) + 1] = e
  OBVIOUS

LEMMA DropSpans ==
  ASSUME NEW q \in Seq(Entries), NEW n \in 1..Len(q)
  PROVE  /\ SubSeq(q, n + 1, Len(q)) \in Seq(Entries) /\ Len(SubSeq(q, n + 1, Len(q))) = Len(q) - n
         /\ \A i \in 1..Len(q) - n : SubSeq(q, n + 1, Len(q))[i] = q[n + i]
         /\ SubSeq(q, n + 1, Len(q)) = <<>> <=> n = Len(q)
<1>1. /\ SubSeq(q, n + 1, Len(q)) \in Seq(Entries) /\ Len(SubSeq(q, n + 1, Len(q))) = Len(q) - n
      /\ \A i \in 1..Len(q) - n : SubSeq(q, n + 1, Len(q))[i] = q[n + i]
  OBVIOUS
<1>2. SubSeq(q, n + 1, Len(q)) = <<>> <=> Len(SubSeq(q, n + 1, Len(q))) = 0
  BY <1>1, NoSpan
<1>3. Len(q) \in Nat
  OBVIOUS
<1> QED BY <1>1, <1>2, <1>3

LEMMA SpanTypes ==
  ASSUME SpansFit, NEW s \in Conversations
  PROVE  /\ own[s] \in Seq({"prelude", "turn"}) /\ Len(own[s]) \in Nat
         /\ queue[s] \in Seq(Entries) /\ Len(queue[s]) \in Nat
         /\ \A i \in 1..Len(queue[s]) : queue[s][i].lo \in Nat /\ queue[s][i].hi \in Nat
         /\ observed[s] \in Nat /\ K!Base(s) \in Nat /\ SpanFits(s)
<1>1. own[s] \in Seq({"prelude", "turn"}) /\ queue[s] \in Seq(Entries) /\ observed[s] \in Nat /\ SpanFits(s)
  BY DEF SpansFit
<1>2. \A i \in 1..Len(queue[s]) : queue[s][i] \in Entries
  BY <1>1
<1>3. K!Base(s) \in Nat
  BY CaptureAssumption DEF K!Base
<1> QED BY <1>1, <1>2, <1>3 DEF Entries

\* What does not look at a variable does not care about it.
LEMMA StreamsFrame == StreamsCount /\ UNCHANGED <<copied, stream, hydrated>> => StreamsCount'
  BY DEF StreamsCount

LEMMA SpansFrame == SpansFit /\ UNCHANGED <<own, observed, queue, active, emitted>> => SpansFit'
  BY DEF SpansFit, SpanFits, Conversations, K!Conversations, K!Base

LEMMA QueueFrame ==
  QueueFollows /\ UNCHANGED <<batch, revision, receipts, failed, known, tail, active, queue, observed>> => QueueFollows'
  BY DEF QueueFollows, Follows, Contiguous, Conversations, K!Conversations, K!Base, K!NoBatch

LEMMA DrainFrame == DrainFits /\ UNCHANGED <<client, flush, todo, faults, queue, tail, failed>> => DrainFits'
  BY DEF DrainFits, FlushTyped, Drains, Conversations, K!Conversations, K!Callers, K!Resting

-----------------------------------------------------------------------------
(* The steps.                                                              *)

LEMMA CaptureInit == K!Init => CaptureIInv
<1> SUFFICES ASSUME K!Init PROVE CaptureIInv
  OBVIOUS
<1> USE CaptureAssumption
    DEF K!Init, Conversations, K!Conversations, K!Base, K!NoBatch, K!Resting, K!Streams, K!NoStream, K!Callers
<1>1. StreamsCount
  BY DEF StreamsCount
<1>2. SpansFit
  <2>1. \A s \in Conversations : own[s] = <<>> /\ queue[s] = <<>> /\ Len(own[s]) = 0 /\ Len(queue[s]) = 0
    OBVIOUS
  <2>2. \A s \in Conversations : SpanFits(s)
    BY <2>1 DEF SpanFits
  <2>3. <<>> \in Seq({"prelude", "turn"}) /\ <<>> \in Seq(Entries)
    OBVIOUS
  <2> QED BY <2>2, <2>3 DEF SpansFit
<1>3. QueueFollows
  BY DEF QueueFollows, Follows, Contiguous
<1>4. DrainFits
  BY DEF DrainFits, FlushTyped, Drains
<1> QED BY <1>1, <1>2, <1>3, <1>4 DEF CaptureIInv

\* DSH appends, and the plugin is told or not.
LEMMA EmitStep ==
  ASSUME CaptureIInv, NEW s \in Conversations, K!Emit(s) PROVE CaptureIInv'
<1> USE CaptureAssumption DEF Conversations
<1>0. SpansFit /\ QueueFollows /\ DrainFits /\ StreamsCount
  BY DEF CaptureIInv
<1>1. PICK kind \in {"prelude", "turn"}, announced \in BOOLEAN :
          /\ own' = [own EXCEPT ![s] = Append(@, kind)]
          /\ IF announced /\ client \in {"attached", "flushing"}
             THEN K!Observe(s, own'[s]) ELSE UNCHANGED <<observed, active, queue, tail>>
  BY DEF K!Emit
<1>2. /\ emitted < MaxOwn /\ emitted' = emitted + 1
      /\ UNCHANGED <<client, copied, stream, hydrated, batch, failed, known, revision, receipts, flush, todo, faults>>
  BY DEF K!Emit, K!Copying
<1>3. /\ own' \in [Conversations -> Seq({"prelude", "turn"})]
      /\ Len(own'[s]) = Len(own[s]) + 1
      /\ \A c \in Conversations \ {s} : own'[c] = own[c]
  BY <1>0, <1>1 DEF SpansFit
<1>4. StreamsCount'
  BY <1>0, <1>2, StreamsFrame
<1>5. CASE UNCHANGED <<observed, active, queue, tail>>
  <2>1. SpansFit'
    <3>1. ASSUME NEW c \in Conversations PROVE SpanFits(c)'
      <4>1. SpanFits(c) /\ Len(own[c]) \in Nat /\ Len(queue[c]) \in Nat /\ observed[c] \in Nat /\ K!Base(c) \in Nat
        BY <1>0, SpanTypes
      <4>2. Len(own'[c]) = Len(own[c]) \/ Len(own'[c]) = Len(own[c]) + 1
        BY <1>3
      <4>3. emitted \in Nat /\ emitted' = emitted + 1
        BY <1>0, <1>2 DEF SpansFit
      <4> HIDE DEF Conversations
      <4>4. /\ Len(own'[c]) <= emitted' /\ Len(queue[c]) <= Len(own'[c])
            /\ K!Base(c) <= observed[c] /\ observed[c] <= K!Base(c) + Len(own'[c])
            /\ \A i \in 1..Len(queue[c]) : queue[c][i].lo < queue[c][i].hi /\ queue[c][i].hi <= observed[c]
        BY SMTT(60), <4>1, <4>2, <4>3 DEF SpanFits
      <4> QED BY <1>5, <4>4 DEF SpanFits, K!Base
    <3> QED BY <1>0, <1>2, <1>3, <1>5, <3>1 DEF SpansFit
  <2>2. QueueFollows' /\ DrainFits'
    BY <1>0, <1>2, <1>5, QueueFrame, DrainFrame
  <2> QED BY <1>4, <2>1, <2>2 DEF CaptureIInv
<1>6. CASE client \in {"attached", "flushing"} /\ K!Observe(s, own'[s])
  <2> DEFINE hi == K!Base(s) + Len(own'[s])
             e  == [lo |-> IF s \in active THEN observed[s] ELSE K!Base(s), hi |-> hi]
  <2>1. /\ observed' = [observed EXCEPT ![s] = hi] /\ hi \in Nat
        /\ observed[s] < hi /\ K!Base(s) < hi /\ K!Base(s) \in Nat /\ observed[s] \in Nat
    BY <1>0, <1>3, <1>6 DEF K!Observe, SpansFit, SpanFits, K!Base
  <2>2. DrainFits'
    BY <1>0, <1>2, <1>6 DEF DrainFits, FlushTyped
  <2>3. CASE UNCHANGED <<active, queue, tail>> /\ s \notin active
    <3>1. SpansFit'
      <4>1. \A c \in Conversations : SpanFits(c)'
        BY SMTT(60), <1>0, <1>2, <1>3, <2>1, <2>3, SpanTypes DEF SpansFit, SpanFits, K!Base
      <4> QED BY <1>0, <1>2, <1>3, <2>1, <2>3, <4>1 DEF SpansFit
    <3>2. QueueFollows'
      BY <1>0, <1>2, <2>1, <2>3 DEF QueueFollows, Follows, K!Base, SpansFit
    <3> QED BY <1>4, <2>2, <3>1, <3>2 DEF CaptureIInv
  <2>4. CASE /\ active' = active \cup {s}
             /\ queue' = [queue EXCEPT ![s] = Append(@, e)] /\ tail' = K!Scheduled(s, queue')
    <3>1. /\ e \in Entries /\ e.lo < e.hi /\ queue[s] \in Seq(Entries)
      BY <1>0, <2>1 DEF Entries, SpansFit
    <3>2. /\ queue'[s] = Append(queue[s], e) /\ \A c \in Conversations \ {s} : queue'[c] = queue[c]
          /\ queue' \in [Conversations -> Seq(Entries)]
      BY <1>0, <2>4, <3>1, AppendSpan DEF SpansFit
    <3>3. SpansFit'
      <4>1. SpanFits(s)'
        <5>1. /\ Len(queue'[s]) = Len(queue[s]) + 1 /\ Len(queue[s]) \in Nat /\ Len(own[s]) \in Nat
              /\ \A i \in 1..Len(queue[s]) : queue'[s][i] = queue[s][i]
              /\ queue'[s][Len(queue[s]) + 1] = e
          BY <1>0, <3>1, <3>2, AppendSpan, SpanTypes
        <5>2. SpanFits(s) /\ observed'[s] = hi /\ e.hi = hi /\ emitted \in Nat
          BY <1>0, <2>1 DEF SpansFit
        <5>3. \A i \in 1..Len(queue[s]) : queue[s][i].hi \in Nat
          BY <1>0, SpanTypes
        <5>4. Len(own'[s]) <= emitted' /\ Len(queue'[s]) <= Len(own'[s])
          BY <1>2, <1>3, <5>1, <5>2 DEF SpanFits
        <5>5. K!Base(s) <= observed'[s] /\ observed'[s] <= K!Base(s) + Len(own'[s])
          BY <1>3, <2>1, <5>1, <5>2
        <5>6. \A i \in 1..Len(queue'[s]) : queue'[s][i].lo < queue'[s][i].hi /\ queue'[s][i].hi <= observed'[s]
          <6>1. \A i \in 1..Len(queue[s]) : queue'[s][i].lo < queue'[s][i].hi /\ queue'[s][i].hi <= observed'[s]
            <7>1. \A i \in 1..Len(queue[s]) : queue[s][i].lo < queue[s][i].hi /\ queue[s][i].hi <= observed[s]
              BY <5>2 DEF SpanFits
            <7> HIDE DEF hi, e
            <7> SUFFICES ASSUME NEW i \in 1..Len(queue[s])
                         PROVE  queue'[s][i].lo < queue'[s][i].hi /\ queue'[s][i].hi <= observed'[s]
              OBVIOUS
            <7>2. queue'[s][i] = queue[s][i]
              BY <5>1
            <7>3. queue[s][i].hi \in Nat
              BY <5>3
            <7>4. hi \in Nat /\ observed[s] \in Nat /\ observed[s] < hi /\ observed'[s] = hi
              BY <2>1, <5>2
            <7> QED BY <7>1, <7>2, <7>3, <7>4
          <6>2. queue'[s][Len(queue[s]) + 1].lo < queue'[s][Len(queue[s]) + 1].hi
            BY <3>1, <5>1
          <6>3. queue'[s][Len(queue[s]) + 1].hi <= observed'[s]
            BY <2>1, <5>1, <5>2
          <6> QED BY <5>1, <6>1, <6>2, <6>3
        <5> QED BY <5>4, <5>5, <5>6 DEF SpanFits, K!Base
      <4>2. \A c \in Conversations \ {s} : SpanFits(c)'
        <5>1. \A c \in Conversations \ {s} : observed'[c] = observed[c]
          BY <1>0, <2>1 DEF SpansFit
        <5> SUFFICES ASSUME NEW c \in Conversations \ {s} PROVE SpanFits(c)'
          OBVIOUS
        <5>2. SpanFits(c) /\ Len(own[c]) \in Nat /\ emitted \in Nat
          BY <1>0, SpanTypes DEF SpansFit
        <5>3. own'[c] = own[c] /\ queue'[c] = queue[c] /\ observed'[c] = observed[c] /\ emitted' = emitted + 1
          BY <1>2, <1>3, <3>2, <5>1
        <5>4. Len(own'[c]) <= emitted'
          BY <5>2, <5>3 DEF SpanFits
        <5>5. K!Base(c)' = K!Base(c)
          BY DEF K!Base
        <5>6. /\ Len(queue'[c]) <= Len(own'[c])
              /\ K!Base(c) <= observed'[c] /\ observed'[c] <= K!Base(c) + Len(own'[c])
          BY <5>2, <5>3 DEF SpanFits
        <5>7. \A i \in 1..Len(queue'[c]) : queue'[c][i].lo < queue'[c][i].hi /\ queue'[c][i].hi <= observed'[c]
          BY <5>2, <5>3 DEF SpanFits
        <5> QED BY <5>4, <5>5, <5>6, <5>7 DEF SpanFits
      <4> QED BY <1>0, <1>2, <1>3, <2>1, <2>4, <3>2, <4>1, <4>2 DEF SpansFit
    <3>4. QueueFollows'
      <4>1. /\ tail' \in [Conversations -> {"none", "metadata", "posting", "ending"}]
            /\ \A c \in Conversations \ {s} : tail'[c] = tail[c]
            /\ tail'[s] = IF tail[s] # "none" THEN tail[s] ELSE "metadata"
        <5>1. queue'[s] # <<>>
          BY <3>1, <3>2, AppendSpan
        <5> QED BY <1>0, <2>4, <5>1 DEF QueueFollows, K!Scheduled
      <4>2. Follows(s)'
        <5>1. Contiguous(queue[s])' /\ (s \in active)'
          <6>1. /\ Len(queue'[s]) = Len(queue[s]) + 1 /\ Len(queue[s]) \in Nat
                /\ \A i \in 1..Len(queue[s]) : queue'[s][i] = queue[s][i]
                /\ queue'[s][Len(queue[s]) + 1] = e
            BY <1>0, <3>1, <3>2, AppendSpan, SpanTypes
          <6>2. CASE queue[s] = <<>>
            BY <2>4, <6>1, <6>2 DEF Contiguous
          <6>3. CASE queue[s] # <<>>
            <7>1. /\ s \in active /\ Contiguous(queue[s]) /\ e.lo = queue[s][Len(queue[s])].hi
                  /\ \A i \in 1..Len(queue[s]) : queue[s][i].lo < queue[s][i].hi
              BY <1>0, <6>3 DEF QueueFollows, Follows, SpansFit, SpanFits
            <7>2. \A i \in 1..Len(queue[s]) : queue[s][i].lo \in Nat /\ queue[s][i].hi \in Nat
              BY <1>0, SpanTypes
            <7>3. Len(queue[s]) # 0
              BY <3>1, <6>3, NoSpan
            <7>4. \A i \in 1..Len(queue[s]) : queue[s][i].hi <= e.lo
              <8> HIDE DEF e
              <8> SUFFICES ASSUME NEW i \in 1..Len(queue[s]) PROVE queue[s][i].hi <= e.lo
                OBVIOUS
              <8>1. Len(queue[s]) \in 1..Len(queue[s]) /\ (i = Len(queue[s]) \/ i < Len(queue[s]))
                BY <6>1, <7>3
              <8>2. i < Len(queue[s]) => queue[s][i].hi <= queue[s][Len(queue[s])].lo
                BY <7>1, <8>1 DEF Contiguous
              <8>3. queue[s][Len(queue[s])].lo < queue[s][Len(queue[s])].hi
                BY <7>1, <8>1
              <8> QED BY <7>1, <7>2, <8>1, <8>2, <8>3
            <7>5. \A i \in 1..Len(queue'[s]) - 1 : queue'[s][i].hi = queue'[s][i + 1].lo
              <8> HIDE DEF e
              <8> SUFFICES ASSUME NEW i \in 1..Len(queue'[s]) - 1 PROVE queue'[s][i].hi = queue'[s][i + 1].lo
                OBVIOUS
              <8>1. i \in 1..Len(queue[s]) /\ (i = Len(queue[s]) \/ i + 1 \in 1..Len(queue[s])) /\ (i = Len(queue[s]) \/ i \in 1..Len(queue[s]) - 1)
                BY <6>1
              <8> QED BY <6>1, <7>1, <8>1 DEF Contiguous
            <7>6. \A i, j \in 1..Len(queue'[s]) : i < j => queue'[s][i].hi <= queue'[s][j].lo
              <8> HIDE DEF e
              <8> SUFFICES ASSUME NEW i \in 1..Len(queue'[s]), NEW j \in 1..Len(queue'[s]), i < j
                           PROVE  queue'[s][i].hi <= queue'[s][j].lo
                OBVIOUS
              <8>1. i \in 1..Len(queue[s]) /\ (j \in 1..Len(queue[s]) \/ j = Len(queue[s]) + 1)
                BY <6>1
              <8> QED BY <6>1, <7>1, <7>4, <8>1 DEF Contiguous
            <7> QED BY <2>4, <7>1, <7>5, <7>6 DEF Contiguous
          <6> QED BY <6>2, <6>3
        <5>2. (queue[s][Len(queue[s])].hi = observed[s])'
          BY <1>0, <2>1, <3>1, <3>2, AppendSpan DEF SpansFit
        <5>3. (batch[s] = K!NoBatch => revision[s] = queue[s][1].lo)'
          BY <1>0, <1>2, <3>1, <3>2, AppendSpan DEF QueueFollows, Follows, SpansFit, K!NoBatch
        <5>4. batch[s] # K!NoBatch =>
                 /\ batch[s].n \in 1..Len(queue'[s])
                 /\ batch[s].lo = queue'[s][1].lo /\ batch[s].hi = queue'[s][batch[s].n].hi
          BY <1>0, <3>1, <3>2, AppendSpan DEF QueueFollows, Follows, SpansFit
        <5> QED BY SMTT(60), <1>0, <1>2, <3>1, <3>2, <4>1, <5>1, <5>2, <5>3, <5>4, AppendSpan
                DEF QueueFollows, Follows, K!NoBatch
      <4>3. \A c \in Conversations \ {s} : Follows(c)'
        <5>1. \A c \in Conversations \ {s} : observed'[c] = observed[c] /\ (c \in active' <=> c \in active)
          BY <1>0, <2>1, <2>4 DEF SpansFit
        <5> SUFFICES ASSUME NEW c \in Conversations \ {s} PROVE Follows(c)'
          OBVIOUS
        <5>2. Follows(c)
          BY <1>0 DEF QueueFollows
        <5>3. /\ queue'[c] = queue[c] /\ observed'[c] = observed[c] /\ tail'[c] = tail[c] /\ (c \in active' <=> c \in active)
              /\ UNCHANGED <<batch, revision, receipts>>
          BY <1>2, <3>2, <4>1, <5>1
        <5> QED BY <5>2, <5>3 DEF Follows, K!NoBatch, K!Base
      <4> QED BY <1>0, <1>2, <4>1, <4>2, <4>3 DEF QueueFollows
    <3> QED BY <1>4, <2>2, <3>3, <3>4 DEF CaptureIInv
  <2> QED BY <1>6, <2>3, <2>4 DEF K!Observe
<1> QED BY <1>1, <1>5, <1>6

\* The promise of a queue: register, form a batch, have it acknowledged or not, end.
LEMMA RegisterStep ==
  ASSUME CaptureIInv, NEW s \in Conversations, K!Register(s) PROVE CaptureIInv'
<1>1. StreamsCount' /\ SpansFit'
  BY StreamsFrame, SpansFrame DEF CaptureIInv, K!Register, K!Others, K!Copying
<1>2. QueueFollows'
  <2>1. /\ tail' \in [Conversations -> {"none", "metadata", "posting", "ending"}]
        /\ failed' \subseteq Conversations /\ known' \subseteq Live
        /\ \A c \in Conversations : tail'[c] = tail[c] \/ tail'[c] = "ending"
        /\ UNCHANGED <<batch, revision, receipts, active, queue, observed>>
    BY DEF CaptureIInv, QueueFollows, K!Register, K!Others, K!TailIs
  <2>2. \A c \in Conversations : Follows(c)'
    BY <2>1 DEF CaptureIInv, QueueFollows, Follows, K!NoBatch, K!Base
  <2> QED BY <2>1, <2>2 DEF CaptureIInv, QueueFollows
<1>3. DrainFits'
  <2>1. /\ UNCHANGED <<client, flush, todo, queue>> /\ faults' \in 0..MaxFaults
        /\ tail[s] = "metadata" /\ failed \subseteq failed'
        /\ \A c \in Conversations : tail'[c] = tail[c] \/ (c = s /\ tail'[c] = "ending" /\ s \in failed')
    BY CaptureAssumption DEF CaptureIInv, QueueFollows, K!Register, K!Others, K!TailIs, K!Fault, DrainFits, FlushTyped
  <2> QED BY <2>1 DEF CaptureIInv, DrainFits, FlushTyped, Drains, Conversations, K!Conversations, K!Callers, K!Resting
<1> QED BY <1>1, <1>2, <1>3 DEF CaptureIInv

LEMMA FormBatchStep ==
  ASSUME CaptureIInv, NEW s \in Conversations, K!FormBatch(s) PROVE CaptureIInv'
<1>1. StreamsCount' /\ SpansFit'
  BY StreamsFrame, SpansFrame DEF CaptureIInv, K!FormBatch, K!Others, K!Copying
<1>2. QueueFollows'
  <2>1. /\ tail[s] = "metadata" /\ tail' \in [Conversations -> {"none", "metadata", "posting", "ending"}]
        /\ tail'[s] = "posting" /\ \A c \in Conversations \ {s} : tail'[c] = tail[c]
        /\ UNCHANGED <<revision, receipts, active, queue, observed, failed, known>>
    BY DEF CaptureIInv, QueueFollows, K!FormBatch, K!Others, K!TailIs
  <2>2. queue[s] # <<>> /\ queue[s] \in Seq(Entries) /\ Len(queue[s]) \in Nat \ {0}
    BY <2>1, NoSpan, SpanTypes DEF CaptureIInv, QueueFollows, Follows
  <2>3. queue[s][1] \in Entries /\ queue[s][Len(queue[s])] \in Entries
    BY <2>2
  <2>4. /\ batch' \in [Conversations -> [n : Nat, lo : Nat, hi : Nat]]
        /\ \A c \in Conversations \ {s} : batch'[c] = batch[c]
        /\ batch'[s] = IF batch[s] # K!NoBatch THEN batch[s]
                       ELSE [n |-> Len(queue[s]), lo |-> queue[s][1].lo, hi |-> queue[s][Len(queue[s])].hi]
    BY <2>2, <2>3 DEF CaptureIInv, QueueFollows, K!FormBatch, Entries
  <2>5. Follows(s)'
    BY <2>1, <2>2, <2>4 DEF CaptureIInv, QueueFollows, Follows, K!NoBatch
  <2>6. \A c \in Conversations \ {s} : Follows(c)'
    BY SMTT(60), <2>1, <2>4 DEF CaptureIInv, QueueFollows, Follows, K!NoBatch, K!Base
  <2> QED BY <2>1, <2>4, <2>5, <2>6 DEF CaptureIInv, QueueFollows
<1>3. DrainFits'
  <2>1. /\ UNCHANGED <<client, flush, todo, queue, failed, faults>> /\ tail[s] = "metadata"
        /\ \A c \in Conversations : tail'[c] = tail[c] \/ (c = s /\ tail'[c] = "posting")
    BY DEF CaptureIInv, QueueFollows, K!FormBatch, K!Others, K!TailIs
  <2> QED BY <2>1 DEF CaptureIInv, DrainFits, FlushTyped, Drains, Conversations, K!Conversations, K!Callers, K!Resting
<1> QED BY <1>1, <1>2, <1>3 DEF CaptureIInv

LEMMA BatchReaches ==
  ASSUME SpansFit, QueueFollows, NEW s \in Conversations, batch[s] # K!NoBatch
  PROVE  s \in active /\ batch[s].lo \in Nat /\ batch[s].hi \in Nat /\ batch[s].lo <= batch[s].hi
<1> DEFINE n == batch[s].n
<1>1. /\ n \in 1..Len(queue[s]) /\ s \in active /\ Contiguous(queue[s])
      /\ batch[s].lo = queue[s][1].lo /\ batch[s].hi = queue[s][n].hi
  BY DEF QueueFollows, Follows
<1>2. /\ Len(queue[s]) \in Nat
      /\ \A i \in 1..Len(queue[s]) : queue[s][i].lo \in Nat /\ queue[s][i].hi \in Nat /\ queue[s][i].lo < queue[s][i].hi
  BY SpanTypes DEF SpanFits
<1>3. 1 \in 1..Len(queue[s]) /\ (n = 1 \/ queue[s][1].hi <= queue[s][n].lo)
  BY <1>1, <1>2 DEF Contiguous
<1>4. CASE n = 1
  BY <1>1, <1>2, <1>4
<1>5. CASE queue[s][1].hi <= queue[s][n].lo
  <2>1. queue[s][1].lo < queue[s][1].hi /\ queue[s][n].lo < queue[s][n].hi
    BY <1>1, <1>2, <1>3
  <2> QED BY SMTT(60), <1>1, <1>2, <1>3, <1>5, <2>1
<1> QED BY <1>3, <1>4, <1>5

LEMMA AcknowledgeStep ==
  ASSUME CaptureIInv, NEW s \in Conversations, K!Acknowledge(s) PROVE CaptureIInv'
<1> DEFINE n == batch[s].n
<1>0. SpansFit /\ QueueFollows /\ DrainFits /\ StreamsCount /\ Follows(s)
  BY DEF CaptureIInv, QueueFollows
<1>1. /\ tail[s] = "posting" /\ batch[s] # K!NoBatch /\ s \in active /\ n \in 1..Len(queue[s])
      /\ queue[s] \in Seq(Entries) /\ Len(queue[s]) \in Nat /\ Contiguous(queue[s])
      /\ \A i \in 1..Len(queue[s]) : queue[s][i].lo \in Nat /\ queue[s][i].hi \in Nat
    BY <1>0, SpanTypes DEF Follows, K!Acknowledge
<1>2. /\ queue' = [queue EXCEPT ![s] = SubSeq(queue[s], n + 1, Len(queue[s]))]
      /\ queue' \in [Conversations -> Seq(Entries)]
      /\ Len(queue'[s]) = Len(queue[s]) - n /\ \A i \in 1..Len(queue'[s]) : queue'[s][i] = queue[s][n + i]
      /\ queue'[s] = <<>> <=> n = Len(queue[s])
      /\ \A c \in Conversations \ {s} : queue'[c] = queue[c]
  BY ZenonT(60), <1>0, <1>1, DropSpans DEF K!Acknowledge, SpansFit
<1>3. /\ batch' = [batch EXCEPT ![s] = K!NoBatch] /\ failed' = failed \ {s}
      /\ tail' = [tail EXCEPT ![s] = IF queue'[s] = <<>> THEN "ending" ELSE "metadata"]
      /\ revision' = [revision EXCEPT ![s] = IF batch[s].hi > @ THEN batch[s].hi ELSE @]
      /\ receipts' = [receipts EXCEPT ![s] = @ \cup {batch[s].hi}]
      /\ UNCHANGED <<client, copied, stream, hydrated, emitted, own, observed, active, flush, todo, known, faults>>
  BY DEF K!Acknowledge, K!TailIs, K!Others, K!Commit, K!Copying
<1>4. StreamsCount'
  BY <1>0, <1>3, StreamsFrame
<1>5. SpansFit'
  <2>1. SpanFits(s)'
    <3>1. SpanFits(s) /\ Len(own[s]) \in Nat
      BY <1>0, SpanTypes
    <3>2. n \in Nat /\ n >= 1 /\ \A i \in 1..Len(queue[s]) - n : n + i \in 1..Len(queue[s])
      BY <1>1
    <3>3. Len(queue'[s]) <= Len(own[s])
      BY <1>1, <1>2, <3>1, <3>2 DEF SpanFits
    <3>4. \A i \in 1..Len(queue'[s]) : queue'[s][i].lo < queue'[s][i].hi /\ queue'[s][i].hi <= observed[s]
      <4> SUFFICES ASSUME NEW i \in 1..Len(queue'[s])
                   PROVE  queue'[s][i].lo < queue'[s][i].hi /\ queue'[s][i].hi <= observed[s]
        OBVIOUS
      <4>1. i \in 1..Len(queue[s]) - n /\ n + i \in 1..Len(queue[s]) /\ queue'[s][i] = queue[s][n + i]
        BY <1>2, <3>2
      <4> QED BY <3>1, <4>1 DEF SpanFits
    <3> QED BY <1>3, <3>1, <3>3, <3>4 DEF SpanFits, K!Base
  <2>2. \A c \in Conversations \ {s} : SpanFits(c)'
    BY <1>0, <1>2, <1>3 DEF SpansFit, SpanFits, K!Base
  <2> QED BY <1>0, <1>2, <1>3, <2>1, <2>2 DEF SpansFit
<1>6. QueueFollows'
  <2>1. batch[s].lo = queue[s][1].lo /\ batch[s].hi = queue[s][n].hi /\ revision[s] \in {batch[s].lo, batch[s].hi}
    BY <1>0, <1>1 DEF Follows
  <2>2. batch[s].lo <= batch[s].hi /\ batch[s].lo \in Nat /\ batch[s].hi \in Nat
    BY <1>0, <1>1, BatchReaches
  <2>3. /\ revision' \in [Conversations -> Nat] /\ revision'[s] = batch[s].hi
        /\ \A c \in Conversations \ {s} : revision'[c] = revision[c]
    BY <1>0, <1>3, <2>1, <2>2 DEF QueueFollows
  <2>4. /\ batch' \in [Conversations -> [n : Nat, lo : Nat, hi : Nat]] /\ batch'[s] = K!NoBatch
        /\ receipts' \in [Conversations -> SUBSET Nat] /\ failed' \subseteq Conversations
        /\ tail' \in [Conversations -> {"none", "metadata", "posting", "ending"}]
        /\ tail'[s] = IF queue'[s] = <<>> THEN "ending" ELSE "metadata"
        /\ \A c \in Conversations \ {s} : batch'[c] = batch[c] /\ receipts'[c] = receipts[c] /\ tail'[c] = tail[c]
    BY <1>0, <1>3, <2>2 DEF QueueFollows, K!NoBatch
  <2>5. Contiguous(queue'[s])
    <3>1. n \in Nat /\ n >= 1
      BY <1>1
    <3> HIDE DEF n
    <3>2. ASSUME NEW i \in 1..Len(queue'[s]) - 1 PROVE queue'[s][i].hi = queue'[s][i + 1].lo
      <4>1. /\ i \in 1..Len(queue'[s]) /\ i + 1 \in 1..Len(queue'[s])
            /\ n + i \in 1..Len(queue[s]) - 1 /\ n + (i + 1) = (n + i) + 1
        BY <1>1, <1>2, <3>1
      <4>2. queue[s][n + i].hi = queue[s][(n + i) + 1].lo
        BY <1>1, <4>1 DEF Contiguous
      <4>3. queue'[s][i] = queue[s][n + i] /\ queue'[s][i + 1] = queue[s][n + (i + 1)]
        BY <1>2, <4>1
      <4> QED BY <4>1, <4>2, <4>3
    <3>3. ASSUME NEW i \in 1..Len(queue'[s]), NEW j \in 1..Len(queue'[s]), i < j
          PROVE  queue'[s][i].hi <= queue'[s][j].lo
      <4>1. n + i \in 1..Len(queue[s]) /\ n + j \in 1..Len(queue[s]) /\ n + i < n + j
        <5>1. i \in Nat /\ j \in Nat /\ i >= 1 /\ j >= 1 /\ i <= Len(queue[s]) - n /\ j <= Len(queue[s]) - n /\ i < j
          BY <1>1, <1>2, <3>1, <3>3
        <5> QED BY <1>1, <3>1, <5>1
      <4> QED BY <1>1, <1>2, <4>1 DEF Contiguous
    <3> QED BY <3>2, <3>3 DEF Contiguous
  <2>6. queue'[s] # <<>> =>
          queue'[s][Len(queue'[s])].hi = observed[s] /\ queue'[s][1].lo = batch[s].hi
    <3>1. n \in Nat /\ n >= 1
      BY <1>1
    <3> HIDE DEF n
    <3> SUFFICES ASSUME queue'[s] # <<>> PROVE queue'[s][Len(queue'[s])].hi = observed[s] /\ queue'[s][1].lo = batch[s].hi
      OBVIOUS
    <3>2. /\ Len(queue'[s]) \in 1..Len(queue'[s]) /\ 1 \in 1..Len(queue'[s]) /\ n + Len(queue'[s]) = Len(queue[s])
          /\ n \in 1..Len(queue[s]) - 1 /\ queue[s] # <<>>
      BY <1>1, <1>2, <3>1
    <3>3. queue[s][Len(queue[s])].hi = observed[s] /\ queue[s][n].hi = queue[s][n + 1].lo
      BY <1>0, <1>1, <3>2 DEF Follows, Contiguous
    <3> QED BY <1>2, <2>1, <3>2, <3>3
  <2>7. queue'[s] = <<>> => batch[s].hi = observed[s]
    BY <1>0, <1>1, <1>2, <2>1 DEF Follows
  <2>8. Follows(s)'
    BY <1>1, <1>3, <2>3, <2>4, <2>5, <2>6, <2>7 DEF Follows
  <2>9. \A c \in Conversations \ {s} : Follows(c)'
    BY <1>0, <1>2, <1>3, <2>3, <2>4 DEF QueueFollows, Follows, K!NoBatch, K!Base
  <2> QED BY <1>0, <1>3, <2>3, <2>4, <2>8, <2>9 DEF QueueFollows
<1>7. DrainFits'
  <2>1. FlushTyped'
    BY <1>0, <1>3 DEF DrainFits, FlushTyped, Conversations, K!Conversations, K!Callers, K!Resting
  <2>2. client # "detached"
    BY <1>0, <1>1 DEF DrainFits, Follows
  <2>3. /\ tail'[s] = IF queue'[s] = <<>> THEN "ending" ELSE "metadata"
        /\ \A c \in Conversations \ {s} : tail'[c] = tail[c] /\ (c \in failed' <=> c \in failed)
    BY <1>0, <1>3 DEF QueueFollows
  <2>4. ASSUME client = "draining", NEW c \in Conversations PROVE Drains(c)'
    <3>1. Drains(c)
      BY <1>0, <2>4 DEF DrainFits
    <3>2. c # s => queue'[c] = queue[c] /\ tail'[c] = tail[c] /\ (c \in failed' <=> c \in failed)
      BY <1>2, <2>3
    <3>3. queue[s] # <<>>
      BY <1>0, <1>1 DEF Follows
    <3> QED BY <1>1, <1>3, <2>3, <3>1, <3>2, <3>3 DEF Drains
  <2> QED BY <1>3, <2>1, <2>2, <2>4 DEF DrainFits
<1> QED BY <1>4, <1>5, <1>6, <1>7 DEF CaptureIInv

LEMMA FailStep ==
  ASSUME CaptureIInv, NEW s \in Conversations, K!Fail(s) PROVE CaptureIInv'
<1>0. SpansFit /\ QueueFollows /\ DrainFits /\ StreamsCount /\ Follows(s)
  BY DEF CaptureIInv, QueueFollows
<1>1. /\ tail[s] = "posting" /\ tail' = [tail EXCEPT ![s] = "ending"] /\ failed' = failed \cup {s}
      /\ faults' \in 0..MaxFaults
      /\ UNCHANGED <<client, copied, stream, hydrated, emitted, own, observed, active, flush, todo, queue, batch, known>>
      /\ UNCHANGED <<revision, receipts>> \/ K!Commit(s)
  BY <1>0, CaptureAssumption DEF K!Fail, K!TailIs, K!Others, K!Fault, K!Copying, DrainFits, FlushTyped
<1>2. StreamsCount' /\ SpansFit'
  BY <1>0, <1>1, StreamsFrame, SpansFrame
<1>3. QueueFollows'
  <2>1. /\ tail' \in [Conversations -> {"none", "metadata", "posting", "ending"}] /\ failed' \subseteq Conversations
        /\ tail'[s] = "ending" /\ \A c \in Conversations \ {s} : tail'[c] = tail[c]
    BY <1>0, <1>1 DEF QueueFollows
  <2>2. CASE UNCHANGED <<revision, receipts>>
    <3>1. \A c \in Conversations : Follows(c)'
      BY <1>0, <1>1, <2>1, <2>2 DEF QueueFollows, Follows, K!NoBatch, K!Base
    <3> QED BY <1>0, <1>1, <2>1, <2>2, <3>1 DEF QueueFollows
  <2>3. CASE K!Commit(s)
    <3>1. batch[s].lo <= batch[s].hi /\ batch[s].lo \in Nat /\ batch[s].hi \in Nat /\ s \in active
      BY <1>0, <1>1, BatchReaches DEF Follows
    <3>2. /\ revision' = [revision EXCEPT ![s] = IF batch[s].hi > @ THEN batch[s].hi ELSE @]
          /\ receipts' = [receipts EXCEPT ![s] = @ \cup {batch[s].hi}]
      BY <2>3 DEF K!Commit
    <3>3. revision[s] = batch[s].lo \/ revision[s] = batch[s].hi
      BY <1>0, <1>1 DEF Follows
    <3>4. /\ revision' \in [Conversations -> Nat] /\ receipts' \in [Conversations -> SUBSET Nat]
          /\ revision'[s] = batch[s].hi /\ batch[s].hi \in receipts'[s]
          /\ \A c \in Conversations \ {s} : revision'[c] = revision[c] /\ receipts'[c] = receipts[c]
      BY <1>0, <3>1, <3>2, <3>3 DEF QueueFollows
    <3>5. Follows(s)'
      BY <1>0, <1>1, <2>1, <3>1, <3>4 DEF Follows, K!NoBatch
    <3>6. \A c \in Conversations \ {s} : Follows(c)'
      BY <1>0, <1>1, <2>1, <3>4 DEF QueueFollows, Follows, K!NoBatch, K!Base
    <3> QED BY <1>0, <1>1, <2>1, <3>4, <3>5, <3>6 DEF QueueFollows
  <2> QED BY <1>1, <2>2, <2>3
<1>4. DrainFits'
  <2>1. \A c \in Conversations : tail'[c] = tail[c] \/ (c = s /\ tail'[c] = "ending" /\ c \in failed')
    BY <1>0, <1>1 DEF QueueFollows
  <2> QED BY <1>0, <1>1, <2>1 DEF DrainFits, FlushTyped, Drains, Conversations, K!Conversations, K!Callers, K!Resting
<1> QED BY <1>2, <1>3, <1>4 DEF CaptureIInv

LEMMA FinallyStep ==
  ASSUME CaptureIInv, NEW s \in Conversations, K!Finally(s) PROVE CaptureIInv'
<1>0. SpansFit /\ QueueFollows /\ DrainFits /\ StreamsCount
  BY DEF CaptureIInv
<1>1. /\ tail[s] = "ending" /\ tail' = [tail EXCEPT ![s] = "none"]
      /\ UNCHANGED <<client, copied, stream, hydrated, emitted, own, observed, active, todo, queue, batch, known,
                     failed, revision, receipts, faults>>
  BY DEF K!Finally, K!TailIs, K!Copying
<1>2. \A c \in K!Callers : flush'[c] =
          IF s \notin flush[c].for THEN flush[c]
          ELSE CASE flush[c].at = "first"  -> [flush[c] EXCEPT !.at = "woken"]
                 [] flush[c].at = "second" -> [flush[c] EXCEPT !.at = "check"]
                 [] OTHER -> flush[c]
  BY DEF K!Finally
<1>3. /\ tail' \in [Conversations -> {"none", "metadata", "posting", "ending"}]
      /\ tail'[s] = "none" /\ \A c \in Conversations \ {s} : tail'[c] = tail[c]
  BY <1>0, <1>1 DEF QueueFollows
<1>4. StreamsCount' /\ SpansFit'
  BY <1>0, <1>1, StreamsFrame, SpansFrame
<1>5. QueueFollows'
  <2>1. \A c \in Conversations : Follows(c)'
    BY <1>0, <1>1, <1>3 DEF QueueFollows, Follows, K!NoBatch, K!Base
  <2> QED BY <1>0, <1>1, <1>3, <2>1 DEF QueueFollows
<1>6. DrainFits'
  <2>1. \A c \in K!Callers : flush[c] \in [at : {"none", "first", "woken", "second", "check", "failed"},
                                           for : SUBSET Conversations]
    BY <1>0 DEF DrainFits, FlushTyped
  <2>2. \A c \in K!Callers : /\ flush'[c].for = flush[c].for
                             /\ flush'[c] \in [at : {"none", "first", "woken", "second", "check", "failed"},
                                               for : SUBSET Conversations]
                             /\ flush'[c].at = "none" <=> flush[c].at = "none"
                             /\ flush'[c] = flush[c] \/ (s \in flush[c].for /\ flush[c].at = "first" /\ flush'[c].at = "woken")
                                \/ (s \in flush[c].for /\ flush[c].at = "second" /\ flush'[c].at = "check")
    BY <1>2, <2>1
  <2>3. flush' \in [K!Callers -> [at : {"none", "first", "woken", "second", "check", "failed"},
                                 for : SUBSET Conversations]]
    BY <2>2 DEF K!Finally
  <2>4. "drain" \in K!Callers /\ "dsh" \in K!Callers
    BY DEF K!Callers
  <2>5. FlushTyped'
    BY <1>0, <1>1, <2>2, <2>3, <2>4
    DEF DrainFits, FlushTyped, Conversations, K!Conversations, K!Resting, K!Callers
  <2>6. ASSUME client = "draining", NEW c \in Conversations PROVE Drains(c)'
    <3>1. Drains(c)
      BY <1>0, <2>6 DEF DrainFits
    <3>2. tail'[c] = IF c = s THEN "none" ELSE tail[c]
      BY <1>3
    <3>3. /\ flush'["drain"].for = flush["drain"].for
          /\ \/ flush'["drain"] = flush["drain"]
             \/ s \in flush["drain"].for /\ flush["drain"].at = "first" /\ flush'["drain"].at = "woken"
             \/ s \in flush["drain"].for /\ flush["drain"].at = "second" /\ flush'["drain"].at = "check"
      BY <2>2, <2>4
    <3>4. s \in flush["drain"].for /\ c \in flush["drain"].for => c = s
      BY <1>0, <2>4 DEF DrainFits, FlushTyped
    <3> QED BY <1>1, <3>1, <3>2, <3>3, <3>4 DEF Drains
  <2> QED BY <1>0, <1>1, <2>5, <2>6 DEF DrainFits
<1> QED BY <1>4, <1>5, <1>6 DEF CaptureIInv

\* The flushes.
LEMMA ScheduleKeeps ==
  ASSUME SpansFit, QueueFollows, NEW s \in Conversations, tail' = K!Scheduled(s, queue),
         failed' \subseteq failed,
         UNCHANGED <<own, observed, queue, active, emitted, batch, revision, receipts, known>>
  PROVE  /\ SpansFit' /\ QueueFollows'
         /\ tail'[s] = IF tail[s] # "none" THEN tail[s] ELSE IF queue[s] = <<>> THEN "ending" ELSE "metadata"
         /\ \A c \in Conversations \ {s} : tail'[c] = tail[c]
<1>1. SpansFit'
  BY SpansFrame
<1>2. /\ tail' \in [Conversations -> {"none", "metadata", "posting", "ending"}]
      /\ tail'[s] = IF tail[s] # "none" THEN tail[s] ELSE IF queue[s] = <<>> THEN "ending" ELSE "metadata"
      /\ \A c \in Conversations \ {s} : tail'[c] = tail[c]
  BY DEF QueueFollows, K!Scheduled
<1>3. \A c \in Conversations : Follows(c)'
  BY <1>2 DEF QueueFollows, Follows, K!NoBatch, K!Base
<1> QED BY <1>1, <1>2, <1>3 DEF QueueFollows

LEMMA StartFlushStep ==
  ASSUME CaptureIInv, NEW s \in Conversations, NEW who \in K!Callers, K!StartFlush(who, s),
         who = "dsh" => client \in {"attached", "flushing"}, who = "drain" => client = "draining" /\ s \in todo
  PROVE  CaptureIInv'
<1>0. SpansFit /\ QueueFollows /\ DrainFits /\ StreamsCount
  BY DEF CaptureIInv
<1>1. /\ flush[who].at = "none" /\ flush' = [flush EXCEPT ![who] = [at |-> "first", for |-> {s}]]
      /\ tail' = K!Scheduled(s, queue)
      /\ UNCHANGED <<client, copied, stream, hydrated, emitted, own, observed, active, queue, batch, known, revision,
                     receipts, failed, todo, faults>>
  BY DEF K!StartFlush, K!Flushed, K!Copying
<1>2. /\ StreamsCount' /\ SpansFit' /\ QueueFollows'
      /\ \A c \in Conversations \ {s} : tail'[c] = tail[c]
  BY <1>0, <1>1, StreamsFrame, ScheduleKeeps
<1>3. DrainFits'
  <2>1. FlushTyped'
    BY <1>0, <1>1 DEF DrainFits, FlushTyped, K!Callers, K!Resting, Conversations, K!Conversations
  <2>2. ASSUME client = "draining", NEW c \in Conversations PROVE Drains(c)'
    <3>1. who = "drain" /\ flush'["drain"] = [at |-> "first", for |-> {s}]
      BY <1>0, <1>1, <2>2 DEF DrainFits, FlushTyped, K!Callers
    <3> QED BY <1>0, <1>1, <2>2, <3>1 DEF DrainFits, Drains
  <2> QED BY <1>0, <1>1, <2>1, <2>2 DEF DrainFits
<1> QED BY <1>2, <1>3 DEF CaptureIInv

\* A flush goes on, or fails.
LEMMA FlushMoves ==
  ASSUME FlushTyped, NEW who \in K!Callers, flush[who].at # "none", NEW at \in {"woken", "second", "check", "failed"},
         flush' = [flush EXCEPT ![who].at = at], UNCHANGED <<client, todo>>, faults' \in 0..MaxFaults
  PROVE  FlushTyped' /\ flush'[who].at = at /\ flush'[who].for = flush[who].for
<1>1. flush[who] \in [at : {"none", "first", "woken", "second", "check", "failed"}, for : SUBSET Conversations]
  BY DEF FlushTyped
<1>2. flush'[who] = [at |-> at, for |-> flush[who].for] /\ \A c \in K!Callers \ {who} : flush'[c] = flush[c]
  BY <1>1 DEF FlushTyped
<1>3. flush' \in [K!Callers -> [at : {"none", "first", "woken", "second", "check", "failed"},
                               for : SUBSET Conversations]]
  BY <1>1, <1>2 DEF FlushTyped
<1>4. client \notin {"draining", "failed"} => who # "drain"
  BY DEF FlushTyped, K!Resting
<1>5. client = "draining" => who # "dsh"
  BY DEF FlushTyped
<1>6. \A c \in K!Callers : /\ flush'[c].at = "none" => flush'[c].for = {}
                           /\ \A r, s \in flush'[c].for : r = s
  BY <1>2 DEF FlushTyped
<1>7. "drain" \in K!Callers /\ "dsh" \in K!Callers
  BY DEF K!Callers
<1> QED BY <1>2, <1>3, <1>4, <1>5, <1>6, <1>7 DEF FlushTyped, K!Resting, Conversations, K!Conversations, K!Callers

LEMMA FlushAgainStep ==
  ASSUME CaptureIInv, NEW who \in K!Callers, K!FlushAgain(who) PROVE CaptureIInv'
<1>0. SpansFit /\ QueueFollows /\ DrainFits /\ StreamsCount
  BY DEF CaptureIInv
<1>1. PICK s \in flush[who].for :
          IF queue[s] = <<>>
          THEN flush' = [flush EXCEPT ![who].at = "check"] /\ UNCHANGED <<tail, failed>>
          ELSE /\ failed' = failed \ {s} /\ tail' = K!Scheduled(s, queue)
               /\ flush' = [flush EXCEPT ![who].at = "second"]
  BY DEF K!FlushAgain
<1>2. /\ flush[who].at = "woken" /\ s \in Conversations
      /\ UNCHANGED <<client, copied, stream, hydrated, emitted, own, observed, active, queue, batch, known, revision,
                     receipts, todo, faults>>
  BY <1>0 DEF K!FlushAgain, K!Flushed, K!Copying, DrainFits, FlushTyped
<1>3. client = "draining" => who = "drain"
  BY <1>0, <1>2 DEF DrainFits, FlushTyped, K!Callers
<1>4. flush[who] \in [at : {"none", "first", "woken", "second", "check", "failed"}, for : SUBSET Conversations]
  BY <1>0 DEF DrainFits, FlushTyped
<1>5. \A c \in flush[who].for : c = s
  BY <1>0 DEF DrainFits, FlushTyped
<1>6. CASE queue[s] = <<>>
  <2>1. flush' = [flush EXCEPT ![who].at = "check"] /\ UNCHANGED <<tail, failed>>
    BY <1>1, <1>6
  <2>2. StreamsCount' /\ SpansFit' /\ QueueFollows'
    BY <1>0, <1>2, <2>1, StreamsFrame, SpansFrame, QueueFrame
  <2>3. FlushTyped' /\ flush'[who].at = "check" /\ flush'[who].for = flush[who].for
    BY <1>0, <1>2, <2>1, FlushMoves DEF DrainFits, FlushTyped
  <2>5. ASSUME client = "draining", NEW c \in Conversations PROVE Drains(c)'
    <3>1. Drains(c) /\ who = "drain"
      BY <1>0, <1>3, <2>5 DEF DrainFits
    <3> QED BY <1>2, <1>5, <1>6, <2>1, <2>3, <3>1 DEF Drains
  <2> QED BY <1>0, <1>2, <2>2, <2>3, <2>5 DEF DrainFits, CaptureIInv
<1>7. CASE queue[s] # <<>>
  <2>1. /\ failed' = failed \ {s} /\ tail' = K!Scheduled(s, queue)
        /\ flush' = [flush EXCEPT ![who].at = "second"]
    BY <1>1, <1>7
  <2>2. /\ StreamsCount' /\ SpansFit' /\ QueueFollows'
        /\ tail'[s] = IF tail[s] # "none" THEN tail[s] ELSE "metadata"
    BY <1>0, <1>2, <1>7, <2>1, StreamsFrame, ScheduleKeeps
  <2>3. FlushTyped' /\ flush'[who].at = "second" /\ flush'[who].for = flush[who].for
    BY <1>0, <1>2, <2>1, FlushMoves DEF DrainFits, FlushTyped
  <2>5. ASSUME client = "draining", NEW c \in Conversations PROVE Drains(c)'
    <3>1. Drains(c) /\ Drains(s) /\ who = "drain"
      BY <1>0, <1>2, <1>3, <2>5 DEF DrainFits
    <3> QED BY <1>2, <1>5, <1>7, <2>1, <2>2, <2>3, <3>1 DEF Drains
  <2> QED BY <1>0, <1>2, <2>2, <2>3, <2>5 DEF DrainFits, CaptureIInv
<1> QED BY <1>6, <1>7

LEMMA FinishFlushStep ==
  ASSUME CaptureIInv, NEW who \in K!Callers, K!FinishFlush(who) PROVE CaptureIInv'
<1>0. SpansFit /\ QueueFollows /\ DrainFits /\ StreamsCount
  BY DEF CaptureIInv
<1>1. /\ flush[who].at = "check"
      /\ UNCHANGED <<client, copied, stream, hydrated, emitted, own, observed, active, queue, batch, known, revision,
                     receipts, tail, failed>>
      /\ \/ flush[who].for \cap failed = {} /\ flush' = [flush EXCEPT ![who] = K!Resting] /\ todo' = todo \ flush[who].for
         \/ flush' = [flush EXCEPT ![who].at = "failed"] /\ todo' = todo
      /\ faults' \in 0..MaxFaults
  BY <1>0, CaptureAssumption DEF K!FinishFlush, K!Flushed, K!Copying, K!Fault, DrainFits, FlushTyped
<1>2. StreamsCount' /\ SpansFit' /\ QueueFollows'
  BY <1>0, <1>1, StreamsFrame, SpansFrame, QueueFrame
<1>3. flush[who] \in [at : {"none", "first", "woken", "second", "check", "failed"}, for : SUBSET Conversations]
  BY <1>0 DEF DrainFits, FlushTyped
<1>4. FlushTyped'
  <2>1. CASE flush' = [flush EXCEPT ![who] = K!Resting] /\ todo' = todo \ flush[who].for
    BY <1>0, <1>1, <2>1 DEF DrainFits, FlushTyped, K!Callers, K!Resting, Conversations, K!Conversations
  <2>2. CASE flush' = [flush EXCEPT ![who].at = "failed"] /\ todo' = todo
    BY <1>0, <1>1, <2>2, FlushMoves DEF DrainFits
  <2> QED BY <1>1, <2>1, <2>2
<1>5. ASSUME client = "draining", NEW c \in Conversations PROVE Drains(c)'
  <2>1. Drains(c) /\ who = "drain"
    BY <1>0, <1>1, <1>5 DEF DrainFits, FlushTyped, K!Callers
  <2>2. \/ flush'["drain"] = K!Resting /\ todo' = todo \ flush["drain"].for /\ flush["drain"].for \cap failed = {}
        \/ flush'["drain"].at = "failed" /\ flush'["drain"].for = flush["drain"].for /\ todo' = todo
    BY <1>0, <1>1, <1>3, <2>1 DEF DrainFits, FlushTyped
  <2> QED BY <1>1, <2>1, <2>2 DEF Drains, K!Resting
<1> QED BY <1>0, <1>1, <1>2, <1>4, <1>5 DEF DrainFits, CaptureIInv

\* The shutdown.
LEMMA ShutdownStep ==
  ASSUME CaptureIInv, K!Exit \/ K!Drain \/ K!GiveUp \/ K!Detach PROVE CaptureIInv'
<1>0. SpansFit /\ QueueFollows /\ DrainFits /\ StreamsCount
  BY DEF CaptureIInv
<1>1. UNCHANGED <<copied, stream, hydrated, emitted, own, observed, active, queue, batch, known, revision,
                  receipts, tail, failed, flush, faults>>
  BY DEF K!Exit, K!Drain, K!GiveUp, K!Detach, K!Shutdown, K!Copying
<1>2. StreamsCount' /\ SpansFit' /\ QueueFollows'
  BY <1>0, <1>1, StreamsFrame, SpansFrame, QueueFrame
<1>3. CASE K!Exit
  BY <1>0, <1>1, <1>2, <1>3
  DEF K!Exit, K!Shutdown, DrainFits, FlushTyped, CaptureIInv, Conversations, K!Conversations, K!Callers, K!Resting
<1>4. CASE K!Drain
  <2>1. /\ client = "flushing" /\ client' = "draining" /\ todo' = K!Pending /\ flush["dsh"].at = "none"
        /\ flush["drain"] = K!Resting
    BY <1>0, <1>4 DEF K!Drain, K!Shutdown, DrainFits, FlushTyped
  <2>2. \A c \in Conversations : Drains(c)'
    BY <1>1, <2>1 DEF Drains, K!Pending, K!Resting, Conversations
  <2>3. FlushTyped'
    BY <1>0, <1>1, <2>1 DEF DrainFits, FlushTyped, Conversations, K!Pending, K!Conversations, K!Callers, K!Resting
  <2> QED BY <1>2, <2>1, <2>2, <2>3 DEF DrainFits, CaptureIInv
<1>5. CASE K!GiveUp
  BY <1>0, <1>1, <1>2, <1>5
  DEF K!GiveUp, K!Shutdown, DrainFits, FlushTyped, CaptureIInv, Conversations, K!Conversations, K!Callers, K!Resting
<1>6. CASE K!Detach
  <2>1. /\ client = "draining" /\ client' = "detached" /\ todo = {} /\ todo' = {} /\ flush["drain"].at = "none"
    BY <1>6 DEF K!Detach, K!Shutdown
  <2>2. flush["drain"] = K!Resting
    <3>1. flush["drain"] \in [at : {"none", "first", "woken", "second", "check", "failed"}, for : SUBSET Conversations]
      BY <1>0 DEF DrainFits, FlushTyped, K!Callers
    <3>2. flush["drain"].for = {}
      BY <1>0, <2>1 DEF DrainFits, FlushTyped, K!Callers
    <3> QED BY <2>1, <3>1, <3>2 DEF K!Resting
  <2>3. \A c \in Conversations : queue[c] = <<>>
    BY <1>0, <2>1 DEF DrainFits, Drains
  <2>4. FlushTyped'
    BY <1>0, <1>1, <2>1, <2>2 DEF DrainFits, FlushTyped, Conversations, K!Conversations, K!Callers, K!Resting
  <2> QED BY <1>1, <1>2, <2>1, <2>3, <2>4 DEF DrainFits, CaptureIInv, Conversations, K!Conversations
<1> QED BY <1>3, <1>4, <1>5, <1>6

\* The copies.
LEMMA HydrationStep ==
  ASSUME CaptureIInv, NEW s \in Projected,
         K!BeginHydration(s) \/ K!AppendHydrationEvents(s) \/ K!FinishHydration(s) \/ K!BreakStream(s)
  PROVE  CaptureIInv'
<1>0. SpansFit /\ QueueFollows /\ DrainFits /\ StreamsCount
  BY DEF CaptureIInv
<1>1. UNCHANGED <<emitted, own, observed, active, queue, batch, known, revision, receipts, tail, failed, flush, todo>>
  BY DEF K!BeginHydration, K!AppendHydrationEvents, K!FinishHydration, K!BreakStream, K!Capturing
<1>2. SpansFit' /\ QueueFollows'
  BY <1>0, <1>1, SpansFrame, QueueFrame
<1>3. DrainFits'
  <2>1. /\ client' = client \/ (client = "attaching" /\ client' = "failed")
        /\ faults' \in 0..MaxFaults
    BY <1>0, CaptureAssumption DEF K!BeginHydration, K!AppendHydrationEvents, K!FinishHydration, K!BreakStream,
       K!Fault, DrainFits, FlushTyped
  <2> QED BY <1>0, <1>1, <2>1
          DEF DrainFits, FlushTyped, Drains, Conversations, K!Conversations, K!Callers, K!Resting
<1>4. StreamsCount'
  BY <1>0, CaptureAssumption DEF K!BeginHydration, K!AppendHydrationEvents, K!FinishHydration, K!BreakStream,
     StreamsCount, K!NoStream
<1> QED BY <1>2, <1>3, <1>4 DEF CaptureIInv

LEMMA CaptureStep == CaptureIInv /\ [K!Next]_capture => CaptureIInv'
<1> SUFFICES ASSUME CaptureIInv, [K!Next]_capture PROVE CaptureIInv'
  OBVIOUS
<1>0. SpansFit /\ QueueFollows /\ DrainFits /\ StreamsCount
  BY DEF CaptureIInv
<1>1. CASE UNCHANGED capture
  BY <1>0, <1>1, StreamsFrame, SpansFrame, QueueFrame, DrainFrame DEF capture, CaptureIInv
<1>2. ASSUME NEW s \in Projected,
             K!BeginHydration(s) \/ K!AppendHydrationEvents(s) \/ K!FinishHydration(s) \/ K!BreakStream(s)
      PROVE  CaptureIInv'
  BY <1>2, HydrationStep
<1>3. CASE K!Attach
  <2>1. DrainFits'
    BY <1>0, <1>3 DEF K!Attach, K!Capturing, DrainFits, FlushTyped, Conversations, K!Conversations, K!Callers, K!Resting
  <2> QED BY <1>0, <1>3, <2>1, StreamsFrame, SpansFrame, QueueFrame DEF K!Attach, K!Copying, K!Capturing, CaptureIInv
<1>4. ASSUME NEW s \in Conversations, K!Emit(s) PROVE CaptureIInv'
  BY <1>4, EmitStep
<1>5. ASSUME NEW s \in Conversations,
             K!Register(s) \/ K!FormBatch(s) \/ K!Acknowledge(s) \/ K!Fail(s) \/ K!Finally(s)
      PROVE  CaptureIInv'
  BY <1>5, RegisterStep, FormBatchStep, AcknowledgeStep, FailStep, FinallyStep
<1>6. ASSUME NEW s \in Conversations, K!FlushSession(s) \/ K!FlushObserved(s) \/ K!DrainSession(s)
      PROVE  CaptureIInv'
  <2>1. "dsh" \in K!Callers /\ "drain" \in K!Callers
    BY DEF K!Callers
  <2> QED BY <1>6, <2>1, StartFlushStep DEF K!FlushSession, K!FlushObserved, K!DrainSession
<1>7. ASSUME NEW who \in K!Callers, K!FlushAgain(who) \/ K!FinishFlush(who) PROVE CaptureIInv'
  BY <1>7, FlushAgainStep, FinishFlushStep
<1>8. CASE K!ForgetFlush
  <2>1. /\ client = "attached" /\ flush' = [flush EXCEPT !["dsh"] = K!Resting]
        /\ UNCHANGED <<client, copied, stream, hydrated, emitted, own, observed, active, queue, batch, known, revision,
                       receipts, tail, failed, todo, faults>>
    BY <1>8 DEF K!ForgetFlush, K!Flushed, K!Copying
  <2>2. DrainFits'
    BY <1>0, <2>1 DEF DrainFits, FlushTyped, Conversations, K!Conversations, K!Callers, K!Resting
  <2> QED BY <1>0, <2>1, <2>2, StreamsFrame, SpansFrame, QueueFrame DEF CaptureIInv
<1>9. CASE K!Exit \/ K!Drain \/ K!GiveUp \/ K!Detach
  BY <1>9, ShutdownStep
<1> QED BY <1>1, <1>2, <1>3, <1>4, <1>5, <1>6, <1>7, <1>8, <1>9 DEF K!Next, Conversations

\* The bounds: no queue and no revision outgrows what DSH appended.
LEMMA LengthsFit ==
  ASSUME SpansFit, QueueFollows, NEW s \in Conversations
  PROVE  /\ Len(own[s]) <= MaxOwn /\ observed[s] \in 0..K!MaxLength /\ revision[s] \in 0..K!MaxLength
         /\ batch[s] \in [n : 0..MaxOwn, lo : 0..K!MaxLength, hi : 0..K!MaxLength]
<1>1. /\ Len(own[s]) \in Nat /\ Len(queue[s]) \in Nat /\ observed[s] \in Nat /\ K!Base(s) \in Nat
      /\ SpanFits(s) /\ Follows(s)
      /\ \A i \in 1..Len(queue[s]) : queue[s][i].lo \in Nat /\ queue[s][i].hi \in Nat
      /\ (queue[s] = <<>> <=> Len(queue[s]) = 0)
  BY SpanTypes, NoSpan DEF QueueFollows
<1>2. /\ emitted \in 0..MaxOwn /\ batch[s] \in [n : Nat, lo : Nat, hi : Nat] /\ revision[s] \in Nat
      /\ Stored \in Nat /\ MaxOwn \in Nat
  BY CaptureAssumption DEF SpansFit, QueueFollows
<1>3. K!Base(s) <= Stored /\ K!MaxLength = Stored + MaxOwn
  BY <1>2 DEF K!Base, K!MaxLength
<1>4. Len(own[s]) <= MaxOwn /\ Len(queue[s]) <= MaxOwn /\ observed[s] <= K!MaxLength /\ K!Base(s) <= observed[s]
  BY SMTT(60), <1>1, <1>2, <1>3 DEF SpanFits
<1>5. \A i \in 1..Len(queue[s]) : queue[s][i].hi \in 0..K!MaxLength /\ queue[s][i].lo \in 0..K!MaxLength
  <2> SUFFICES ASSUME NEW i \in 1..Len(queue[s])
               PROVE  queue[s][i].hi \in 0..K!MaxLength /\ queue[s][i].lo \in 0..K!MaxLength
    OBVIOUS
  <2>1. queue[s][i].lo < queue[s][i].hi /\ queue[s][i].hi <= observed[s]
    BY <1>1 DEF SpanFits
  <2>2. /\ queue[s][i].lo \in Nat /\ queue[s][i].hi \in Nat /\ observed[s] \in Nat /\ K!MaxLength \in Nat
        /\ observed[s] <= K!MaxLength
    BY <1>1, <1>2, <1>3, <1>4
  <2> QED BY <2>1, <2>2
<1>6. batch[s] \in [n : 0..MaxOwn, lo : 0..K!MaxLength, hi : 0..K!MaxLength]
  <2>1. CASE batch[s] = K!NoBatch
    BY <1>2, <1>3, <2>1 DEF K!NoBatch
  <2>2. CASE batch[s] # K!NoBatch
    <3>1. /\ batch[s].n \in 1..Len(queue[s]) /\ 1 \in 1..Len(queue[s])
          /\ batch[s].lo = queue[s][1].lo /\ batch[s].hi = queue[s][batch[s].n].hi
      BY <1>1, <2>2 DEF Follows
    <3>2. batch[s].n \in 0..MaxOwn /\ batch[s].lo \in 0..K!MaxLength /\ batch[s].hi \in 0..K!MaxLength
      BY <1>1, <1>2, <1>4, <1>5, <3>1
    <3> QED BY <1>2, <3>2
  <2> QED BY <2>1, <2>2
<1>7. revision[s] \in 0..K!MaxLength
  <2>1. CASE s \notin active
    BY <1>1, <1>2, <1>3, <2>1 DEF Follows
  <2>2. CASE s \in active /\ batch[s] = K!NoBatch
    BY <1>1, <1>2, <1>3, <1>4, <1>5, <2>2 DEF Follows
  <2>3. CASE batch[s] # K!NoBatch
    BY <1>1, <1>6, <2>3 DEF Follows
  <2> QED BY <2>1, <2>2, <2>3
<1> QED BY <1>1, <1>2, <1>3, <1>4, <1>6, <1>7

LEMMA TypesFollow ==
  ASSUME StreamsCount, SpansFit, QueueFollows, DrainFits PROVE K!TypeOK
<1>1. copied \in [Projected -> 0..2 * Stored] /\ stream \in [Projected -> K!Streams \cup {K!NoStream}] /\ hydrated \subseteq Projected
  BY CaptureAssumption DEF StreamsCount, K!Streams, K!NoStream
<1>2. \A s \in Conversations : own[s] \in Seq({"prelude", "turn"}) /\ Len(own[s]) <= MaxOwn
  BY LengthsFit, SpanTypes
<1>3. \A s \in Conversations : \A i \in DOMAIN queue[s] : queue[s][i].lo < queue[s][i].hi
  <2>1. \A s \in Conversations : DOMAIN queue[s] = 1..Len(queue[s]) /\ SpanFits(s)
    BY SpanTypes
  <2> QED BY <2>1 DEF SpanFits
<1>4. observed \in [Conversations -> 0..K!MaxLength]
  BY LengthsFit DEF SpansFit
<1>5. batch \in [Conversations -> [n : 0..MaxOwn, lo : 0..K!MaxLength, hi : 0..K!MaxLength]]
  BY LengthsFit DEF QueueFollows
<1>6. revision \in [Conversations -> 0..K!MaxLength]
  BY LengthsFit DEF QueueFollows
<1>7. /\ active \subseteq Conversations /\ emitted \in 0..MaxOwn /\ failed \subseteq Conversations /\ known \subseteq Live
      /\ tail \in [Conversations -> {"none", "metadata", "posting", "ending"}]
  BY DEF SpansFit, QueueFollows
<1>8. /\ client \in {"attaching", "attached", "flushing", "draining", "detached", "failed"}
      /\ flush \in [K!Callers -> [at : {"none", "first", "woken", "second", "check", "failed"}, for : SUBSET Conversations]]
      /\ todo \subseteq Conversations /\ faults \in 0..MaxFaults
  BY DEF DrainFits, FlushTyped
<1> QED BY <1>1, <1>2, <1>3, <1>4, <1>5, <1>6, <1>7, <1>8 DEF K!TypeOK, Conversations

LEMMA CaptureHolds ==
  CaptureIInv => K!TypeOK /\ K!ReadsAreWhole /\ K!QueueIsWhole /\ K!NeverWedged /\ K!DetachedIsSent
<1> SUFFICES ASSUME CaptureIInv
             PROVE  K!TypeOK /\ K!ReadsAreWhole /\ K!QueueIsWhole /\ K!NeverWedged /\ K!DetachedIsSent
  OBVIOUS
<1>0. SpansFit /\ QueueFollows /\ DrainFits /\ StreamsCount
  BY DEF CaptureIInv
<1>1. K!ReadsAreWhole
  BY <1>0 DEF K!ReadsAreWhole, StreamsCount
<1>2. K!NeverWedged
  BY <1>0 DEF K!NeverWedged, K!Accepts, QueueFollows, Follows, Conversations
<1>3. ASSUME NEW s \in active
      PROVE  /\ \A i \in 1..Len(queue[s]) - 1 : queue[s][i].hi = queue[s][i + 1].lo
             /\ queue[s] # <<>> => queue[s][Len(queue[s])].hi = observed[s] /\ queue[s][1].lo <= revision[s]
             /\ queue[s] = <<>> => revision[s] = observed[s]
  <2>1. s \in Conversations /\ Follows(s)
    BY <1>0 DEF SpansFit, QueueFollows
  <2>2. queue[s] = <<>> => batch[s] = K!NoBatch
    BY <2>1 DEF Follows
  <2>3. queue[s] # <<>> => queue[s][1].lo <= revision[s]
    <3>1. queue[s] # <<>> => queue[s][1].lo \in Nat
      BY <1>0, <2>1, NoSpan, SpanTypes
    <3> QED BY <1>0, <2>1, <3>1, BatchReaches DEF Follows
  <2> QED BY <2>1, <2>2, <2>3 DEF Follows, Contiguous
<1>4. K!QueueIsWhole
  BY <1>3 DEF K!QueueIsWhole
<1>5. K!DetachedIsSent
  BY <1>0, <1>3 DEF K!DetachedIsSent, DrainFits, SpansFit
<1>6. K!TypeOK
  BY <1>0, TypesFollow
<1> QED BY <1>1, <1>2, <1>4, <1>5, <1>6

\* Copies are whole, the queue is what was observed and not acknowledged, a batch that is sent is one the
\* Engine can take, and a plugin that has detached has sent what it observed (projection-runtime.ts, index.ts).
THEOREM CaptureSafe == Spec => []CaptureInv
<1>1. Init => CaptureIInv
  BY CaptureInit DEF Init
<1>2. CaptureIInv /\ [Next]_<<focus, ownership, databases, continuation, projection, scans, capture>> => CaptureIInv'
  <2> SUFFICES ASSUME CaptureIInv, [Next]_<<focus, ownership, databases, continuation, projection, scans, capture>>
               PROVE [K!Next]_capture
    BY CaptureStep
  <2> QED BY DEF Next
<1>3. CaptureIInv => CaptureInv
  BY CaptureHolds DEF CaptureInv
<1> QED BY <1>1, <1>2, <1>3, PTL DEF Spec
=================================================================================
