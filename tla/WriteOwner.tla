------------------------------ MODULE WriteOwner ------------------------------
(***************************************************************************)
(* Ownership of a state root: `session-store/src/write-coordinator.ts`     *)
(* (acquire, recoverDeadOwner, close) and the Engine's start in            *)
(* `apps/engine/src/engine-startup.ts` and `http/server.ts`.               *)
(*                                                                         *)
(* Processes share three files and nothing else: the owner's record, the   *)
(* recovery gate and connection.json.  They interleave between any two     *)
(* file operations, and any of them may die there.                         *)
(***************************************************************************)
CONSTANTS Engines, Tools    \* processes; a tool writes offline

Procs == Engines \cup Tools

CONSTANT None               \* no process

VARIABLES
    owner,       \* maintenance-writer.json: [by, written]; by = None: no file
    gate,        \* maintenance-writer-recovery.json: its process or None
    connection,  \* connection.json: the process it describes or None
    pc,          \* [Procs -> where the process is]
    expected     \* [Procs -> the owner the process means to recover]

vars == <<owner, gate, connection, pc, expected>>

Points == {"off", "inspect", "gate", "verify", "moveConnection", "moveOwner", "openGate", "acquire",
           "checkConnection", "create", "write", "recheck", "owns", "serves", "closing", "refused", "dead"}

NoOwner == [by |-> None, written |-> FALSE]

TypeOK ==
    /\ owner \in [by : Procs \cup {None}, written : BOOLEAN] /\ gate \in Procs \cup {None}
    /\ connection \in Engines \cup {None} /\ pc \in [Procs -> Points]
    /\ expected \in [Procs -> Procs \cup {None}]

Init ==
    /\ owner = NoOwner /\ gate = None /\ connection = None
    /\ pc = [p \in Procs |-> "off"] /\ expected = [p \in Procs |-> None]

Goes(p, point) == pc' = [pc EXCEPT ![p] = point]
At(p, point)   == pc[p] = point

\* A process is there from its first step until it died or gave up.
Alive(p) == pc[p] \notin {"off", "refused", "dead"}

-----------------------------------------------------------------------------
(* recoverDeadOwner, and the Engine's decision to call it.                 *)

\* An Engine starts with `--recover-dead-owner`, a tool recovers on explicit request or goes
\* straight to acquiring.
Launch(p) ==
    /\ At(p, "off")
    /\ \/ Goes(p, "inspect")
       \/ p \in Tools /\ Goes(p, "acquire")
    /\ UNCHANGED <<owner, gate, connection, expected>>

\* No record, nothing to recover; a record that does not parse, or an offline owner met by an
\* Engine, is somebody else's business.
Inspect(p) ==
    /\ At(p, "inspect")
    /\ expected' = [expected EXCEPT ![p] = owner.by]
    /\ Goes(p, IF gate # None \/ (owner.by # None /\ ~owner.written) THEN "refused"
               ELSE IF owner.by = None THEN "acquire"
               ELSE IF p \in Engines /\ owner.by \in Tools THEN "refused" ELSE "gate")
    /\ UNCHANGED <<owner, gate, connection>>

TakeGate(p) ==
    /\ At(p, "gate")
    /\ IF gate = None THEN gate' = p /\ Goes(p, "verify") ELSE Goes(p, "refused") /\ UNCHANGED gate
    /\ UNCHANGED <<owner, connection, expected>>

\* Mutant: an old record is taken for a dead owner's.
RecoverableOld(p) == owner.written /\ owner.by = expected[p] /\ connection \in {None, owner.by}

\* What is verified behind the gate: the record inspected before, a process that is dead, a
\* connection that is that process's.
Recoverable(p) ==
    /\ owner.written /\ owner.by = expected[p] /\ ~Alive(owner.by)
    /\ connection \in {None, owner.by}

Verify(p) ==
    /\ At(p, "verify")
    /\ Goes(p, IF Recoverable(p) THEN "moveConnection" ELSE "openGate")
    /\ expected' = IF Recoverable(p) THEN expected ELSE [expected EXCEPT ![p] = None]
    /\ UNCHANGED <<owner, gate, connection>>

MoveConnection(p) ==
    /\ At(p, "moveConnection")
    /\ connection' = None /\ Goes(p, "moveOwner")
    /\ UNCHANGED <<owner, gate, expected>>

MoveOwner(p) ==
    /\ At(p, "moveOwner")
    /\ owner' = NoOwner /\ Goes(p, "openGate")
    /\ UNCHANGED <<gate, connection, expected>>

\* `finally`: the gate is removed on every path; an Engine that recovered goes on to acquire.
OpenGate(p) ==
    /\ At(p, "openGate")
    /\ gate' = None
    /\ Goes(p, IF expected[p] # None THEN "acquire" ELSE "refused")
    /\ UNCHANGED <<owner, connection, expected>>

-----------------------------------------------------------------------------
(* acquire, the server, close.                                             *)

CheckGate(p) ==
    /\ At(p, "acquire")
    /\ Goes(p, IF gate # None THEN "refused" ELSE "checkConnection")
    /\ UNCHANGED <<owner, gate, connection, expected>>

\* A connection without an owner is a legacy Engine's.
CheckConnection(p) ==
    /\ At(p, "checkConnection")
    /\ Goes(p, IF connection # None /\ owner.by = None THEN "refused" ELSE "create")
    /\ UNCHANGED <<owner, gate, connection, expected>>

\* The record is created exclusively, then written.
Create(p) ==
    /\ At(p, "create")
    /\ IF owner.by = None THEN owner' = [by |-> p, written |-> FALSE] /\ Goes(p, "write")
                          ELSE Goes(p, "refused") /\ UNCHANGED owner
    /\ UNCHANGED <<gate, connection, expected>>

Write(p) ==
    /\ At(p, "write")
    /\ owner' = [owner EXCEPT !.written = TRUE] /\ Goes(p, "recheck")
    /\ UNCHANGED <<gate, connection, expected>>

\* A recovery that began meanwhile makes the acquirer take its record back.
Recheck(p) ==
    /\ At(p, "recheck")
    /\ IF gate # None THEN owner' = NoOwner /\ Goes(p, "refused")
                      ELSE Goes(p, "owns") /\ UNCHANGED owner
    /\ UNCHANGED <<gate, connection, expected>>

\* The Engine publishes its connection by a rename, after its jobs are recovered.
Serve(p) ==
    /\ At(p, "owns") /\ p \in Engines
    /\ connection' = p /\ Goes(p, "serves")
    /\ UNCHANGED <<owner, gate, expected>>

\* The server removes its connection first, the owner's record goes last.
StopServing(p) ==
    /\ At(p, "serves")
    /\ connection' = None /\ Goes(p, "closing")
    /\ UNCHANGED <<owner, gate, expected>>

Close(p) ==
    /\ pc[p] \in {"owns", "closing"}
    /\ owner' = NoOwner /\ Goes(p, "refused")
    /\ UNCHANGED <<gate, connection, expected>>

Die(p) ==
    /\ Alive(p)
    /\ Goes(p, "dead")
    /\ UNCHANGED <<owner, gate, connection, expected>>

\* Every process has ended.
Done == (\A p \in Procs : ~Alive(p) /\ pc[p] # "off") /\ UNCHANGED vars

Next ==
    \/ \E p \in Procs :
          \/ Launch(p) \/ Inspect(p) \/ TakeGate(p) \/ Verify(p) \/ MoveConnection(p) \/ MoveOwner(p)
          \/ OpenGate(p) \/ CheckGate(p) \/ CheckConnection(p) \/ Create(p) \/ Write(p) \/ Recheck(p)
          \/ Serve(p) \/ StopServing(p) \/ Close(p) \/ Die(p)
    \/ Done

Spec == Init /\ [][Next]_vars

-----------------------------------------------------------------------------
(* Properties.                                                             *)

\* One writer: a process that took the state root for its own is the one in the record, whatever
\* acquisitions and recoveries race; another one would write beside it.
OneWriter == \A p \in Procs :
    pc[p] \in {"owns", "serves"} => owner = [by |-> p, written |-> TRUE]

\* A connection is never left without its owner's record, wherever a process dies: `acquire`
\* would take it for a legacy Engine's and refuse for ever.
ConnectionCovered == connection # None => owner.by = connection

\* Only one process works behind the gate and the record it moves away is the dead owner's it
\* inspected, not one created since.
RecoversInspected == \A p \in Procs :
    pc[p] \in {"moveConnection", "moveOwner"} =>
        gate = p /\ owner.by = expected[p] /\ pc[owner.by] \in {"dead", "refused"}
=============================================================================
