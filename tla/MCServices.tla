----------------------------- MODULE MCServices -----------------------------
(* The model instance of the protocols around one state root: who owns it (WriteOwner), which  *)
(* database it runs on (Candidates), the threads it makes in Codex (Continuation), the         *)
(* retained projections it keeps (ProjectionCache), its scans and plans (Synchronisation), and *)
(* the plugin of a projection run (Capture).                                                   *)
(* They share no variable, so an initial choice of `focus` explores each by itself; a property  *)
(* is about the states of its focus, the others rest in their initial state meanwhile.          *)
EXTENDS Naturals, FiniteSets

CONSTANTS Engines, Tools, None, Logged, Unlogged, MaxDeaths, Requests, Threads, MaxCalls, MaxCrashes,
          Sessions, Workspaces, PageLimit, Attempts, MaxRevision, MaxUpgrades, MaxInterrupts,
          Scanners, MaxChanges, MaxGraph,
          Projected, Live, Stored, MaxOwn, MaxFaults

VARIABLES focus,
    owner, gate, connection, pc, expected,
    db, pointer, open, op, preview, plan, manifest, acked, deaths,
    job, bound, codex, maker, call, link, calls, crashes,
    canon, names, log, adapter, cache, apply, dirty, interrupts,
    platform, graph, binding, head, scanning, proposal, answer, verified,
    client, copied, stream, hydrated, own, observed, active, queue, batch, tail, failed, known,
    revision, receipts, flush, todo, faults, emitted

O == INSTANCE WriteOwner
D == INSTANCE Candidates
C == INSTANCE Continuation WITH op <- call
P == INSTANCE ProjectionCache
S == INSTANCE Synchronisation
K == INSTANCE Capture

\* No process is named like the absence of one.
ASSUME OwnerAssumption == None \notin Engines \cup Tools

\* A thread is not the absence of one, a request not the session of nobody or of an import.
ASSUME ContinuationAssumption == 0 \notin Threads /\ {"nobody", "own"} \cap Requests = {}

\* The bounds of the scans and of the captures are numbers.
ASSUME ScanAssumption == MaxChanges \in Nat

ASSUME CaptureAssumption == Stored \in Nat /\ MaxOwn \in Nat /\ MaxFaults \in Nat

\* There are sessions, finitely many, and the journal is read in pages that are not empty.
ASSUME CacheAssumption ==
    /\ Sessions # {} /\ IsFiniteSet(Sessions)
    /\ PageLimit \in Nat \ {0} /\ Attempts \in Nat \ {0} /\ MaxRevision \in Nat /\ MaxUpgrades \in Nat

ownership    == <<owner, gate, connection, pc, expected>>
databases    == <<db, pointer, open, op, preview, plan, manifest, acked, deaths>>
continuation == <<job, bound, codex, maker, call, link, calls, crashes>>
projection   == <<canon, names, log, adapter, cache, apply, dirty, interrupts>>
scans        == <<platform, graph, binding, head, scanning, proposal, answer, verified>>
capture      == <<client, copied, stream, hydrated, own, observed, active, queue, batch, tail, failed,
                  known, revision, receipts, flush, todo, faults, emitted>>

Init ==
    /\ O!Init /\ D!Init /\ C!Init /\ P!Init /\ S!Init /\ K!Init
    /\ focus \in {"owner", "database", "continuation", "cache", "scan", "capture"}

Next ==
    /\ UNCHANGED focus
    /\ \/ focus = "owner"        /\ O!Next /\ UNCHANGED <<databases, continuation, projection, scans, capture>>
       \/ focus = "database"     /\ D!Next /\ UNCHANGED <<ownership, continuation, projection, scans, capture>>
       \/ focus = "continuation" /\ C!Next /\ UNCHANGED <<ownership, databases, projection, scans, capture>>
       \/ focus = "cache"        /\ P!Next /\ UNCHANGED <<ownership, databases, continuation, scans, capture>>
       \/ focus = "scan"         /\ S!Next /\ UNCHANGED <<ownership, databases, continuation, projection, capture>>
       \/ focus = "capture"      /\ K!Next /\ UNCHANGED <<ownership, databases, continuation, projection, scans>>

Spec == Init /\ [][Next]_<<focus, ownership, databases, continuation, projection, scans, capture>>

\* The owner of the state root is the one in its record, a connection has its owner's record, and
\* a recovery moves away what it inspected (write-coordinator.ts, http/server.ts).
OwnerInv == focus = "owner" => O!TypeOK /\ O!OneWriter /\ O!ConnectionCovered /\ O!RecoversInspected
\* The configuration names a complete database (canonical-migration.ts, config.ts).
PointerInv == focus = "database" => D!TypeOK /\ D!PointerIsBuilt
\* A switch keeps every session state; a complete migration has candidate and archive whole,
\* whether its switch succeeds, is refused or dies (conversation-topology-repair.ts,
\* canonical-migration.ts, engine.ts).
SwitchIsClean == [][D!SwitchIsClean]_databases
\* One thread per request; a completed job's thread is bound and has its turn
\* (continuation-engine/src/service.ts).
ThreadInv == focus = "continuation" => C!TypeOK /\ C!OneThread /\ C!CompletedIsBound
\* A recorded thread stays, its job is never failed and a verdict is final
\* (continuation-engine/src/service.ts, repository.ts).
RowsHold == [][C!RowsHold]_continuation
\* Manifest, files, index and catalog are as current as the cursor says, interrupted updates before
\* included; without interruptions the whole cache is (persistent-cache.ts, materialize.ts).
CacheFollows == focus = "cache" =>
    P!TypeOK /\ P!ManifestIsCurrent /\ P!ContentIsCurrent /\ P!CacheIsCurrent
\* What a scan passes over is in the graph as it is, whatever scans and applies raced
\* (discovery.ts, repository.ts).
ScanInv == focus = "scan" => S!TypeOK /\ S!SkipIsSound
\* Copies are whole, the queue is what was observed and not acknowledged, and a batch that is sent
\* is one the Engine can take; a plugin that has detached has sent what it observed
\* (projection-runtime.ts, index.ts).
CaptureInv == focus = "capture" => K!TypeOK /\ K!ReadsAreWhole /\ K!QueueIsWhole /\ K!NeverWedged /\ K!DetachedIsSent
=============================================================================
