---------------------------- MODULE TailRecovery ----------------------------
(***************************************************************************)
(* What a recovery makes of DSH's own store after DSH is gone: the         *)
(* per-run JSONL artifacts, and `runtime-tail-recovery.ts` of              *)
(* adapter-dsh-rc1 and adapter-dsh-alpha2, which take the tail that never  *)
(* reached the Engine from them and refuse whatever is ambiguous.          *)
(*                                                                         *)
(* DSH writes a session's directory, its header, and its events in batches *)
(* of rows; consecutive chunks of a message share a row.  It may end       *)
(* within each of these writes.  The plugin's captures go to the Engine    *)
(* besides, neither waits for the other.                                   *)
(*                                                                         *)
(* The two adapters read alike but for the seed of a fork.                 *)
(***************************************************************************)
EXTENDS Naturals, Sequences, FiniteSets, SequencesExt

CONSTANTS Opened,       \* sessions that are projected, with one committed event
          Created,      \* sessions that DSH creates
          MaxEvents,    \* bound: events DSH emits: chunks, and preludes
          MaxAttempts   \* bound: deaths of the Engine in a recovery

VARIABLES
    adapter,    \* the run's adapter
    packing,    \* how the store is written: "none" is a text file, "zstd" has a frame per batch
    form,       \* [session -> what its header is like]
    native,     \* [session -> the events DSH has of it]
    disk,       \* [session -> its artifact: directory, header, rows and the start of one more]
    mapping,    \* [session -> the header it was registered with]
    projected,  \* [session -> its events in the run's projection]
    revision,   \* [session -> the committed revision]
    pending,    \* the write-ahead record of a recovered tail: <<session, from, to>>
    alive,      \* whether DSH runs
    tails,      \* the operations of the recovery under way
    outcome,    \* of the recovery
    attempts

vars == <<adapter, packing, form, native, disk, mapping, projected, revision, pending, alive, tails,
          outcome, attempts>>

Runtimes == Opened \cup Created
RowKinds == {"prelude", "chunk", "turn"}

\* Headers: the projected cwd or one below the run's managed root, a delegation depth that is not
\* written, a fork of another session's events.
Forms == {"plain", "managed", "shallow", "forked"}
Absent   == [dir |-> FALSE, header |-> "none", rows |-> <<>>, torn |-> FALSE]
Unmapped == [cwd |-> "none"]
Unwritten == 99

\* What DSH stores and what it registered.
Stored(s) == [cwd  |-> IF form[s] = "managed" THEN "managed" ELSE "own", depth |-> 0,
              seed |-> IF form[s] = "forked" THEN 1 ELSE 0]
Registered(s) == [cwd |-> "own", depth |-> IF form[s] = "shallow" THEN Unwritten ELSE 0,
                  seeded |-> form[s] = "forked", inherited |-> IF form[s] = "forked" THEN 1 ELSE 0]

TypeOK ==
    /\ adapter \in {"rc1", "alpha2"} /\ packing \in {"none", "zstd"}
    /\ form \in [Runtimes -> Forms] /\ alive \in BOOLEAN /\ attempts \in 0..MaxAttempts
    /\ \A s \in Runtimes :
          /\ native[s] \in Seq(RowKinds) /\ projected[s] \in Seq(RowKinds) /\ revision[s] \in 0..(MaxEvents + 1)
          /\ disk[s].header \in {"none", "torn", "whole"} /\ (mapping[s] = Unmapped => revision[s] = 0)
    /\ outcome \in {"none", "collected", "refused", "done"}

Init ==
    /\ adapter \in {"rc1", "alpha2"} /\ packing \in {"none", "zstd"}
    /\ form \in [Runtimes -> Forms] /\ \A s \in Opened : form[s] # "forked"
    /\ Cardinality({s \in Runtimes : form[s] # "plain"}) <= 1
    /\ native = [s \in Runtimes |-> IF s \in Opened THEN <<"turn">> ELSE <<>>]
    /\ projected = native /\ revision = [s \in Runtimes |-> Len(native[s])]
    /\ disk = [s \in Runtimes |-> Absent]
    /\ mapping = [s \in Runtimes |-> IF s \in Opened THEN Registered(s) ELSE Unmapped]
    /\ pending = <<>> /\ alive = TRUE /\ tails = {} /\ outcome = "none" /\ attempts = 0

(***************************************************************************)
(* DSH.                                                                    *)
(***************************************************************************)
EngineSide == <<mapping, projected, revision, pending, tails, outcome, attempts>>
Chosen     == <<adapter, packing, form>>
Real(events) == \E i \in DOMAIN events : events[i] # "prelude"

\* The events whose rows are whole, as DSH wrote them.
Durable(s) == FoldLeft(LAMBDA n, row : n + Len(row.kinds), 0, disk[s].rows)
Emitted    == FoldLeft(LAMBDA n, s : n + Len(native[s]), 0, SetToSeq(Runtimes))

\* A session is opened or created; a fork starts with what it inherits.
Open(s) ==
    /\ alive /\ ~disk[s].dir /\ disk' = [disk EXCEPT ![s].dir = TRUE]
    /\ native' = IF form[s] = "forked" THEN [native EXCEPT ![s] = <<"turn">>] ELSE native
    /\ UNCHANGED <<Chosen, alive, EngineSide>>

WriteHeader(s) ==
    /\ alive /\ disk[s].dir /\ disk[s].header = "none" /\ disk' = [disk EXCEPT ![s].header = "whole"]
    /\ UNCHANGED <<Chosen, native, alive, EngineSide>>

Emit(s, kind) ==
    /\ alive /\ disk[s].dir /\ Emitted < MaxEvents + Cardinality(Opened)
    /\ native' = [native EXCEPT ![s] = Append(@, kind)]
    /\ UNCHANGED <<Chosen, disk, alive, EngineSide>>

\* The rows of a batch: consecutive chunks are packed.
Rows(from, events) == FoldLeft(LAMBDA rows, kind :
    IF kind = "chunk" /\ rows # <<>> /\ Last(rows).kinds[1] = "chunk"
      THEN [rows EXCEPT ![Len(rows)].kinds = Append(@, kind)]
      ELSE Append(rows, [seq0 |-> from + FoldLeft(LAMBDA n, row : n + Len(row.kinds), 0, rows), kinds |-> <<kind>>]),
    <<>>, events)
Batch(s, n) == Rows(Durable(s), SubSeq(native[s], Durable(s) + 1, n))

Save(s) ==
    /\ alive /\ disk[s].header = "whole"
    /\ \E n \in (Durable(s) + 1)..Len(native[s]) : disk' = [disk EXCEPT ![s].rows = @ \o Batch(s, n)]
    /\ UNCHANGED <<Chosen, native, alive, EngineSide>>

\* DSH ends, possibly within a write: of a text some rows are whole, of a frame none is.
Exit ==
    /\ alive /\ alive' = FALSE
    /\ \/ UNCHANGED disk
       \/ \E s \in Runtimes :
             \/ disk[s].dir /\ disk[s].header = "none" /\ disk' = [disk EXCEPT ![s].header = "torn"]
             \/ /\ disk[s].header = "whole" /\ Durable(s) < Len(native[s])
                /\ LET rows == Batch(s, Len(native[s]))
                   IN  \E k \in 0..(IF packing = "none" THEN Len(rows) - 1 ELSE 0) :
                          disk' = [disk EXCEPT ![s].rows = @ \o SubSeq(rows, 1, k), ![s].torn = TRUE]
    /\ UNCHANGED <<Chosen, native, EngineSide>>

(***************************************************************************)
(* What the plugin brings to the Engine meanwhile.                         *)
(***************************************************************************)
Register(s) ==
    /\ alive /\ mapping[s] = Unmapped /\ Real(native[s])
    /\ mapping' = [mapping EXCEPT ![s] = Registered(s)]
    /\ UNCHANGED <<Chosen, native, disk, alive, projected, revision, pending, tails, outcome, attempts>>

\* An append; ProjectionRun has its steps.  A prelude waits for what follows it.
Commit(s) ==
    /\ alive /\ mapping[s] # Unmapped
    /\ \E n \in (revision[s] + 1)..Len(native[s]) :
          /\ Real(SubSeq(native[s], revision[s] + 1, n))
          /\ projected' = [projected EXCEPT ![s] = SubSeq(native[s], 1, n)]
          /\ revision' = [revision EXCEPT ![s] = n]
    /\ UNCHANGED <<Chosen, native, disk, alive, mapping, pending, tails, outcome, attempts>>

(***************************************************************************)
(* Reading an artifact.                                                    *)
(***************************************************************************)
\* Mutant: sequence numbers are compared with rows.
DecodeByRow(rows) == FoldLeft(LAMBDA read, row :
    [events |-> read.events \o row.kinds, rows |-> read.rows + 1, ok |-> read.ok /\ row.seq0 = read.rows],
    [events |-> <<>>, rows |-> 0, ok |-> TRUE], rows)

\* The events of a row go on where the rows before it ended.
Contiguous(read, row) == row.seq0 = Len(read.events)

\* decodeArtifactJsonl, decodeStorageRecord, validateEvent: rows expand to a contiguous sequence.
Decode(rows) == FoldLeft(LAMBDA read, row :
    [events |-> read.events \o row.kinds, rows |-> read.rows + 1, ok |-> read.ok /\ Contiguous(read, row)],
    [events |-> <<>>, rows |-> 0, ok |-> TRUE], rows)

\* decodeArtifactBytes: what is torn at the end is left out, the header must be whole.
Readable(s) == disk[s].header = "whole"

\* normalizeMapping: a projection has the events of its revision.
MappingValid(s) == mapping[s] # Unmapped => Len(projected[s]) = revision[s]

Depth(header) == IF header.depth = Unwritten THEN 0 ELSE header.depth

\* rc1 stores the length of the seed and registers it apart from the header.
SameLineage(s) ==
    LET seeded == Stored(s).seed > 0
    IN  mapping[s].seeded = seeded /\ mapping[s].inherited = Stored(s).seed

\* alpha2 has it in the header.
SameSeed(s) == mapping[s].inherited = Stored(s).seed

\* sameRuntimeHeader: the depth has a default, a cwd below the managed root is ours.
SameHeader(s) ==
    /\ Stored(s).depth = Depth(mapping[s])
    /\ Stored(s).cwd = mapping[s].cwd \/ Stored(s).cwd = "managed"
    /\ IF adapter = "rc1" THEN SameLineage(s) ELSE SameSeed(s)

\* What both adapters take of an artifact.
Taken(s) == Decode(disk[s].rows).events

\* An artifact the recovery refuses: one is enough for all.
Refused(s) == disk[s].dir /\
    (\/ ~Readable(s) \/ ~Decode(disk[s].rows).ok
     \/ mapping[s] = Unmapped /\ Real(Taken(s))
     \/ mapping[s] # Unmapped /\ (~SameHeader(s) \/ ~IsPrefix(projected[s], Taken(s))))

\* What an artifact has beyond the committed revision, unless it only prepares a continuation.
Tails == {[of |-> s, from |-> revision[s], to |-> Len(Taken(s)), events |-> SubSeq(Taken(s), revision[s] + 1, Len(Taken(s)))] :
             s \in {r \in Runtimes : disk[r].dir /\ mapping[r] # Unmapped
                                     /\ Real(SubSeq(Taken(r), revision[r] + 1, Len(Taken(r))))}}

(***************************************************************************)
(* The recovery.                                                           *)
(***************************************************************************)
Collect ==
    /\ ~alive /\ outcome = "none" /\ pending = <<>>
    /\ IF \E s \in Runtimes : ~MappingValid(s) \/ Refused(s)
         THEN outcome' = "refused" /\ UNCHANGED tails
         ELSE outcome' = "collected" /\ tails' = Tails
    /\ UNCHANGED <<Chosen, native, disk, alive, mapping, projected, revision, pending, attempts>>

PutPending ==
    /\ outcome = "collected" /\ pending = <<>>
    /\ \E t \in tails : pending' = <<t>> /\ tails' = tails \ {t}
    /\ UNCHANGED <<Chosen, native, disk, alive, mapping, projected, revision, outcome, attempts>>

\* Mutant: an operation is appended whatever the projection has of it.
AppendAgain(events, t) == events \o t.events

\* validateAppend: what a first attempt has written is not written again.
AppendTail(events, t) == events \o SubSeq(t.events, Len(events) - t.from + 1, Len(t.events))

ApplyAppend ==
    /\ ~alive /\ pending # <<>> /\ outcome \in {"none", "collected"} /\ revision[pending[1].of] = pending[1].from
    /\ projected' = [projected EXCEPT ![pending[1].of] = AppendTail(@, pending[1])]
    /\ UNCHANGED <<Chosen, native, disk, alive, mapping, revision, pending, tails, outcome, attempts>>

MarkCommitted ==
    /\ pending # <<>> /\ Len(projected[pending[1].of]) >= pending[1].to
    /\ revision' = [revision EXCEPT ![pending[1].of] = pending[1].to] /\ pending' = <<>>
    /\ UNCHANGED <<Chosen, native, disk, alive, mapping, projected, tails, outcome, attempts>>

Finish ==
    /\ outcome = "collected" /\ tails = {} /\ pending = <<>> /\ outcome' = "done"
    /\ UNCHANGED <<Chosen, native, disk, alive, mapping, projected, revision, pending, tails, attempts>>

\* The Engine dies; the recovery starts again.
Again ==
    /\ outcome = "collected" /\ attempts < MaxAttempts /\ attempts' = attempts + 1
    /\ outcome' = "none" /\ tails' = {}
    /\ UNCHANGED <<Chosen, native, disk, alive, mapping, projected, revision, pending>>

Next ==
    \/ \E s \in Runtimes :
          Open(s) \/ WriteHeader(s) \/ (\E k \in RowKinds \ {"turn"} : Emit(s, k)) \/ Save(s) \/ Register(s) \/ Commit(s)
    \/ Exit \/ Collect \/ PutPending \/ ApplyAppend \/ MarkCommitted \/ Finish \/ Again

Spec == Init /\ [][Next]_vars

(***************************************************************************)
(* Properties.                                                             *)
(***************************************************************************)
\* The projection has what DSH emitted, in its order and once.
ProjectedIsEmitted == \A s \in Runtimes : IsPrefix(projected[s], native[s])

\* After a recovery nothing of a conversation that DSH had stored is missing.
DoneIsWhole == outcome = "done" => \A s \in Runtimes :
    /\ revision[s] = Len(projected[s])
    /\ \A i \in 1..Durable(s) : native[s][i] # "prelude" => mapping[s] # Unmapped /\ i <= revision[s]

\* A recovery refuses what it cannot take: a session whose beginning is not whole, one shorter than
\* what is committed, one that was never registered.  A torn end is none of these.
RefusalIsMeant == outcome = "refused" => \E s \in Runtimes : disk[s].dir /\
    (disk[s].header # "whole" \/ Durable(s) < revision[s] \/ (mapping[s] = Unmapped /\ Durable(s) > 0))
=============================================================================
