------------------------------ MODULE Candidates ------------------------------
(***************************************************************************)
(* Replacing the active database of a state root: the online canonical     *)
(* migration (`session-store/src/canonical-migration.ts`, started by       *)
(* engine.ts under its write queue), the offline repair of conversations   *)
(* (`apps/engine/src/conversation-topology-repair.ts` and                  *)
(* `conversation-repair-plan.ts`), the offline reseed                      *)
(* (`canonical-reseed.ts`), and the pointer in `config.ts`.                *)
(*                                                                         *)
(* A database is a file and its write-ahead log.  Each operation builds a  *)
(* new file beside the active one and ends by renaming a configuration     *)
(* that names it; a process may die between any two steps.  Offline        *)
(* operations own the state root, so no Engine runs beside them.           *)
(***************************************************************************)
EXTENDS Naturals, FiniteSets

CONSTANTS Logged,     \* writes that change what `sourceState` digests: heads, members, tombstones
          Unlogged,   \* writes that do not: checkpoints, jobs, settings, aliases
          MaxDeaths   \* bound: deaths of a process

Writes == Logged \cup Unlogged

\* The files: the first database, the candidate and archive of the migration (composition-root.ts
\* gives them fixed names), a repaired and a reseeded candidate.
Files == {"first", "migrated", "archive", "repaired", "reseeded"}

Nobody == "none"

VARIABLES
    db,         \* [Files -> [built, file, wal]]: whether it is there and complete, what it holds
    pointer,    \* databaseFile of the configuration
    open,       \* the database the Engine runs on, or Nobody
    op,         \* the operation under way: [what, at]
    preview,    \* what the last migration preview digested: [file, wal]
    plan,       \* the repair plan: [state, source, seen]
    manifest,   \* the repair manifest: [state, source, seen, content]
    acked,      \* the writes whose callers were answered
    deaths

vars == <<db, pointer, open, op, preview, plan, manifest, acked, deaths>>

Absent   == [built |-> "none", file |-> {}, wal |-> {}]
Holds(d) == db[d].file \cup db[d].wal
Idle     == [what |-> Nobody, at |-> Nobody]
NoPlan   == [state |-> "none", source |-> Nobody, seen |-> {}]
NoManifest == [state |-> "none", source |-> Nobody, seen |-> {}, content |-> {}]

\* What is running owns the state root; what is complete is what was made under that name.
TypeOK ==
    /\ db \in [Files -> [built : {"none", "partial", "built"}, file : SUBSET Writes, wal : SUBSET Writes]]
    /\ pointer \in Files /\ open \in Files \cup {Nobody} /\ acked \subseteq Writes
    /\ op \in [what : {Nobody, "migrate", "preview", "stage", "activate", "reseed"},
               at : {Nobody, "copied", "archived", "built", "capture", "backedup", "repaired", "checked"}]
    /\ preview \in [file : SUBSET Writes, wal : SUBSET Writes]
    /\ plan \in [state : {"none", "partial", "sealed"}, source : Files \cup {Nobody}, seen : SUBSET Writes]
    /\ manifest \in [state : {"none", "written"}, source : Files \cup {Nobody}, seen : SUBSET Writes,
                     content : SUBSET Writes]
    /\ op.what = "migrate" => open # Nobody
    /\ op.what \in {"preview", "stage", "activate", "reseed"} => open = Nobody

Init ==
    /\ db = [d \in Files |-> IF d = "first" THEN [Absent EXCEPT !.built = "built"] ELSE Absent]
    /\ pointer = "first" /\ open = Nobody /\ op = Idle
    /\ preview = [file |-> {}, wal |-> {}] /\ plan = NoPlan /\ manifest = NoManifest
    /\ acked = {} /\ deaths = 0

Doing(what, at) == op = [what |-> what, at |-> at]
Goes(what, at)  == op' = [what |-> what, at |-> at]

\* The digest of `sourceState`.
State(d) == Holds(d) \cap Logged

\* A copy in another file; a copy of the file alone leaves the log behind.
Copied(built, content) == [built |-> built, file |-> content, wal |-> {}]

-----------------------------------------------------------------------------
(* The Engine.                                                             *)

Start ==
    /\ open = Nobody /\ op = Idle
    /\ open' = pointer
    /\ UNCHANGED <<db, pointer, op, preview, plan, manifest, acked, deaths>>

\* A write is answered when its transaction is in the log; the queue holds writes back while a
\* migration runs.
Commit(w) ==
    /\ open # Nobody /\ op = Idle /\ w \notin acked
    /\ db' = [db EXCEPT ![open].wal = @ \cup {w}]
    /\ acked' = acked \cup {w}
    /\ UNCHANGED <<pointer, open, op, preview, plan, manifest, deaths>>

\* SQLite's own checkpoint copies the log into the file and keeps the log's length.
Checkpoint ==
    /\ open # Nobody /\ op = Idle
    /\ db' = [db EXCEPT ![open].file = @ \cup db[open].wal]
    /\ UNCHANGED <<pointer, open, op, preview, plan, manifest, acked, deaths>>

\* The last connection's close empties the log.
Stop ==
    /\ open # Nobody /\ op = Idle
    /\ db' = [db EXCEPT ![open] = Copied("built", Holds(open))]
    /\ open' = Nobody
    /\ UNCHANGED <<pointer, op, preview, plan, manifest, acked, deaths>>

\* A death at any point: the files stay as they are.
Die ==
    /\ open # Nobody \/ op # Idle
    /\ deaths < MaxDeaths /\ deaths' = deaths + 1
    /\ open' = Nobody /\ op' = Idle
    /\ UNCHANGED <<db, pointer, preview, plan, manifest, acked>>

-----------------------------------------------------------------------------
(* The online migration.                                                   *)

\* The preview digests the database's files, log included; it is a request like another.
Preview ==
    /\ open # Nobody /\ op = Idle
    /\ preview' = [file |-> db[open].file, wal |-> db[open].wal]
    /\ UNCHANGED <<db, pointer, open, op, plan, manifest, acked, deaths>>

\* Mutant: the digest is compared, the log is not looked at.
QuietDigest == preview = [file |-> db[open].file, wal |-> db[open].wal]

\* The files are those of the preview and nothing waits in the log, which the copy leaves behind.
Quiet == preview = [file |-> db[open].file, wal |-> db[open].wal] /\ db[open].wal = {}

\* Candidate and archive are absent, the source is quiet, every session is classified;
\* the first copy begins.
BeginMigration ==
    /\ open # Nobody /\ open # "migrated" /\ op = Idle
    /\ db["migrated"] = Absent /\ db["archive"] = Absent /\ Quiet
    /\ db' = [db EXCEPT !["migrated"] = Copied("partial", db[open].file)]
    /\ Goes("migrate", "copied")
    /\ UNCHANGED <<pointer, open, preview, plan, manifest, acked, deaths>>

CopyArchive ==
    /\ Doing("migrate", "copied")
    /\ db' = [db EXCEPT !["archive"] = Copied("built", db[open].file)]
    /\ Goes("migrate", "archived")
    /\ UNCHANGED <<pointer, open, preview, plan, manifest, acked, deaths>>

\* The candidate is filled in one transaction, verified and its log emptied.
Transform ==
    /\ Doing("migrate", "archived")
    /\ db' = [db EXCEPT !["migrated"].built = "built"]
    /\ Goes("migrate", "built")
    /\ UNCHANGED <<pointer, open, preview, plan, manifest, acked, deaths>>

\* A step that fails takes both copies away; a removal that fails is passed over.  The catch ends
\* with the migration: what fails after that is `SwitchOnline`'s.
Undo ==
    /\ op.what = "migrate" /\ op.at # "built"
    /\ \E gone \in SUBSET {"migrated", "archive"} :
          db' = [d \in Files |-> IF d \in gone THEN Absent ELSE db[d]]
    /\ op' = Idle
    /\ UNCHANGED <<pointer, open, preview, plan, manifest, acked, deaths>>

\* The pointer moves; the Engine goes on with the database it has, until it is restarted.  The
\* configuration may refuse (its Codex policy cannot be read or is not the candidate's) or fail to
\* be written: the pointer stays, and so do candidate and archive, which no later attempt accepts.
SwitchOnline ==
    /\ Doing("migrate", "built")
    /\ pointer' \in {pointer, "migrated"} /\ op' = Idle
    /\ UNCHANGED <<db, open, preview, plan, manifest, acked, deaths>>

-----------------------------------------------------------------------------
(* The offline repair: preview, stage, activate; each owns the state root. *)

\* A preview makes the plan's directory exclusively; a body is written at a time.
BeginPlan ==
    /\ open = Nobody /\ op = Idle /\ db["repaired"] = Absent /\ plan.state = "none"
    /\ plan' = [state |-> "partial", source |-> pointer, seen |-> State(pointer)]
    /\ Goes("preview", "capture")
    /\ UNCHANGED <<db, pointer, open, preview, manifest, acked, deaths>>

\* plan.json is written last; a capture that fails leaves a directory nothing uses.
SealPlan ==
    /\ Doing("preview", "capture")
    /\ plan' \in {plan, [plan EXCEPT !.state = "sealed"]}
    /\ op' = Idle
    /\ UNCHANGED <<db, pointer, open, preview, manifest, acked, deaths>>

\* Staging: the plan is sealed and of this source as it is; the backup copies file and log.
BackUp ==
    /\ open = Nobody /\ op = Idle /\ db["repaired"] = Absent
    /\ plan.state = "sealed" /\ plan.source = pointer /\ State(pointer) = plan.seen
    /\ db' = [db EXCEPT !["repaired"] = Copied("partial", Holds(pointer))]
    /\ Goes("stage", "backedup")
    /\ UNCHANGED <<pointer, open, preview, plan, manifest, acked, deaths>>

\* Mirrors, retirements and derived sessions are written one commit at a time, then everything is
\* verified; a failure leaves the candidate without a manifest.
Repair ==
    /\ Doing("stage", "backedup")
    /\ \/ db' = [db EXCEPT !["repaired"].built = "built"] /\ Goes("stage", "repaired")
       \/ op' = Idle /\ UNCHANGED db
    /\ UNCHANGED <<pointer, open, preview, plan, manifest, acked, deaths>>

\* Mutant: the manifest is written before the candidate is repaired.
WriteManifestFirst ==
    /\ op.what = "stage"
    /\ manifest' = [state |-> "written", source |-> pointer, seen |-> plan.seen,
                    content |-> db["repaired"].file]
    /\ op' = Idle
    /\ UNCHANGED <<db, pointer, open, preview, plan, acked, deaths>>

WriteManifest ==
    /\ Doing("stage", "repaired")
    /\ manifest' = [state |-> "written", source |-> pointer, seen |-> plan.seen,
                    content |-> db["repaired"].file]
    /\ op' = Idle
    /\ UNCHANGED <<db, pointer, open, preview, plan, acked, deaths>>

\* Activation: source and candidate are what the manifest says.
Same ==
    /\ manifest.state = "written" /\ manifest.source = pointer
    /\ State(pointer) = manifest.seen /\ Holds("repaired") = manifest.content

BeginActivation ==
    /\ open = Nobody /\ op = Idle /\ Same
    /\ Goes("activate", "checked")
    /\ UNCHANGED <<db, pointer, open, preview, plan, manifest, acked, deaths>>

\* The same configuration may refuse here; the candidate stays as it was staged.
SwitchOffline ==
    /\ Doing("activate", "checked")
    /\ pointer' \in {pointer, "repaired"} /\ op' = Idle
    /\ UNCHANGED <<db, open, preview, plan, manifest, acked, deaths>>

-----------------------------------------------------------------------------
(* The offline reseed builds a candidate from the sources; nothing here    *)
(* activates it.                                                           *)

BeginReseed ==
    /\ open = Nobody /\ op = Idle /\ db["reseeded"] = Absent
    /\ db' = [db EXCEPT !["reseeded"] = Copied("partial", {})]
    /\ Goes("reseed", "copied")
    /\ UNCHANGED <<pointer, open, preview, plan, manifest, acked, deaths>>

Reseed ==
    /\ Doing("reseed", "copied")
    /\ \/ db' = [db EXCEPT !["reseeded"].built = "built"]
       \/ UNCHANGED db
    /\ op' = Idle
    /\ UNCHANGED <<pointer, open, preview, plan, manifest, acked, deaths>>

Next ==
    \/ Start \/ (\E w \in Writes : Commit(w)) \/ Checkpoint \/ Stop \/ Die
    \/ Preview \/ BeginMigration \/ CopyArchive \/ Transform \/ Undo \/ SwitchOnline
    \/ BeginPlan \/ SealPlan \/ BackUp \/ Repair \/ WriteManifest \/ BeginActivation \/ SwitchOffline
    \/ BeginReseed \/ Reseed

Spec == Init /\ [][Next]_vars

-----------------------------------------------------------------------------
(* Properties.                                                             *)

\* The pointer never names a database that is not complete, wherever a process died: an Engine
\* would start on it.
PointerIsBuilt == db[pointer].built = "built"

\* A switch takes over every session state the database it replaces has at that moment, the log's
\* included.
SwitchKeeps == pointer' # pointer => State(pointer) \subseteq db'[pointer'].file

\* A written manifest vouches for a complete candidate: activation asks for nothing else.
ManifestVouches == manifest.state = "written" => db["repaired"].built = "built"

\* From the moment a migration is complete, whatever comes next (the switch, one that is refused, a
\* death) leaves a candidate and an archive with every write the database had, so that the old
\* database can be returned to and the candidate named by hand.
BothKeep == Doing("migrate", "built") =>
    /\ db'["archive"].built = "built" /\ db'["archive"].file = Holds(open)
    /\ db'["migrated"].built = "built" /\ Holds(open) \subseteq db'["migrated"].file

\* A switch loses nothing, and a migration that got as far as one has both copies whole.
SwitchIsClean == SwitchKeeps /\ BothKeep

\* What the removals are there for: a migration that failed, rather than died, can be tried again.
\* It cannot after a switch that was refused, or a removal that failed.
MigrationRetries ==
    op.what = "migrate" /\ op' = Idle /\ open' = open /\ pointer' = pointer
        => db'["migrated"] = Absent /\ db'["archive"] = Absent

\* Design 17.1: DSH's writes are stopped, the pointer is switched and the old database stays
\* read-only.  The Engine that switched it goes on writing to the old one, and what its callers
\* were told is written is not in the database of the next start.
AckedIsKept == open # Nobody => acked \subseteq Holds(open)
=============================================================================
