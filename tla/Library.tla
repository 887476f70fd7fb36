------------------------------- MODULE Library -------------------------------
(***************************************************************************)
(* The canonical library and those who write it: Codex imports             *)
(* (`apps/engine/src/codex-canonical-import.ts`, `codex-import-service.ts`,*)
(* `codex-catalog-title-sync.ts`), DSH runs                                *)
(* (`canonical-session-engine/src/dsh-append.ts`, `dsh-native-import.ts`)  *)
(* and the dashboard (`apps/engine/src/session-maintenance-commands.ts`),  *)
(* over `session-store/src/canonical-engine-store.ts` and                  *)
(* `canonical-metadata.ts`.                                                *)
(*                                                                         *)
(* Each write is one operation of the write queue and one transaction.     *)
(* What it writes was read before: a Codex thread and its title outside    *)
(* the queue, a session's base, title and workspace when a run was         *)
(* prepared.  In between others write.                                     *)
(***************************************************************************)
EXTENDS Naturals, Sequences, FiniteSets

CONSTANTS MaxBody,      \* bound: growth of the thread, and of a DSH session
          MaxTitles,    \* bound: new titles
          MaxEdits,     \* bound: operations of the dashboard
          MaxBusy,      \* bound: imports, title syncs and runs under way at once
          MaxVersions   \* bound: versions

\* A mirror of a Codex thread, a session of DSH's own, the session a run derives from the mirror.
Ids     == {"mirror", "native", "derived"}
Readers == {"job", "observer"}
Places  == {"nowhere", "space"}
None    == 0

VARIABLES
    thread,     \* what Codex keeps: [body, title]
    titles,     \* titles given so far; each title is new
    edits,      \* operations of the dashboard so far
    versions,   \* session_versions: [of, parent, body, title]
    library,    \* [Ids -> the session's row, membership and tombstone]
    ref,        \* platform_refs of the mirror: [version, body]
    space,      \* whether the workspace is there
    reader,     \* [Readers -> an import under way: [at, stamp, expected, seen]]
    cached,     \* the observer's change cache: [body, title], or bodies 0
    sync,       \* the catalog title sync under way: the title it read, or -
    run         \* what the run of DSH was prepared with: [up, base, title, ws, parent]

vars == <<thread, titles, edits, versions, library, ref, space, reader, cached, sync, run>>

Sources  == [body : 0..MaxBody, title : 0..MaxTitles]
Unseen   == [body |-> 0, title |-> 0]
Resting  == [at |-> "idle", stamp |-> Unseen, expected |-> None, seen |-> Unseen]
Missing  == [there |-> FALSE, head |-> None, title |-> 0, ws |-> "nowhere", dead |-> FALSE,
             tombstone |-> FALSE, previous |-> "nowhere"]
NotSyncing == MaxTitles + 1

\* A version's parent is older; a row's head is a version of its own.
TypeOK ==
    /\ thread \in Sources /\ titles \in 0..MaxTitles /\ edits \in 0..MaxEdits
    /\ \A v \in DOMAIN versions :
          versions[v] \in [of : Ids, parent : 0..(v - 1), body : 0..(2 * MaxBody), title : 0..MaxTitles]
    /\ \A i \in Ids : library[i] \in
          [there : BOOLEAN, head : 0..Len(versions), title : 0..MaxTitles, ws : Places, dead : BOOLEAN,
           tombstone : BOOLEAN, previous : Places]
    /\ \A i \in Ids : library[i].there => versions[library[i].head].of = i
    /\ ref \in [version : 0..Len(versions), body : 0..MaxBody] /\ space \in BOOLEAN
    /\ reader \in [Readers -> [at : {"idle", "stamped", "head", "seen", "applied"}, stamp : Sources,
                               expected : 0..Len(versions), seen : Sources]]
    /\ cached \in Sources /\ sync \in 0..NotSyncing
    /\ run \in [up : BOOLEAN, base : 0..Len(versions), title : 0..MaxTitles, ws : Places,
                parent : 0..Len(versions)]

Init ==
    /\ thread = [body |-> 1, title |-> 0] /\ titles = 0 /\ edits = 0
    /\ versions = <<>> /\ library = [i \in Ids |-> Missing]
    /\ ref = [version |-> None, body |-> 0] /\ space = TRUE
    /\ reader = [r \in Readers |-> Resting] /\ cached = Unseen /\ sync = NotSyncing
    /\ run = [up |-> FALSE, base |-> None, title |-> 0, ws |-> "nowhere", parent |-> None]

HeadOf(i) == versions[library[i].head]
Body(i) == HeadOf(i).body

\* Imports, title syncs and runs under way; bound: one more may be.
Busy == Cardinality({r \in Readers : reader[r].at # "idle"})
          + (IF run.up THEN 1 ELSE 0) + (IF sync # NotSyncing THEN 1 ELSE 0)
MayStart == Busy < MaxBusy

-----------------------------------------------------------------------------
(* Storage.                                                                *)

\* A new version of i becomes its head; title, membership and deletion mark are the mutation's.
Commit(i, parent, body, title, ws, dead) ==
    /\ Len(versions) < MaxVersions
    /\ versions' = Append(versions, [of |-> i, parent |-> parent, body |-> body, title |-> title])
    /\ library' = [library EXCEPT ![i].there = TRUE, ![i].head = Len(versions) + 1,
                                  ![i].title = title, ![i].ws = ws, ![i].dead = dead]

\* A metadata change is a version with the head's body; an unchanged one is nothing.
Retitle(i, title) ==
    IF library[i].title = title THEN UNCHANGED <<versions, library>>
    ELSE Commit(i, library[i].head, Body(i), title, library[i].ws, library[i].dead)

-----------------------------------------------------------------------------
(* Codex.                                                                  *)

Grow ==
    /\ thread.body < MaxBody
    /\ thread' = [thread EXCEPT !.body = @ + 1]
    /\ UNCHANGED <<titles, edits, versions, library, ref, space, reader, cached, sync, run>>

Rename ==
    /\ titles < MaxTitles
    /\ titles' = titles + 1 /\ thread' = [thread EXCEPT !.title = titles']
    /\ UNCHANGED <<edits, versions, library, ref, space, reader, cached, sync, run>>

-----------------------------------------------------------------------------
(* Imports: one of a job, one of the background observer, whose change     *)
(* cache spares it what it has seen.                                       *)

Reading == UNCHANGED <<thread, titles, edits, versions, library, ref, space, sync, run>>

\* The observer stamps the thread and passes over one whose stamp it remembers.
Stamp ==
    /\ MayStart /\ reader["observer"].at = "idle" /\ cached # thread
    /\ reader' = [reader EXCEPT !["observer"] = [Resting EXCEPT !.at = "stamped", !.stamp = thread]]
    /\ UNCHANGED cached /\ Reading

\* Body remembered, title not: the title alone is committed.
RetitleUnchanged ==
    /\ reader["observer"].at = "stamped" /\ cached.body = reader["observer"].stamp.body
    /\ library["mirror"].there
    /\ Retitle("mirror", reader["observer"].stamp.title)
    /\ reader' = [reader EXCEPT !["observer"].at = "applied"]
    /\ UNCHANGED <<thread, titles, edits, ref, space, cached, sync, run>>

ReadHead(r) ==
    /\ reader[r].at = (IF r = "job" THEN "idle" ELSE "stamped")
    /\ r = "job" => MayStart
    /\ r = "observer" => ~(cached.body = reader[r].stamp.body /\ library["mirror"].there)
    /\ reader' = [reader EXCEPT ![r].at = "head", ![r].expected = library["mirror"].head]
    /\ UNCHANGED cached /\ Reading

\* A stable read: body and title as they are together at one moment.
Observe(r) ==
    /\ reader[r].at = "head"
    /\ reader' = [reader EXCEPT ![r].at = "seen", ![r].seen = thread]
    /\ UNCHANGED cached /\ Reading

\* An unstable thread, a cancelled job, a changed project scope, a stamp that cannot be read: the
\* import ends.
GiveUp(r) ==
    /\ reader[r].at # "idle"
    /\ reader' = [reader EXCEPT ![r] = Resting]
    /\ UNCHANGED cached /\ Reading

\* A mirror's version is what was seen; one that is the head already makes none.  A tombstoned
\* mirror keeps its place.
ObserveCodex(seen) ==
    IF library["mirror"].there /\ Body("mirror") = seen.body /\ library["mirror"].title = seen.title
    THEN /\ ref' = [version |-> library["mirror"].head, body |-> seen.body]
         /\ UNCHANGED <<versions, library>>
    ELSE /\ Commit("mirror", library["mirror"].head, seen.body, seen.title,
                   IF library["mirror"].tombstone THEN library["mirror"].ws ELSE "nowhere",
                   library["mirror"].dead)
         /\ ref' = [version |-> Len(versions) + 1, body |-> seen.body]

\* Mutant: the head is not looked at again.
ApplyBlind(r) ==
    /\ reader[r].at = "seen"
    /\ ObserveCodex(reader[r].seen)
    /\ reader' = [reader EXCEPT ![r] = IF r = "job" THEN Resting ELSE [@ EXCEPT !.at = "applied"]]
    /\ UNCHANGED <<thread, titles, edits, space, cached, sync, run>>

\* In the queue: a head that is not the one read before the thread ends the import.
Apply(r) ==
    /\ reader[r].at = "seen"
    /\ IF library["mirror"].head # reader[r].expected
       THEN reader' = [reader EXCEPT ![r] = Resting] /\ UNCHANGED <<versions, library, ref>>
       ELSE /\ ObserveCodex(reader[r].seen)
            /\ reader' = [reader EXCEPT ![r] = IF r = "job" THEN Resting ELSE [@ EXCEPT !.at = "applied"]]
    /\ UNCHANGED <<thread, titles, edits, space, cached, sync, run>>

\* Mutant: the stamp is remembered before the import.
RememberFirst ==
    /\ reader["observer"].at \in {"stamped", "head", "seen"}
    /\ cached' = reader["observer"].stamp
    /\ UNCHANGED reader /\ Reading

\* Remembered when the thread still has the stamp, forgotten otherwise.
Remember ==
    /\ reader["observer"].at = "applied"
    /\ cached' = IF thread = reader["observer"].stamp THEN thread ELSE Unseen
    /\ reader' = [reader EXCEPT !["observer"] = Resting]
    /\ Reading

\* The cache is in memory: a restart, a registration or a change of scope empties it.
Forget ==
    /\ cached # Unseen /\ cached' = Unseen
    /\ UNCHANGED reader /\ Reading

\* The catalog title sync reads the titles, then commits each in the queue.
ReadTitle ==
    /\ MayStart /\ sync = NotSyncing /\ sync' = thread.title
    /\ UNCHANGED <<thread, titles, edits, versions, library, ref, space, reader, cached, run>>

SyncTitle ==
    /\ sync # NotSyncing
    /\ IF library["mirror"].there THEN Retitle("mirror", sync) ELSE UNCHANGED <<versions, library>>
    /\ sync' = NotSyncing
    /\ UNCHANGED <<thread, titles, edits, ref, space, reader, cached, run>>

-----------------------------------------------------------------------------
(* DSH.                                                                    *)

\* A DSH session is imported once.
ImportNative ==
    /\ ~library["native"].there
    /\ Commit("native", None, 0, 0, IF space THEN "space" ELSE "nowhere", FALSE)
    /\ UNCHANGED <<thread, titles, edits, ref, space, reader, cached, sync, run>>

\* A run is lent the sessions that are not deleted, with what they are at that moment; a place that
\* is not there is none.
Prepare ==
    /\ MayStart /\ ~run.up
    /\ run' = [up |-> TRUE,
               base   |-> IF library["native"].dead THEN None ELSE library["native"].head,
               title  |-> library["native"].title,
               ws     |-> IF space THEN library["native"].ws ELSE "nowhere",
               parent |-> IF library["mirror"].dead THEN None ELSE library["mirror"].head]
    /\ UNCHANGED <<thread, titles, edits, versions, library, ref, space, reader, cached, sync>>

Close ==
    /\ run.up
    /\ run' = [up |-> FALSE, base |-> None, title |-> 0, ws |-> "nowhere", parent |-> None]
    /\ UNCHANGED <<thread, titles, edits, versions, library, ref, space, reader, cached, sync>>

\* Mutant: the base is not compared with the head.
AppendOnto ==
    /\ run.up /\ run.base # None /\ ~library["native"].tombstone
    /\ versions[run.base].body < MaxBody
    /\ Commit("native", run.base, versions[run.base].body + 1, run.title, run.ws, FALSE)
    /\ run' = [run EXCEPT !.base = Len(versions) + 1]
    /\ UNCHANGED <<thread, titles, edits, ref, space, reader, cached, sync>>

\* Mutant: the tombstone is not looked at.
AppendToDeleted ==
    /\ run.up /\ run.base # None /\ run.base = library["native"].head
    /\ Body("native") < MaxBody
    /\ Commit("native", run.base, Body("native") + 1, run.title, run.ws, FALSE)
    /\ run' = [run EXCEPT !.base = Len(versions) + 1]
    /\ UNCHANGED <<thread, titles, edits, ref, space, reader, cached, sync>>

\* An append onto the version the run has; another head, or a tombstone, refuses it.  The version
\* has the title the run was prepared with and the membership its workspace; the row is marked as
\* not deleted, whatever it was.
AppendDsh ==
    /\ run.up /\ run.base # None /\ run.base = library["native"].head /\ ~library["native"].tombstone
    /\ Body("native") < MaxBody
    /\ Commit("native", run.base, Body("native") + 1, run.title, run.ws, FALSE)
    /\ run' = [run EXCEPT !.base = Len(versions) + 1]
    /\ UNCHANGED <<thread, titles, edits, ref, space, reader, cached, sync>>

\* The first write to a mirror makes a session of DSH's own on the version the run was shown, with
\* that version's title.
Derive ==
    /\ run.up /\ run.parent # None /\ ~library["derived"].there /\ ~library["mirror"].tombstone
    /\ Commit("derived", run.parent, versions[run.parent].body + 1, versions[run.parent].title, "nowhere", FALSE)
    /\ run' = [run EXCEPT !.parent = None]
    /\ UNCHANGED <<thread, titles, edits, ref, space, reader, cached, sync>>

-----------------------------------------------------------------------------
(* The dashboard.                                                          *)

Dashboard ==
    /\ edits < MaxEdits /\ edits' = edits + 1
    /\ UNCHANGED <<thread, ref, reader, cached, sync, run>>

UpdateTitle(i) ==
    /\ library[i].there /\ titles < MaxTitles
    /\ titles' = titles + 1 /\ Retitle(i, titles')
    /\ Dashboard /\ UNCHANGED space

\* The workspace is a membership, no version.
UpdateWorkspace(i, ws) ==
    /\ library[i].there /\ ws # library[i].ws
    /\ library' = [library EXCEPT ![i].ws = ws]
    /\ Dashboard /\ UNCHANGED <<titles, versions, space>>

\* A deletion while a run has operations pending for the session marks the row and nothing else: no
\* tombstone, and it keeps its place.
DeletePending(i) ==
    /\ library[i].there /\ run.up
    /\ library' = [library EXCEPT ![i].dead = TRUE]
    /\ Dashboard /\ UNCHANGED <<titles, versions, space>>

\* With nothing pending a deletion makes the tombstone, which keeps the place; one that has one is
\* left as it is.
DeleteSession(i) ==
    /\ library[i].there /\ ~library[i].tombstone
    /\ library' = [library EXCEPT ![i].dead = TRUE, ![i].tombstone = TRUE, ![i].previous = library[i].ws,
                                  ![i].ws = "nowhere"]
    /\ Dashboard /\ UNCHANGED <<titles, versions, space>>

\* A restoration gives it back: the last tombstone's place, though it was resolved before, or the
\* present one where that has none.
RestoreSession(i) ==
    /\ library[i].dead
    /\ library' = [library EXCEPT ![i].dead = FALSE, ![i].tombstone = FALSE,
                     ![i].ws = IF library[i].previous # "nowhere" THEN library[i].previous ELSE @]
    /\ Dashboard /\ UNCHANGED <<titles, versions, space>>

DeleteWorkspace ==
    /\ space /\ space' = FALSE
    /\ library' = [i \in Ids |-> [library[i] EXCEPT !.ws = "nowhere"]]
    /\ Dashboard /\ UNCHANGED <<titles, versions>>

Next ==
    \/ Grow \/ Rename
    \/ Stamp \/ RetitleUnchanged \/ Remember \/ Forget \/ ReadTitle \/ SyncTitle
    \/ \E r \in Readers : ReadHead(r) \/ Observe(r) \/ GiveUp(r) \/ Apply(r)
    \/ ImportNative \/ Prepare \/ Close \/ AppendDsh \/ Derive
    \/ \E i \in Ids, ws \in Places : UpdateWorkspace(i, ws)
    \/ \E i \in Ids : UpdateTitle(i) \/ DeletePending(i) \/ DeleteSession(i) \/ RestoreSession(i)
    \/ DeleteWorkspace

Spec == Init /\ [][Next]_vars

-----------------------------------------------------------------------------
(* Properties.                                                             *)

\* No write is lost: a session's new head is a child of the head it replaces, whoever wrote it and
\* whenever they read.
Chained == \A i \in Ids : library[i].there /\ library'[i].head # library[i].head =>
    versions'[library'[i].head].parent = library[i].head

\* Imports that overlap, and a title sync between, never take the mirror back to an older body of
\* the thread, and nothing else writes its body.
Forward == library["mirror"].there =>
    LET now == versions'[library'["mirror"].head].body IN Body("mirror") <= now /\ now <= thread.body

\* What the observer passes over is in the library: a thread whose stamp it remembers has its body
\* in the mirror.
SkippedIsImported == cached = thread => library["mirror"].there /\ Body("mirror") = thread.body

\* The mirror's reference has its head's body and the fingerprint it was made of.
RefIsMirror == library["mirror"].there =>
    versions[ref.version].of = "mirror" /\ versions[ref.version].body = Body("mirror") /\ ref.body = Body("mirror")

\* A title somebody gave a DSH session stays until somebody gives another, though every append of a
\* run writes the title the run was prepared with.
TitleStays == library["native"].there /\ library'["native"].title # library["native"].title => titles' # titles

\* What somebody wrote is neither lost under a head made elsewhere nor undone by an old title, and
\* the mirror follows its thread forward only.
WritesAreKept == [][Chained /\ TitleStays /\ Forward]_vars

\* A session with a tombstone is deleted in its row too, so that no run is lent it: appends, which
\* mark their row as not deleted, and deletions that wait for a run's operations included.
TombstoneHolds == \A i \in Ids : library[i].tombstone => library[i].dead

\* What the observer passes over is imported, the mirror's reference has its head's body, and a
\* session with a tombstone is deleted in its row, whatever appends and deletions do meanwhile.
LibraryInv == TypeOK /\ RefIsMirror /\ TombstoneHolds /\ SkippedIsImported

\* A deletion stays until somebody restores the session: false of the code while it waits for a
\* run's operations.  The append it waits for marks the row as not deleted, and the session is back
\* until the deletion is asked for again.
DeletionStays == \A i \in Ids : library[i].dead /\ ~library'[i].dead => run' = run
DeletedIsKept == [][DeletionStays]_vars

\* A session whose deletion still waits comes back where it is: false of the code.  A tombstone
\* resolved long before still says where to.
PendingPlaceStays == \A i \in Ids :
    library[i].dead /\ ~library[i].tombstone /\ ~library'[i].dead /\ run' = run
        => library'[i].ws = library[i].ws
PendingPlaceIsKept == [][PendingPlaceStays]_vars

\* The same as `TitleStays` for a place: false of the code.  An append writes the workspace the run
\* was prepared with, so a session moved meanwhile moves back.
PlaceStays == library["native"].there /\ library'["native"].ws # library["native"].ws => run' = run
PlaceIsKept == [][PlaceStays]_vars

\* A member's workspace is there: false of the code.  A session deleted before its workspace is
\* restored into it.
PlaceIsThere == \A i \in Ids : library[i].ws = "space" => space

\* A thread whose stamp is remembered has its title in the mirror: false of the code.  The catalog
\* sync commits a title read earlier, and the observer passes the thread over.
SkippedTitleIsImported == cached = thread => library["mirror"].title = thread.title
=============================================================================
