---------------------------- MODULE ProjectMapping ----------------------------
(***************************************************************************)
(* Which projects of Codex the library mirrors: the saved list and the     *)
(* active one (`apps/engine/src/codex-project-mapping.ts`), the import     *)
(* that keeps to it (`codex-canonical-import.ts`,                          *)
(* `sqlite-codex-project-port.ts`), the reconciliation when a run starts   *)
(* (`codex-project-mapping-reconcile.ts`) and what else makes, deletes and *)
(* restores sessions meanwhile (`session-maintenance-commands.ts`,         *)
(* `runtime-project-resolver.ts`, `internal-codex-reconcile.ts`).          *)
(*                                                                         *)
(* A list that is saved takes effect at the next start of DSH: what it     *)
(* leaves out is deleted with a marker, and what it takes in again is      *)
(* restored by that marker.  Users delete and restore too, Codex moves     *)
(* threads between projects, and an import may be under way.               *)
(***************************************************************************)
EXTENDS Naturals, Sequences, FiniteSets

CONSTANTS Projects,   \* projects of Codex
          Renamed,    \* the one that had a server's identity before
          Threads,    \* threads of Codex
          Children,   \* sessions a run may derive from a thread's mirror
          Natives,    \* sessions of DSH's own, in the directory of Renamed
          MaxMoves, MaxSaves, MaxOrders   \* bounds: moves in Codex, lists saved, commands of the user

VARIABLES
    home,       \* [Threads -> project in Codex, or outside]
    policy,     \* [keys, active, activeKeys]: the list, the revision that is active (0: none), its list
    saved,      \* the lists saved so far
    session,    \* [Sessions -> [there, dead, tombstone, marker, project]]
    shown,      \* logical projects that are not hidden
    pass,       \* the import under way: <<>> or <<[thread, scope, project]>>
    activation, \* the activation under way: <<>> or <<[session, shown, admitted]>>
    up,         \* whether a run is up
    wish,       \* [Sessions -> the user's last command]
    admitted,   \* [Threads -> project its mirror was last taken in for]
    moves, orders

vars == <<home, policy, saved, session, shown, pass, activation, up, wish, admitted, moves, orders>>

Sessions == Threads \cup Children \cup Natives
Homes    == Projects \cup {"outside"}
Logical  == Homes \cup {"server", "local"}   \* server: Renamed under its former identity
Parent   == [c \in Children |-> CHOOSE t \in Threads : TRUE]

Row == [there : BOOLEAN, dead : BOOLEAN, tombstone : {"none", "active", "restored"},
        marker : {"none", "current", "stale"}, project : Logical]

TypeOK ==
    /\ home \in [Threads -> Homes]
    /\ policy \in [keys : SUBSET Projects, active : 0..MaxSaves, activeKeys : SUBSET Projects]
    /\ saved \in UNION {[1..n -> SUBSET Projects] : n \in 0..MaxSaves}
    /\ session \in [Sessions -> Row] /\ shown \subseteq Logical
    /\ \A i \in DOMAIN pass : pass[i] \in [thread : Threads, scope : 0..MaxSaves, project : Homes]
    /\ \A i \in DOMAIN activation : activation[i] \in
          [session : [Sessions -> Row], shown : SUBSET Logical, admitted : [Threads -> Homes]]
    /\ up \in BOOLEAN /\ wish \in [Sessions -> {"none", "deleted", "restored"}]
    /\ admitted \in [Threads -> Homes]
    /\ moves \in 0..MaxMoves /\ orders \in 0..MaxOrders

NoRow == [there |-> FALSE, dead |-> FALSE, tombstone |-> "none", marker |-> "none", project |-> "outside"]

\* A native session may be older than the project's present identity.
Init ==
    /\ home \in [Threads -> Homes] /\ saved = <<>>
    /\ policy = [keys |-> {}, active |-> 0, activeKeys |-> {}]
    /\ \E old \in SUBSET Natives :
          session = [s \in Sessions |->
                       IF s \in old THEN [NoRow EXCEPT !.there = TRUE, !.project = "server"] ELSE NoRow]
    /\ shown = {session[n].project : n \in {m \in Natives : session[m].there}}
    /\ pass = <<>> /\ activation = <<>> /\ up = FALSE
    /\ wish = [s \in Sessions |-> "none"] /\ admitted = [t \in Threads |-> "outside"]
    /\ moves = 0 /\ orders = 0

Live(rows, s) == rows[s].there /\ ~rows[s].dead

\* Writes are one at a time: none while an activation holds the queue.
QueueIsFree == activation = <<>>

-----------------------------------------------------------------------------
(* Codex and the list.                                                     *)

Move(t, p) ==
    /\ moves < MaxMoves /\ p # home[t]
    /\ home' = [home EXCEPT ![t] = p] /\ moves' = moves + 1
    /\ UNCHANGED <<policy, saved, session, shown, pass, activation, up, wish, admitted, orders>>

\* Mutant: a list is saved while an activation is under way.
SaveAnyTime(keys) ==
    /\ Len(saved) < MaxSaves
    /\ saved' = Append(saved, keys) /\ policy' = [policy EXCEPT !.keys = keys]
    /\ UNCHANGED <<home, session, shown, pass, activation, up, wish, admitted, moves, orders>>

\* A list is saved on the revision it was read at, which is the number of lists so far; any other
\* save is refused.
Save(keys) ==
    /\ QueueIsFree /\ Len(saved) < MaxSaves
    /\ saved' = Append(saved, keys) /\ policy' = [policy EXCEPT !.keys = keys]
    /\ UNCHANGED <<home, session, shown, pass, activation, up, wish, admitted, moves, orders>>

-----------------------------------------------------------------------------
(* Imports.                                                                *)

\* Membership is what Codex says, not where a thread works; without a list everything is imported.
InScope(t) == policy.active = 0 \/ home[t] \in policy.activeKeys

Select(t) ==
    /\ pass = <<>> /\ InScope(t)
    /\ pass' = <<[thread |-> t, scope |-> policy.active, project |-> home[t]]>>
    /\ UNCHANGED <<home, policy, saved, session, shown, activation, up, wish, admitted, moves, orders>>

\* A mirror and its place among the projects; what is deleted stays deleted.
Mirrored(rows, t, p) == [rows EXCEPT ![t].there = TRUE, ![t].project = p]

\* Mutant: list and membership are not looked at again in the queue.
CommitUnchecked ==
    /\ pass # <<>> /\ QueueIsFree
    /\ LET p == pass[1] IN
          /\ session' = Mirrored(session, p.thread, p.project)
          /\ shown' = shown \cup {p.project}
          /\ admitted' = [admitted EXCEPT ![p.thread] = p.project]
    /\ pass' = <<>>
    /\ UNCHANGED <<home, policy, saved, activation, up, wish, moves, orders>>

\* In the queue: another list, or with a list another project, ends the import.
Commit ==
    /\ pass # <<>> /\ QueueIsFree
    /\ LET p == pass[1] IN
          IF p.scope = policy.active /\ (policy.active # 0 => home[p.thread] = p.project)
          THEN /\ session' = Mirrored(session, p.thread, p.project)
               /\ shown' = shown \cup {p.project}
               /\ admitted' = [admitted EXCEPT ![p.thread] = p.project]
          ELSE UNCHANGED <<session, shown, admitted>>
    /\ pass' = <<>>
    /\ UNCHANGED <<home, policy, saved, activation, up, wish, moves, orders>>

-----------------------------------------------------------------------------
(* The start of a run.                                                     *)

\* Every thread of the list is imported, in the activation's own transaction.
BeginActivation ==
    /\ QueueIsFree /\ ~up /\ Len(saved) > 0
    /\ LET taken == {t \in Threads : home[t] \in policy.keys} IN
          activation' = <<[
              session  |-> [s \in Sessions |-> IF s \in taken THEN Mirrored(session, s, home[s])[s] ELSE session[s]],
              shown    |-> shown \cup {home[t] : t \in taken},
              admitted |-> [t \in Threads |-> IF t \in taken THEN home[t] ELSE admitted[t]]]>>
    /\ UNCHANGED <<home, policy, saved, session, shown, pass, up, wish, admitted, moves, orders>>

\* The transaction ends with nothing: a thread that came into a listed project meanwhile and has no
\* mirror, a directory that cannot be read, the end of the Engine.
AbandonActivation ==
    /\ activation # <<>> /\ activation' = <<>>
    /\ UNCHANGED <<home, policy, saved, session, shown, pass, up, wish, admitted, moves, orders>>

\* Native sessions under the former identity belong to the project under its new one.
Aliased(rows) ==
    [s \in Sessions |-> IF rows[s].project = "server" /\ Renamed \in policy.keys
                        THEN [rows[s] EXCEPT !.project = Renamed] ELSE rows[s]]

\* With a session goes what was derived from it.
WithChildren(rows, set) == set \cup {c \in Children : rows[c].there /\ Parent[c] \in set}

\* What the list grants: its threads as they are now, native sessions of its projects.
Restorable(rows) ==
    WithChildren(rows, {t \in Threads : home[t] \in policy.keys}
                         \cup {n \in Natives : rows[n].there /\ rows[n].project \in policy.keys})

\* Mutant: local sessions are not spared.
KeptOfList(rows) == Restorable(rows)

\* Local projects are nobody's mirror: what lives there is kept.
Kept(rows) == Restorable(rows) \cup {n \in Natives : Live(rows, n) /\ rows[n].project = "local"}

RemovedFrom(rows) ==
    [s \in Sessions |-> IF Live(rows, s) /\ s \notin Kept(rows)
                        THEN [rows[s] EXCEPT !.dead = TRUE, !.tombstone = "active", !.marker = "current"]
                        ELSE rows[s]]

\* Mutant: whatever has a tombstone and is in the list comes back.
RevivedByList(rows, list) ==
    [s \in Sessions |-> IF rows[s].dead /\ rows[s].tombstone = "active" /\ s \in list
                        THEN [rows[s] EXCEPT !.dead = FALSE, !.tombstone = "restored", !.marker = "none"]
                        ELSE rows[s]]

\* The marker is of the tombstone that is there.
Revived(rows, list) ==
    [s \in Sessions |-> IF rows[s].dead /\ rows[s].tombstone = "active" /\ rows[s].marker = "current" /\ s \in list
                        THEN [rows[s] EXCEPT !.dead = FALSE, !.tombstone = "restored", !.marker = "none"]
                        ELSE rows[s]]

\* What was derived is grouped with what it was derived from.
Regrouped(rows, keep) ==
    [s \in Sessions |-> IF s \in Children /\ s \in keep THEN [rows[s] EXCEPT !.project = rows[Parent[s]].project]
                        ELSE rows[s]]

\* The directories are read again: a listed thread without a mirror abandons it.  Then the list is
\* the active one, projects without a live session are hidden, and the run starts in the same turn
\* of the queue.
Activate ==
    /\ activation # <<>>
    /\ \A t \in Threads : home[t] \in policy.keys => activation[1].session[t].there
    /\ LET rows == Aliased(activation[1].session)
           keep == Kept(rows)
           done == Regrouped(Revived(RemovedFrom(rows), Restorable(rows)), keep)
       IN /\ session' = done
          /\ shown' = {p \in Logical : \E s \in Sessions : Live(done, s) /\ done[s].project = p}
          /\ admitted' = [t \in Threads |-> IF home[t] \in policy.keys THEN home[t] ELSE activation[1].admitted[t]]
    /\ policy' = [policy EXCEPT !.active = Len(saved), !.activeKeys = policy.keys]
    /\ wish' = [s \in Sessions |-> IF wish[s] = "restored" THEN "none" ELSE wish[s]]
    /\ activation' = <<>> /\ up' = TRUE
    /\ UNCHANGED <<home, saved, pass, moves, orders>>

\* Without a list a run starts at once.
Start ==
    /\ QueueIsFree /\ ~up /\ saved = <<>> /\ up' = TRUE
    /\ UNCHANGED <<home, policy, saved, session, shown, pass, activation, wish, admitted, moves, orders>>

End ==
    /\ QueueIsFree /\ up /\ up' = FALSE
    /\ UNCHANGED <<home, policy, saved, session, shown, pass, activation, wish, admitted, moves, orders>>

\* The first write to a mirror: the child has the mirror's project.
Derive(c) ==
    /\ QueueIsFree /\ up /\ ~session[c].there /\ Live(session, Parent[c])
    /\ session' = [session EXCEPT ![c].there = TRUE, ![c].project = session[Parent[c]].project]
    /\ UNCHANGED <<home, policy, saved, shown, pass, activation, up, wish, admitted, moves, orders>>

\* A session begun in the project's directory belongs to the one project that is shown there, and
\* to a local one when none is; two are refused.
Create(n) ==
    LET there == shown \cap {Renamed, "local"} IN
    /\ QueueIsFree /\ up /\ ~session[n].there /\ Cardinality(there) < 2
    /\ \E p \in (IF there = {} THEN {"local"} ELSE there) :
          /\ session' = [session EXCEPT ![n].there = TRUE, ![n].project = p]
          /\ shown' = shown \cup {p}
    /\ UNCHANGED <<home, policy, saved, pass, activation, up, wish, admitted, moves, orders>>

-----------------------------------------------------------------------------
(* The user.                                                               *)

Command == /\ QueueIsFree /\ orders < MaxOrders /\ orders' = orders + 1
           /\ UNCHANGED <<home, policy, saved, pass, activation, up, admitted, moves>>

\* A session with writes that wait in a run is only taken out of sight.
DeletePending(s) ==
    /\ up /\ Live(session, s)
    /\ session' = [session EXCEPT ![s].dead = TRUE] /\ wish' = [wish EXCEPT ![s] = "deleted"]
    /\ Command /\ UNCHANGED shown

\* A new tombstone: a marker is no longer its own.  What has one already is left as it is.
Delete(s) ==
    /\ session[s].there /\ session[s].tombstone # "active"
    /\ session' = [session EXCEPT ![s].dead = TRUE, ![s].tombstone = "active",
                                  ![s].marker = IF @ = "none" THEN "none" ELSE "stale"]
    /\ wish' = [wish EXCEPT ![s] = "deleted"]
    /\ Command /\ UNCHANGED shown

\* The project comes back into sight with it.
Restore(s) ==
    /\ session[s].dead
    /\ session' = [session EXCEPT ![s].dead = FALSE,
                                  ![s].tombstone = IF @ = "none" THEN "none" ELSE "restored"]
    /\ wish' = [wish EXCEPT ![s] = "restored"]
    /\ shown' = shown \cup {session[s].project}
    /\ Command

\* The tool that takes Codex's internal threads out, with the Engine stopped; it cannot delete what
\* has ever had a tombstone.
ReconcileInternal(t) ==
    /\ ~up /\ pass = <<>> /\ Live(session, t) /\ session[t].tombstone = "none"
    /\ session' = [session EXCEPT ![t].dead = TRUE, ![t].tombstone = "active"]
    /\ wish' = [wish EXCEPT ![t] = "deleted"]
    /\ Command /\ UNCHANGED shown

Next ==
    \/ \E t \in Threads : Select(t) \/ ReconcileInternal(t) \/ \E p \in Homes : Move(t, p)
    \/ \E keys \in SUBSET Projects : Save(keys)
    \/ Commit \/ BeginActivation \/ AbandonActivation \/ Activate \/ Start \/ End
    \/ \E c \in Children : Derive(c)
    \/ \E n \in Natives : Create(n)
    \/ \E s \in Sessions : DeletePending(s) \/ Delete(s) \/ Restore(s)

Spec == Init /\ [][Next]_vars

-----------------------------------------------------------------------------
(* Properties.                                                             *)

\* No list is lost, and the active one is what was saved under its revision.
SavedIsKept ==
    /\ policy.keys = (IF saved = <<>> THEN {} ELSE saved[Len(saved)])
    /\ policy.activeKeys = (IF policy.active = 0 THEN {} ELSE saved[policy.active])

\* What a user deleted stays deleted, whichever lists come and go, until the user restores it.
DeletedStaysDeleted == \A s \in Sessions : wish[s] = "deleted" => session[s].dead

\* What a list took out can come back with a list: its marker is its tombstone's.
RemovalIsReversible == \A s \in Sessions : session[s].dead /\ wish[s] # "deleted" =>
    session[s].tombstone = "active" /\ session[s].marker = "current"

\* A mirror that is live was taken in for a project of the active list, though imports begun under
\* another list end later; or the user restored it since the list took effect.
LiveIsInScope == \A t \in Threads :
    policy.active # 0 /\ Live(session, t) => admitted[t] \in policy.activeKeys \/ wish[t] = "restored"

\* No list takes a session of a local project.
LocalIsKept == \A n \in Natives : session[n].project = "local" /\ session[n].dead => wish[n] = "deleted"

\* A live session is in a project one can see.
LiveIsShown == \A s \in Sessions : Live(session, s) => session[s].project \in shown

\* One directory, one project: false of the code.  A session begun in a project's directory while
\* the project is hidden makes a local one there; listed again both are shown, and no more sessions
\* begin in it.
DirectoryIsOne == ~({Renamed, "local"} \subseteq shown)
=============================================================================
