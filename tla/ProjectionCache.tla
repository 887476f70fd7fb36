--------------------------- MODULE ProjectionCache ---------------------------
(***************************************************************************)
(* The retained projection of a branch                                     *)
(* (`packages/projection-lifecycle/src/persistent-cache.ts` over           *)
(* `materialize.ts`) and the change journal it follows                     *)
(* (`session-store/src/canonical-projection-source.ts`, the triggers of    *)
(* migrations 012 and 015).                                                *)
(*                                                                         *)
(* A run's preparation, close and recovery bring the cache up to date.     *)
(* One run holds the branch's lease, so one update runs at a time; the     *)
(* library changes under it at any moment, and it may fail or die between  *)
(* any two writes.                                                         *)
(***************************************************************************)
EXTENDS Naturals, FiniteSets, Sequences, SequencesExt

CONSTANTS Sessions, Workspaces,
          PageLimit,        \* CHANGE_PAGE_LIMIT
          Attempts,         \* loads a baseline tries
          MaxRevision,      \* bound: rows of the journal
          MaxUpgrades,      \* bound: changes of the adapter
          MaxInterrupts     \* bound: failures and deaths of an update

VARIABLES
    canon,      \* [Sessions -> [state, head, ws]]: the library
    names,      \* [Workspaces -> 0..1]: their definitions
    log,        \* canonical_change_log: the session each row is about
    adapter,    \* the adapter's fingerprint
    cache,      \* the cache root: its manifests, files, index and catalog
    apply,      \* the update under way
    dirty,      \* an update stopped after a write, and no baseline was built since
    interrupts

vars == <<canon, names, log, adapter, cache, apply, dirty, interrupts>>

Nothing  == [head |-> 0, ws |-> "none", by |-> 0]
Payloads == [head : 0..MaxRevision, ws : Workspaces \cup {"none"}, by : 0..MaxUpgrades + 1]
Points   == {"idle", "page", "load", "edit", "file", "index", "catalog", "seal",
             "before", "load-all", "after", "build", "aside", "swap"}
Idle     == [at |-> "idle", cursor |-> 0, target |-> 0, affected |-> {}, selected |-> [s \in {} |-> Nothing],
             wss |-> [w \in Workspaces |-> 0], todo |-> {}, tables |-> {},
             on |-> "none", attempt |-> 0, wrote |-> FALSE]

\* The files are of sessions and workspaces there are, the journal of sessions.
TypeOK ==
    /\ canon \in [Sessions -> [state : {"none", "live", "dead"}, head : 0..MaxRevision,
                           ws : Workspaces \cup {"none"}]]
    /\ names \in [Workspaces -> 0..1] /\ log \in Seq(Sessions) /\ adapter \in 1..MaxUpgrades + 1
    /\ cache.there \in BOOLEAN /\ cache.by \in 0..MaxUpgrades + 1 /\ cache.through \in 0..Len(log)
    /\ cache.digest \in [Sessions -> Payloads] /\ cache.file \in [Sessions -> Payloads]
    /\ cache.index \subseteq Sessions /\ cache.catalog \in [Sessions -> Payloads]
    /\ cache.names \in [Workspaces -> 0..1] /\ cache.wsFile \in [Workspaces -> 0..1]
    /\ apply.at \in Points /\ apply.cursor \in 0..Len(log) /\ apply.affected \subseteq Sessions
    /\ DOMAIN apply.selected \subseteq Sessions /\ dirty \in BOOLEAN

NoCache == [there |-> FALSE, by |-> 0, through |-> 0,
            digest |-> [s \in Sessions |-> Nothing], names |-> [w \in Workspaces |-> 0],
            file |-> [s \in Sessions |-> Nothing], index |-> {}, catalog |-> [s \in Sessions |-> Nothing],
            wsFile |-> [w \in Workspaces |-> 0]]

Init ==
    /\ canon = [s \in Sessions |-> [state |-> "none", head |-> 0, ws |-> "none"]]
    /\ names = [w \in Workspaces |-> 0] /\ log = <<>> /\ adapter = 1
    /\ cache = NoCache /\ apply = Idle /\ dirty = FALSE /\ interrupts = 0

\* What the adapter makes of a session: the base version, `updatedAt` and the workspace are in it.
Payload(s) == [head |-> canon[s].head, ws |-> canon[s].ws, by |-> adapter]
Shown(s)   == IF canon[s].state = "live" THEN Payload(s) ELSE Nothing

-----------------------------------------------------------------------------
(* The library.  A change and its journal rows are one transaction.        *)

Journalled(rows) ==
    /\ Len(log) + Len(rows) <= MaxRevision
    /\ log' = log \o rows
    /\ UNCHANGED <<adapter, cache, apply, dirty, interrupts>>

\* A new session, a new head (content or metadata), a tombstone, a restoration: each gives the
\* session a head or an `updatedAt` it never had, written here as one number.
Stamp(s, from, to) ==
    /\ canon[s].state = from
    /\ canon' = [canon EXCEPT ![s].state = to, ![s].head = @ + 1]
    /\ Journalled(<<s>>)
    /\ UNCHANGED names

\* A membership changes the workspace and nothing else of the session.
Move(s, w) ==
    /\ canon[s].state = "live" /\ canon[s].ws # w
    /\ canon' = [canon EXCEPT ![s].ws = w]
    /\ Journalled(<<s>>)
    /\ UNCHANGED names

\* Mutant: a definition's change leaves no row.
RenameUnjournalled(w) ==
    /\ Journalled(<<>>)
    /\ \E n \in 0..1 : n # names[w] /\ names' = [names EXCEPT ![w] = n]
    /\ UNCHANGED canon

\* A definition is journalled once for each member, deleted ones among them, in any order; one
\* without members leaves no row.
Rename(w) ==
    /\ \E rows \in SetToSeqs({s \in Sessions : canon[s].ws = w}) : Journalled(rows)
    /\ \E n \in 0..1 : n # names[w] /\ names' = [names EXCEPT ![w] = n]
    /\ UNCHANGED canon

\* Another version of the adapter is installed while no run is prepared.
Upgrade ==
    /\ apply.at = "idle" /\ adapter <= MaxUpgrades
    /\ adapter' = adapter + 1
    /\ UNCHANGED <<canon, names, log, cache, apply, dirty, interrupts>>

-----------------------------------------------------------------------------
(* An update.  Its own steps leave the library alone.                      *)

Library == UNCHANGED <<canon, names, log, adapter, interrupts>>

\* No manifest, another adapter's, or one ahead of the journal: built anew.
Stale == ~cache.there \/ cache.by # adapter \/ cache.through > Len(log)

Begin ==
    /\ apply.at = "idle"
    /\ apply' = IF Stale THEN [Idle EXCEPT !.at = "before"]
                ELSE [Idle EXCEPT !.at = "page", !.cursor = cache.through, !.target = Len(log)]
    /\ Library /\ UNCHANGED <<cache, dirty>>

\* A page of the journal; the end is read again with each.
Page ==
    /\ apply.at = "page" /\ apply.cursor < apply.target
    /\ LET last == IF apply.cursor + PageLimit < Len(log) THEN apply.cursor + PageLimit ELSE Len(log)
       IN  apply' = [apply EXCEPT !.cursor = last, !.target = Len(log),
                        !.affected = @ \cup {log[r] : r \in (apply.cursor + 1)..last}]
    /\ Library /\ UNCHANGED <<cache, dirty>>

\* Nothing changed: the cache is returned as its manifest describes it.
Unchanged ==
    /\ apply.at = "page" /\ apply.cursor >= apply.target /\ apply.affected = {}
    /\ apply' = Idle
    /\ Library /\ UNCHANGED <<cache, dirty>>

Gone(s)   == s \notin DOMAIN apply.selected
Target(s) == IF Gone(s) THEN Nothing ELSE apply.selected[s]

\* The affected sessions as they are now, which may be later than the cursor.  What is to be written
\* is what differs from the manifest: the writer never looks at a file.
Load ==
    /\ apply.at = "page" /\ apply.cursor >= apply.target /\ apply.affected # {}
    /\ apply' = [apply EXCEPT !.at = "edit", !.wss = names,
                    !.selected = [s \in {t \in apply.affected : canon[t].state = "live"} |-> Payload(s)],
                    !.todo = {s \in apply.affected : cache.digest[s] # Shown(s)},
                    !.tables = {w \in Workspaces : cache.names[w] # names[w]}]
    /\ Library /\ UNCHANGED <<cache, dirty>>

\* Removals come first, one the index does not have being taken for done; then the workspaces,
\* then the sessions, each in the selection's order.
Removals == {s \in apply.todo : Gone(s)}

RemoveNext(s) ==
    /\ apply.at = "edit" /\ s \in Removals
    /\ apply' = IF s \in cache.index THEN [apply EXCEPT !.at = "file", !.on = s]
                ELSE [apply EXCEPT !.todo = @ \ {s}]
    /\ Library /\ UNCHANGED <<cache, dirty>>

WriteWorkspace(w) ==
    /\ apply.at = "edit" /\ Removals = {} /\ w \in apply.tables
    /\ cache' = [cache EXCEPT !.wsFile[w] = apply.wss[w]]
    /\ apply' = [apply EXCEPT !.tables = @ \ {w}, !.wrote = TRUE]
    /\ Library /\ UNCHANGED dirty

WriteNext(s) ==
    /\ apply.at = "edit" /\ Removals = {} /\ apply.tables = {} /\ s \in apply.todo
    /\ apply' = [apply EXCEPT !.at = "file", !.on = s]
    /\ Library /\ UNCHANGED <<cache, dirty>>

\* replaceSession and removeSession: the file, the index, the catalog.
PutFile ==
    /\ apply.at = "file"
    /\ cache' = [cache EXCEPT !.file[apply.on] = Target(apply.on)]
    /\ apply' = [apply EXCEPT !.wrote = TRUE,
                    !.at = IF (apply.on \in cache.index) = Gone(apply.on) THEN "index" ELSE "catalog"]
    /\ Library /\ UNCHANGED dirty

PutIndex ==
    /\ apply.at = "index"
    /\ cache' = [cache EXCEPT !.index = IF Gone(apply.on) THEN @ \ {apply.on} ELSE @ \cup {apply.on}]
    /\ apply' = [apply EXCEPT !.at = "catalog"]
    /\ Library /\ UNCHANGED dirty

PutCatalog ==
    /\ apply.at = "catalog"
    /\ cache' = [cache EXCEPT !.catalog[apply.on] = Target(apply.on)]
    /\ apply' = [apply EXCEPT !.at = "edit", !.on = "none", !.todo = @ \ {apply.on}]
    /\ Library /\ UNCHANGED dirty

Digests == [s \in Sessions |-> IF s \in apply.affected THEN Target(s) ELSE cache.digest[s]]

\* Mutant: the manifest is written before the sessions.
SealEarly ==
    /\ apply.at = "edit" /\ Removals = {}
    /\ cache' = [cache EXCEPT !.through = apply.cursor, !.digest = Digests, !.names = apply.wss]
    /\ apply' = IF apply.todo = {} /\ apply.tables = {} THEN Idle ELSE apply
    /\ Library /\ UNCHANGED dirty

\* Last, the manifest, renamed into place: the cursor, not the journal's end.
Seal ==
    /\ apply.at = "edit" /\ apply.todo = {} /\ apply.tables = {}
    /\ cache' = [cache EXCEPT !.through = apply.cursor, !.digest = Digests, !.names = apply.wss]
    /\ apply' = Idle
    /\ Library /\ UNCHANGED dirty

-----------------------------------------------------------------------------
(* A baseline.                                                             *)

ReadBefore ==
    /\ apply.at = "before" /\ apply.attempt < Attempts
    /\ apply' = [apply EXCEPT !.at = "load-all", !.cursor = Len(log), !.attempt = @ + 1]
    /\ Library /\ UNCHANGED <<cache, dirty>>

LoadAll ==
    /\ apply.at = "load-all"
    /\ apply' = [apply EXCEPT !.at = "after", !.wss = names,
                    !.selected = [s \in {t \in Sessions : canon[t].state = "live"} |-> Payload(s)]]
    /\ Library /\ UNCHANGED <<cache, dirty>>

\* A journal that moved meanwhile: the load is tried again.
ReadAfter ==
    /\ apply.at = "after"
    /\ apply' = [apply EXCEPT !.at = IF Len(log) = apply.cursor THEN "build" ELSE "before"]
    /\ Library /\ UNCHANGED <<cache, dirty>>

GiveUp ==
    /\ apply.at = "before" /\ apply.attempt = Attempts
    /\ apply' = Idle
    /\ Library /\ UNCHANGED <<cache, dirty>>

\* Built, inspected, verified and sealed in a directory of its own, then exchanged with the old
\* root; a second rename that fails, rather than dies, is undone and is an interruption before it.
MoveAside ==
    /\ apply.at = "build"
    /\ apply' = [apply EXCEPT !.at = "swap"]
    /\ cache' = NoCache
    /\ Library /\ UNCHANGED dirty

Swap ==
    /\ apply.at = "swap"
    /\ LET made == [s \in Sessions |-> Target(s)]
       IN  cache' = [there |-> TRUE, by |-> adapter, through |-> apply.cursor, digest |-> made,
                     names |-> apply.wss, file |-> made, index |-> DOMAIN apply.selected,
                     catalog |-> made, wsFile |-> apply.wss]
    /\ apply' = Idle /\ dirty' = FALSE
    /\ Library

\* An update fails (a session the adapter refuses, an I/O error) or dies with its process.
Interrupt ==
    /\ apply.at # "idle" /\ interrupts < MaxInterrupts
    /\ interrupts' = interrupts + 1
    /\ apply' = Idle /\ dirty' = (dirty \/ apply.wrote)
    /\ UNCHANGED <<canon, names, log, adapter, cache>>

Next ==
    \/ \E s \in Sessions : Stamp(s, "none", "live") \/ Stamp(s, "live", "live")
                           \/ Stamp(s, "live", "dead") \/ Stamp(s, "dead", "live")
    \/ \E s \in Sessions, w \in Workspaces \cup {"none"} : Move(s, w)
    \/ \E w \in Workspaces : Rename(w) \/ WriteWorkspace(w)
    \/ Upgrade \/ Begin \/ Page \/ Unchanged \/ Load
    \/ \E s \in Sessions : RemoveNext(s) \/ WriteNext(s)
    \/ PutFile \/ PutIndex \/ PutCatalog \/ Seal
    \/ ReadBefore \/ LoadAll \/ ReadAfter \/ GiveUp \/ MoveAside \/ Swap \/ Interrupt

Spec == Init /\ [][Next]_vars

-----------------------------------------------------------------------------
(* Properties.                                                             *)

\* No journal row about the session after the cursor: the cache owes it nothing more.
Settled(s) == cache.there /\ cache.by = adapter /\ \A r \in (cache.through + 1)..Len(log) : log[r] # s

\* The manifest describes every settled session as the library has it, however updates, changes
\* between their pages and loads, and interruptions fell: no change is skipped by the cursor.
ManifestIsCurrent == \A s \in Sessions : Settled(s) => cache.digest[s] = Shown(s)

\* Between updates file, index and catalog have every settled live session with its head, interrupted
\* updates before included: nobody reads or continues a session on an older body than the cursor
\* says.
ContentIsCurrent == apply.at = "idle" => \A s \in Sessions :
    Settled(s) /\ canon[s].state = "live" =>
        cache.file[s].head = canon[s].head /\ s \in cache.index /\ cache.catalog[s].head = canon[s].head

\* Without an interruption since the last baseline everything there is is what the library has:
\* workspaces with a settled member too.
CacheIsCurrent == apply.at = "idle" /\ ~dirty => \A s \in Sessions : Settled(s) =>
    /\ cache.file[s] = Shown(s) /\ cache.catalog[s] = Shown(s)
    /\ canon[s].state = "live" => s \in cache.index
    /\ canon[s].state = "live" /\ canon[s].ws \in Workspaces => cache.wsFile[canon[s].ws] = names[canon[s].ws]

\* The same after interruptions: false of the code.  A membership written by an update that then
\* stopped, and taken back, is what the manifest says, so the file is passed over; a session written
\* and deleted the same way is not in the manifest, so it stays; a removal that stopped before the
\* catalog is taken for done.
InterruptedIsCurrent == apply.at = "idle" => \A s \in Sessions : Settled(s) =>
    cache.catalog[s] = Shown(s) /\ (s \in cache.index => cache.file[s] = Shown(s))
=============================================================================
