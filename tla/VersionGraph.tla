----------------------------- MODULE VersionGraph -----------------------------
(***************************************************************************)
(* The versions of one logical session, as its readers see them: the graph *)
(* of `session-store/repository.ts` in pages ordered by creation time, its *)
(* algorithms (`session-domain/graph.ts`), and those who read it while     *)
(* scans and applied plans add to it: a comparison of two heads            *)
(* (`apps/engine/src/engine.ts`) and a resolution of two versions by a     *)
(* third with both as parents (`continuation-engine/src/service.ts`).      *)
(*                                                                         *)
(* A version is its place in the order of the pages.  The observation it   *)
(* carries may be older than versions already stored, and what a           *)
(* resolution takes from its parents' times ties with them, so a new one   *)
(* comes at any place.  Ties between merge bases go by the same order: in   *)
(* the code by the id, a hash.  Nothing removes a version.                 *)
(***************************************************************************)
EXTENDS Naturals, Sequences, FiniteSets, SequencesExt, FiniteSetsExt

CONSTANTS Ids,        \* versions, in the order of the pages
          Bindings,   \* the session's places on the platforms
          PageLimit,
          Histories   \* what is stored at first: parents, head, and the versions yet to come (a bound)

NoId == 0

VARIABLES
    parents,    \* session_versions and version_parents: [versions stored -> their parents]
    head,       \* platform_refs: [Bindings -> version]
    free,       \* versions yet to come
    reader      \* the comparison or resolution under way

vars == <<parents, head, free, reader>>

Stored   == DOMAIN parents
Resting  == [at |-> "idle"]
Sides    == {"left", "right"}
Pairs    == [Sides -> Ids]

TypeOK ==
    /\ Stored \subseteq Ids /\ free \subseteq Ids \ Stored
    /\ \A v \in Stored : Len(parents[v]) <= 2 /\ ToSet(parents[v]) \subseteq Stored
    /\ head \in [Bindings -> Stored \cup {NoId}]
    /\ reader.at \in {"idle", "sources", "graph", "loaded", "refused", "missing", "decided"}

Init ==
    /\ \E h \in Histories : parents = h.parents /\ head = h.head /\ free = h.free
    /\ reader = Resting

(***************************************************************************)
(* The graph                                                               *)
(***************************************************************************)
\* getGraphPage: the rows from `offset` on, as they stand at this moment.
Place(v) == Cardinality({w \in Stored : w < v})
Page(offset) == {v \in Stored : Place(v) \in offset..offset + PageLimit - 1}
LastPage(offset) == Cardinality(Stored) <= offset + PageLimit
\* Mutant: the row that was read to see whether there is more is passed over.
CursorPastProbe(offset) == offset + PageLimit + 1
Cursor(offset) == offset + PageLimit

\* The constructor of VersionGraph refuses a list with a version twice or without one of its parents;
\* what it also refuses, a third parent, the same twice, a cycle, no list of stored versions has.
Listed(pages) == UNION ToSet(pages)
Accepted(pages) ==
    /\ \A i, j \in DOMAIN pages : i # j => pages[i] \cap pages[j] = {}
    /\ \A v \in Listed(pages) : ToSet(parents[v]) \subseteq Listed(pages)

Far == Cardinality(Ids) + 1

\* One round of the search: a parent reached on a shorter way is (again) put at the end of the queue.
Reach(s, p, d) == IF d >= s.far[p] THEN s ELSE [s EXCEPT !.far[p] = d, !.queue = Append(@, p)]
Visit(s) ==
    LET id == s.queue[s.index]
    IN  [FoldLeft(LAMBDA t, p : Reach(t, p, s.far[id] + 1), s, parents[id]) EXCEPT !.index = @ + 1]

\* ancestorDistances: breadth first from `start` over its parents.
Distances(start) ==
    LET first == [far |-> [v \in Stored |-> IF v = start THEN 0 ELSE Far], queue |-> <<start>>, index |-> 1]
        after[n \in Nat] == IF n = 0 THEN first
                            ELSE LET s == after[n - 1] IN IF s.index > Len(s.queue) THEN s ELSE Visit(s)
    IN  after[2 * Cardinality(Stored)].far

IsAncestor(v, w) == Distances(w)[v] < Far

\* Mutant: any common ancestor will do.
MergeBaseAny(v, w) ==
    LET common == {u \in Stored : IsAncestor(u, v) /\ IsAncestor(u, w)}
    IN  IF common = {} THEN NoId ELSE Min(common)

\* findMergeBase: the common ancestor with the least distance to both together, the first of such.
MergeBase(v, w) ==
    LET left == Distances(v)  right == Distances(w)
        common == {u \in Stored : left[u] < Far /\ right[u] < Far}
        best == {u \in common : \A t \in common : left[u] + right[u] <= left[t] + right[t]}
    IN  IF best = {} THEN NoId ELSE Min(best)

Classify(source, target) ==
    CASE source = target -> [kind |-> "equal"]
      [] source # target /\ IsAncestor(source, target) -> [kind |-> "target-ahead"]
      [] source # target /\ IsAncestor(target, source) -> [kind |-> "source-ahead"]
      [] OTHER -> IF MergeBase(source, target) = NoId THEN [kind |-> "unrelated"]
                  ELSE [kind |-> "diverged", base |-> MergeBase(source, target)]

(***************************************************************************)
(* Those who add versions.                                                 *)
(***************************************************************************)
Put(v, above) ==
    /\ free' = free \ {v}
    /\ parents' = [w \in Stored \cup {v} |-> IF w = v THEN above ELSE parents[w]]
OnTopOf(h) == IF h = NoId THEN <<>> ELSE <<h>>

\* A scan of a changed session: it looks for the body of its head on the first page only, and what it
\* saw comes on top of that head (Synchronisation has the scans that race).
Scan(b) ==
    /\ head[b] # NoId => head[b] \in Page(0)
    /\ \E v \in free : Put(v, OnTopOf(head[b])) /\ head' = [head EXCEPT ![b] = v]
    /\ UNCHANGED reader

\* An applied plan: the target is read back and its version stored, then both heads advance to it,
\* unless one of them has moved since the plan was made.
ApplyPlan ==
    /\ \E b, c \in Bindings, v \in free :
          /\ b # c /\ head[b] # NoId
          /\ Put(v, OnTopOf(head[c]))
          /\ head' \in {head, [head EXCEPT ![b] = v, ![c] = v]}
    /\ UNCHANGED reader

(***************************************************************************)
(* Those who read.                                                         *)
(***************************************************************************)
Answer(state) == reader' = [reader EXCEPT !.at = state]
Looking == [offset |-> 0, found |-> FALSE]

\* diff: the two heads, then the whole graph in one read, then the bodies.
BeginDiff ==
    /\ reader = Resting
    /\ \E b, c \in Bindings :
          /\ b # c /\ head[b] # NoId /\ head[c] # NoId
          /\ reader' = [at |-> "graph", kind |-> "diff", pair |-> [left |-> head[b], right |-> head[c]],
                        look |-> [s \in Sides |-> Looking], offset |-> 0, pages |-> <<>>, start |-> Stored,
                        relation |-> [kind |-> "none"]]
    /\ UNCHANGED <<parents, head, free>>

\* getGraph: all rows at once.
ReadGraph ==
    /\ reader.at = "graph" /\ reader.kind = "diff"
    /\ reader' = IF ToSet(reader.pair) \subseteq Stored
                 THEN [reader EXCEPT !.at = "sources", !.relation = Classify(reader.pair.left, reader.pair.right)]
                 ELSE [reader EXCEPT !.at = "missing"]
    /\ UNCHANGED <<parents, head, free>>

\* prepareResolution: both versions are looked for, page by page.
BeginResolution ==
    /\ reader = Resting
    /\ \E pair \in [Sides -> Stored] :
          /\ pair.left # pair.right
          /\ reader' = [at |-> "sources", kind |-> "resolve", pair |-> pair,
                        look |-> [s \in Sides |-> Looking], offset |-> 0, pages |-> <<>>, start |-> Stored,
                        relation |-> [kind |-> "none"]]
    /\ UNCHANGED <<parents, head, free>>

\* loadSource, loadSession
LookForSource(s) ==
    /\ reader.at = "sources" /\ ~reader.look[s].found
    /\ LET offset == reader.look[s].offset
       IN  reader' = IF reader.pair[s] \in Page(offset) THEN [reader EXCEPT !.look[s].found = TRUE]
                     ELSE IF LastPage(offset) THEN [reader EXCEPT !.at = "missing"]
                     ELSE [reader EXCEPT !.look[s].offset = Cursor(offset)]
    /\ UNCHANGED <<parents, head, free>>

BothFound ==
    /\ reader.at = "sources" /\ \A s \in Sides : reader.look[s].found
    /\ Answer(IF reader.kind = "diff" THEN "decided" ELSE "graph")
    /\ UNCHANGED <<parents, head, free>>

\* loadGraph: pages until the last.
LoadPage ==
    /\ reader.at = "graph" /\ reader.kind = "resolve"
    /\ LET pages == Append(reader.pages, Page(reader.offset))
       IN  reader' = IF ~LastPage(reader.offset)
                     THEN [reader EXCEPT !.pages = pages, !.offset = Cursor(@)]
                     ELSE [reader EXCEPT !.pages = pages, !.at = IF Accepted(pages) THEN "loaded" ELSE "refused"]
    /\ UNCHANGED <<parents, head, free>>

\* Mutant: one that is ahead of the other is resolved too.
DecideRelated ==
    /\ reader.at = "loaded"
    /\ LET relation == Classify(reader.pair.left, reader.pair.right)
       IN  reader' = [reader EXCEPT !.relation = relation,
                                    !.at = IF relation.kind = "unrelated" THEN "refused" ELSE "decided"]
    /\ UNCHANGED <<parents, head, free>>

\* The versions must have diverged in the graph as it was loaded.
Decide ==
    /\ reader.at = "loaded"
    /\ LET relation == Classify(reader.pair.left, reader.pair.right)
       IN  reader' = [reader EXCEPT !.relation = relation,
                                    !.at = IF relation.kind = "diverged" THEN "decided" ELSE "refused"]
    /\ UNCHANGED <<parents, head, free>>
\* createResolutionVersion: the version is named by its parents and what they hold, so a second
\* resolution of the same two finds it.
CreateResolution ==
    /\ reader.at = "decided" /\ reader.kind = "resolve"
    /\ LET above == <<reader.pair.left, reader.pair.right>>
       IN  IF \E v \in Stored : parents[v] = above THEN UNCHANGED <<parents, free>> ELSE \E v \in free : Put(v, above)
    /\ reader' = Resting
    /\ UNCHANGED head

EndRead ==
    /\ reader.at \in {"refused", "missing", "decided"} /\ (reader.at = "decided" => reader.kind = "diff")
    /\ reader' = Resting
    /\ UNCHANGED <<parents, head, free>>

Next ==
    \/ (\E b \in Bindings : Scan(b)) \/ ApplyPlan
    \/ BeginDiff \/ ReadGraph \/ BeginResolution
    \/ (\E s \in Sides : LookForSource(s)) \/ BothFound
    \/ LoadPage \/ Decide \/ CreateResolution \/ EndRead

Spec == Init /\ [][Next]_vars

(***************************************************************************)
(* Properties                                                              *)
(***************************************************************************)
\* The versions n steps above v, and at what distance the nearest way to one leads.
Levels(v) ==
    LET level[n \in 0..Far] == IF n = 0 THEN {v} ELSE UNION {ToSet(parents[w]) : w \in level[n - 1]}
    IN  level
Above(v) == UNION Range(Levels(v))
Nearest(levels, u) == Min({n \in DOMAIN levels : u \in levels[n]})

\* What a comparison or resolution says of two versions, from pages read while others were added, is
\* what the whole graph says by the definition of ancestors, then and ever after; a merge base is a
\* nearest common ancestor (engine.ts diff, service.ts prepareResolution, graph.ts).
RelationIsTrue ==
    LET v == reader.pair.left  w == reader.pair.right  said == reader.relation
        overV == Levels(v)  overW == Levels(w)
        aboveV == UNION Range(overV)  aboveW == UNION Range(overW)
        together == [u \in aboveV \cap aboveW |-> Nearest(overV, u) + Nearest(overW, u)]
    IN  reader.at \in {"sources", "decided"} /\ said.kind # "none" =>
           /\ said.kind = "equal" <=> v = w
           /\ said.kind = "target-ahead" <=> v # w /\ v \in aboveW
           /\ said.kind = "source-ahead" <=> v # w /\ w \in aboveV
           /\ said.kind = "unrelated" <=> aboveV \cap aboveW = {}
           /\ said.kind = "diverged" =>
                 /\ said.base \in DOMAIN together
                 /\ \A u \in DOMAIN together : together[said.base] <= together[u]

\* A load that is accepted has every version there was when it began, and all the ancestors of what it
\* has, however many were added between its pages (service.ts loadGraph, repository.ts getGraphPage).
LoadIsWhole ==
    reader.at = "loaded" =>
        /\ reader.start \subseteq Listed(reader.pages)
        /\ \A v \in Listed(reader.pages) : Above(v) \subseteq Listed(reader.pages)

\* A version that exists is found, and a load is refused only when a version was added while it ran or
\* the two have not diverged (loadSource, loadSession, loadGraph).
RefusalIsMeant ==
    /\ reader.at # "missing"
    /\ reader.at = "refused" => Stored # reader.start \/ reader.relation.kind \in {"target-ahead", "source-ahead", "unrelated"}

\* The parents of a resolution have diverged, although that was decided on an earlier reading
\* (service.ts prepareResolution, createResolutionVersion).
ResolvedHadDiverged ==
    \A r \in Stored : Len(parents[r]) = 2 =>
        LET v == parents[r][1]  w == parents[r][2]
        IN  v \notin Above(w) /\ w \notin Above(v) /\ Above(v) \cap Above(w) # {}

GraphInv == TypeOK /\ RelationIsTrue /\ LoadIsWhole /\ RefusalIsMeant /\ ResolvedHadDiverged
=============================================================================
