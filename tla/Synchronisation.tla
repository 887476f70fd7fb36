--------------------------- MODULE Synchronisation ---------------------------
(***************************************************************************)
(* The first way sessions are taken over: scans                            *)
(* (`session-domain/src/discovery.ts`) version what the platforms have,    *)
(* plans compare two heads (`planner.ts`, `diff.ts`), and a plan that is   *)
(* applied moves the heads to what was verified                            *)
(* (`apps/engine/src/write-service.ts`, `session-store/repository.ts`).    *)
(*                                                                         *)
(* One Codex session, and the DSH session the restoration of a checkpoint  *)
(* makes of it.  Scans run beside each other and beside an apply; each     *)
(* call of the repository is one operation of the write queue.  The write  *)
(* itself is one step here (TransactionEngine has its parts).              *)
(***************************************************************************)
EXTENDS Naturals, Sequences

CONSTANTS Scanners,     \* scans under way at once
          MaxChanges,   \* bound: changes the users make
          MaxGraph      \* bound: versions

Keys == {"codex", "dsh"}
NoVersion == 0

VARIABLES
    platform,   \* [Keys -> what is there: n Codex events, d of DSH's own, title t; stamp: size and mtime]
    graph,      \* session_versions: contents with their session, their platform and their parent
    binding,    \* platform_bindings: [Keys -> logical session, last common version]
    head,       \* platform_refs: [Keys -> version, fingerprint]
    scanning,   \* [Scanners -> the session a scan is at]
    proposal,   \* the saved plan: versions, operations, preconditions, whether its transaction completed
    answer,     \* of the last apply, or where the one under way is
    verified    \* the version an apply under way has verified

vars == <<platform, graph, binding, head, scanning, proposal, answer, verified>>

Content(k)  == [of |-> k, n |-> platform[k].n, d |-> platform[k].d, t |-> platform[k].t]
Body(v)     == [of |-> graph[v].of, n |-> graph[v].n, d |-> graph[v].d, t |-> graph[v].t]
Same(b, c)  == b.n = c.n /\ b.d = c.d /\ b.t = c.t      \* without the ids, which name the platform
Catalog(st) == [kind |-> "catalog", stamp |-> st]
Unbound     == [session |-> "none", common |-> NoVersion]
Resting     == [at |-> "idle"]
NoProposal  == [there |-> FALSE]
Unknown     == [version |-> NoVersion, fp |-> Catalog(0)]

Versions == 0..Len(graph)
Bindings == [session : Keys \cup {"none"}, common : Versions]

TypeOK ==
    /\ \A k \in Keys : platform[k] \in [n : 0..MaxChanges + 1, d : 0..MaxChanges, t : 0..MaxChanges,
                                        stamp : 0..2 * MaxChanges + 2]
    /\ \A v \in DOMAIN graph : graph[v].in \in Keys /\ graph[v].of \in Keys /\ graph[v].parent \in 0..v - 1
    /\ binding \in [Keys -> Bindings]
    /\ \A k \in Keys : head[k].version \in Versions
    /\ \A k \in Keys : head[k].version # NoVersion => graph[head[k].version].in = binding[k].session
    /\ \A s \in Scanners : scanning[s].at \in {"idle", "listed", "bound", "read", "seen"}
    /\ proposal.there => proposal.source \in DOMAIN graph /\ proposal.target \in Versions
    /\ answer \in {"none", "verify", "advance", "refused", "stale", "failed", "completed"} /\ verified \in Versions

Init ==
    /\ platform = [codex |-> [n |-> 1, d |-> 0, t |-> 0, stamp |-> 1],
                   dsh |-> [n |-> 0, d |-> 0, t |-> 0, stamp |-> 0]]
    /\ graph = <<>> /\ binding = [k \in Keys |-> Unbound] /\ head = [k \in Keys |-> Unknown]
    /\ scanning = [s \in Scanners |-> Resting] /\ proposal = NoProposal /\ answer = "none"
    /\ verified = NoVersion

There(k) == platform[k].stamp > 0
Changes  == platform["codex"].stamp + platform["dsh"].stamp

(***************************************************************************)
(* The users: a message, a title, or a write that changes nothing.         *)
(***************************************************************************)
Change(k) ==
    /\ There(k) /\ Changes <= MaxChanges
    /\ \E p \in {[platform[k] EXCEPT !.n = IF k = "codex" THEN @ + 1 ELSE @, !.d = IF k = "dsh" THEN @ + 1 ELSE @],
                 [platform[k] EXCEPT !.t = @ + 1], platform[k]} :
          platform' = [platform EXCEPT ![k] = [p EXCEPT !.stamp = @ + 1]]
    /\ UNCHANGED <<graph, binding, head, scanning, proposal, answer, verified>>

(***************************************************************************)
(* A scan of one session.                                                  *)
(***************************************************************************)
Scanning(s, task) ==
    /\ scanning' = [scanning EXCEPT ![s] = task]
    /\ UNCHANGED <<platform, proposal, answer, verified>>
Store == <<graph, binding, head>>

\* The listing has title, size and time of the session: the catalog fingerprint.
List(s, k) ==
    /\ scanning[s].at = "idle" /\ There(k)
    /\ Scanning(s, [at |-> "listed", key |-> k, stamp |-> platform[k].stamp]) /\ UNCHANGED Store

\* The binding, then, once its workspace is written, the head: a head with this fingerprint is
\* passed over.
FindBinding(s) ==
    /\ scanning[s].at = "listed"
    /\ Scanning(s, [at |-> "bound", key |-> scanning[s].key, stamp |-> scanning[s].stamp,
                    row |-> binding[scanning[s].key]])
    /\ UNCHANGED Store

ReadHead(s) ==
    LET task == scanning[s] IN
    /\ task.at = "bound"
    /\ LET version == IF task.row = Unbound THEN NoVersion ELSE head[task.key].version
       IN  IF version # NoVersion /\ head[task.key].fp = Catalog(task.stamp)
           THEN Scanning(s, Resting)
           ELSE Scanning(s, [at |-> "read", key |-> task.key, stamp |-> task.stamp, row |-> task.row,
                             version |-> version])
    /\ UNCHANGED Store

\* A DSH file that is not the one listed is unstable; a Codex rollout is read to its present end.
Stable(task) == task.key = "dsh" => platform["dsh"].stamp = task.stamp

\* A session whose first event is another one is refused.
Related(task) == task.version # NoVersion => graph[task.version].of = task.key

Observe(s) ==
    LET task == scanning[s] IN
    /\ task.at = "read"
    /\ \/ Scanning(s, [at |-> "seen", key |-> task.key, stamp |-> task.stamp, row |-> task.row,
                       version |-> task.version, body |-> Content(task.key)])
          /\ Stable(task) /\ Related(task)
       \/ Scanning(s, Resting)
    /\ UNCHANGED Store

Index(v)  == IF \E i \in DOMAIN graph : graph[i] = v THEN CHOOSE i \in DOMAIN graph : graph[i] = v
             ELSE Len(graph) + 1
Put(v)    == graph' = IF Index(v) > Len(graph) THEN Append(graph, v) ELSE graph
Version(session, body, parent) ==
    [in |-> session, of |-> body.of, n |-> body.n, d |-> body.d, t |-> body.t, parent |-> parent]

\* recordObservation: the version read before, whatever is the head by now.
RecordObservation(s) ==
    LET task == scanning[s] IN
    /\ task.at = "seen" /\ task.version # NoVersion /\ Body(task.version) = task.body
    /\ head' = [head EXCEPT ![task.key] = [version |-> task.version, fp |-> Catalog(task.stamp)]]
    /\ Scanning(s, Resting) /\ UNCHANGED <<graph, binding>>

\* recordObservedVersion: refused when the binding is not as it was read; the head is not compared.
RecordObservedVersion(s) ==
    LET task    == scanning[s]
        session == IF task.row = Unbound THEN task.key ELSE task.row.session
        row     == [session |-> session, common |-> task.row.common]
        v       == Version(session, task.body, task.version)
    IN
    /\ task.at = "seen" /\ (task.version # NoVersion => Body(task.version) # task.body)
    /\ IF binding[task.key] \in {Unbound, row}
       THEN /\ Index(v) <= MaxGraph /\ Put(v)
            /\ binding' = [binding EXCEPT ![task.key] = row]
            /\ head' = [head EXCEPT ![task.key] = [version |-> Index(v), fp |-> Catalog(task.stamp)]]
       ELSE UNCHANGED Store
    /\ Scanning(s, Resting)

(***************************************************************************)
(* Plans.                                                                  *)
(***************************************************************************)
\* Events are compared with their ids, so that the histories of two platforms never extend each other.
Delta(base, current) ==
    IF base.of = current.of /\ base.n = current.n /\ base.d = current.d THEN "unchanged"
    ELSE IF base.of = current.of /\ base.n <= current.n /\ base.d <= current.d THEN "append-only"
    ELSE "rewritten"

\* planPresentTarget, with the target as the base: every difference of the titles is the source's.
Operations(source, target) ==
    LET forward == Delta(target, source)
    IN  IF forward = "rewritten" /\ Delta(source, target) # "append-only" THEN {"review"}
        ELSE (IF forward = "append-only" THEN {"append"} ELSE {})
             \cup (IF source.t # target.t THEN {"title"} ELSE {})

Propose(source, target, operations, preconditions) ==
    /\ answer \notin {"verify", "advance"}
    /\ There("dsh") => target # NoVersion
    /\ proposal' = [there |-> TRUE, source |-> source, target |-> target, operations |-> operations,
                    preconditions |-> preconditions, completed |-> FALSE]
    /\ answer' = "none" /\ UNCHANGED <<platform, graph, binding, head, scanning, verified>>

Fingerprints(ks) == {[key |-> k, fp |-> head[k].fp] : k \in ks}

\* createPlan, for the two bindings of a logical session.
CreatePlan ==
    LET source == head["codex"].version
        target == head["dsh"].version
    IN  /\ \A k \in Keys : binding[k].session = "codex"
        /\ Propose(source, target, Operations(Body(source), Body(target)), Fingerprints(Keys))

\* createCheckpointRestorePlan, of any version a scan made: the head's fingerprint if it is the head.
CreateRestorePlan(v) ==
    /\ graph[v].of = "codex" /\ ~proposal.there
    /\ Propose(v, NoVersion, {"create"}, IF head["codex"].version = v THEN Fingerprints({"codex"}) ELSE {})

\* What the adapters observe: the digest of the content, never a catalog.
Observed(k) == [kind |-> "content", body |-> Content(k)]
Holds(p)    == p.fp = Observed(p.key)

Answer(a) == answer' = a /\ UNCHANGED <<platform, binding, head, scanning, proposal>>

\* What a plan writes, and the stamp of a written file.
Written ==
    LET source == Body(proposal.source)
        there  == platform["dsh"]
        both   == IF {"create", "append"} \cap proposal.operations # {}
                  THEN [there EXCEPT !.n = source.n, !.d = source.d] ELSE there
    IN  [both EXCEPT !.t = source.t, !.stamp = @ + 1]

\* A plan that needs review is refused, one whose preconditions do not hold is stale; a transaction
\* that completed is only verified again.
ApplyPlan ==
    /\ proposal.there /\ answer \notin {"verify", "advance"}
    /\ CASE proposal.completed -> Answer("verify") /\ UNCHANGED <<graph, verified>>
         [] ~proposal.completed /\ "review" \in proposal.operations -> Answer("refused") /\ UNCHANGED <<graph, verified>>
         [] OTHER ->
            IF \A p \in proposal.preconditions : Holds(p)
            THEN /\ platform' = [platform EXCEPT !["dsh"] = Written]
                 /\ proposal' = [proposal EXCEPT !.completed = TRUE]
                 /\ answer' = "verify" /\ UNCHANGED <<graph, binding, head, scanning, verified>>
            ELSE Answer("stale") /\ UNCHANGED <<graph, verified>>

\* verifyAndAdvance: the target has the source's history and title; its version is stored.
Verify ==
    LET v == Version("codex", Content("dsh"), proposal.target) IN
    /\ answer = "verify"
    /\ IF Same(Body(proposal.source), Content("dsh"))
       THEN Index(v) <= MaxGraph /\ Put(v) /\ verified' = Index(v) /\ Answer("advance")
       ELSE Answer("failed") /\ UNCHANGED <<graph, verified>>

\* Mutant: the source's head is not compared.
AdvanceableBlind ==
    /\ binding["dsh"].session \in {"none", "codex"}
    /\ head["dsh"].version \in {proposal.target, verified}

\* The heads of the source and of the target are the plan's or the verified version.
Advanceable ==
    /\ binding["dsh"].session \in {"none", "codex"}
    /\ head["codex"].version \in {proposal.source, verified}
    /\ head["dsh"].version \in {proposal.target, verified}

\* advanceVerifiedRefs: one transaction; the source keeps its fingerprint.
AdvanceVerifiedRefs ==
    /\ answer = "advance"
    /\ IF Advanceable
       THEN /\ head' = [codex |-> [head["codex"] EXCEPT !.version = verified],
                        dsh |-> [version |-> verified, fp |-> [kind |-> "content", body |-> Body(verified)]]]
            /\ binding' = [k \in Keys |-> [session |-> "codex", common |-> verified]]
            /\ answer' = "completed" /\ UNCHANGED <<platform, scanning, proposal>>
       ELSE Answer("stale")
    /\ UNCHANGED <<graph, verified>>

Next ==
    \/ \E k \in Keys : Change(k)
    \/ \E s \in Scanners :
          \/ \E k \in Keys : List(s, k)
          \/ FindBinding(s) \/ ReadHead(s) \/ Observe(s) \/ RecordObservation(s) \/ RecordObservedVersion(s)
    \/ CreatePlan
    \/ \E v \in DOMAIN graph : CreateRestorePlan(v)
    \/ ApplyPlan \/ Verify \/ AdvanceVerifiedRefs

Spec == Init /\ [][Next]_vars

(***************************************************************************)
(* Properties.                                                             *)
(***************************************************************************)
\* A session a scan passes over is in the graph: a head with the catalog fingerprint of what is there
\* has its content, whatever scans and applies raced (discovery.ts, repository.ts).
SkipIsSound == \A k \in Keys :
    head[k].version # NoVersion /\ head[k].fp = Catalog(platform[k].stamp) => Same(Body(head[k].version), Content(k))

\* PLAN_STALE is answered before anything is written.  A restoration of a version that is no longer
\* the head has no precondition: it is written, and its heads are refused afterwards.
StaleWritesNothing == answer = "stale" => ~proposal.completed

\* A plan is stale only if a platform changed since its heads were read.  Scans keep catalog
\* fingerprints and an apply compares contents.
StaleMeansChanged == answer = "stale" => \E k \in Keys :
    There(k) /\ head[k].version # NoVersion /\ ~Same(Body(head[k].version), Content(k))
=============================================================================
