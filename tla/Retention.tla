----------------------------- MODULE Retention -----------------------------
(***************************************************************************)
(* Storage governance: run directories, projection caches, transaction     *)
(* backups and static SQLite recovery points are moved into a quarantine,  *)
(* restored from it, or released after a grace period, by batches whose    *)
(* journal is a row of the Maintenance database.                           *)
(*                                                                         *)
(* Every call runs inside the exclusive write scope (writes.run), so there *)
(* is one call at a time and nothing else writes while it runs.  Each      *)
(* durable effect of a call (a rename, an unlink, a committed row) is a    *)
(* step of its own, before and after which the Engine can die or an I/O    *)
(* error can end the call; runs, checkpoints, pins, rebuilt caches and     *)
(* session writes come between calls.                                      *)
(*                                                                         *)
(* Resources are numbers, ordered as their ids are.  A location is 0 for   *)
(* the original path and n for the quarantine of batch n.  The caches are  *)
(* generations of one path: whatever tree is at the path of a registration *)
(* is the tree the registration describes.                                 *)
(***************************************************************************)
EXTENDS Integers, Sequences, FiniteSets

CONSTANTS
    Runs,        \* run directories; an overlay names the cache path as its base
    Caches,      \* generations of the tree at one cache path
    Backups,     \* transaction backups
    Bundles,     \* flat recovery points: a database file and its manifest
    Worlds,      \* the resources of a state: [first: on disk, later: may appear]
    FinishedWindow, RecoveredWindow, Grace,  \* the policy's periods
    Keep,        \* automaticBackupsToKeep
    CacheTarget, \* cacheTargetBytes, counting a cache as one byte
    MaxClock,    \* bound: instants
    MaxBatches,  \* bound: batches
    MaxFaults,   \* bound: deaths of the Engine and I/O errors together
    MaxChanges   \* bound: changes made by others between calls

Directories == Runs \cup Caches \cup Backups
Resources == Directories \cup Bundles

\* A path holds one tree, and a run is prepared on the cache it names.
ASSUME ConstantsAssumption ==
    /\ IsFiniteSet(Resources) /\ Resources \subseteq Nat
    /\ Runs \cap Caches = {} /\ (Runs \cup Caches) \cap Backups = {} /\ Directories \cap Bundles = {}
    /\ Worlds \subseteq [first : SUBSET Resources, later : SUBSET Resources]
    /\ \A w \in Worlds : /\ w.first \cap w.later = {}
                         /\ \A c, d \in Caches \cap w.first : c = d
                         /\ Runs \cap w.first # {} /\ Caches # {} => Caches \cap w.first # {}
    /\ {FinishedWindow, RecoveredWindow, Grace, Keep, CacheTarget} \subseteq Nat
    /\ {MaxClock, MaxBatches, MaxFaults, MaxChanges} \subseteq Nat

VARIABLES
    clock,
    disk,     \* where each member of each resource is
    holders,  \* quarantine directories that exist, as <<batch, resource>>
    reg,      \* retention_resources
    src,      \* retention_sources: the databases of the bundles
    batches,  \* retention_batches
    plans,    \* the previews the Engine remembers
    op,       \* the call being executed
    facts,    \* what the database says of runs, transactions and checkpoints
    later,    \* resources that may still be produced
    spent     \* faults and changes used up

vars == <<clock, disk, holders, reg, src, batches, plans, op, facts, later, spent>>

Gone == -1
Never == -1
Members(r) == IF r \in Bundles THEN {"db", "manifest"} ELSE {"tree"}
AllAt(r, l) == \A m \in Members(r) : disk[r][m] = l
Locations == Gone..MaxBatches
Batches == 1..Len(batches)
Item(n, r) == batches[n].items[r]
NoGuard == [known |-> FALSE]
Unregistered == [state |-> "none", at |-> 0, pinned |-> FALSE, verified |-> Never, used |-> Never]
Idle == [call |-> "none", n |-> 0, at |-> "none", todo |-> {}]
First(S) == CHOOSE r \in S : \A q \in S : r <= q

(***************************************************************************)
(* What a capture reads                                                    *)
(***************************************************************************)
\* The resources whose original path is that of r.
SamePath(r) == IF r \in Caches THEN Caches ELSE {r}
TreesAt(r, l) == {g \in SamePath(r) : disk[g]["tree"] = l}
\* Mutant: only the tree first registered counts as being at the path.
ExistsOwn(r, l) == CASE l > 0 -> <<l, r>> \in holders
                     [] l = 0 /\ r \in Bundles -> disk[r]["db"] = 0
                     [] OTHER -> disk[r]["tree"] = 0
\* The path of an item exists: a quarantined directory outlives its contents.
Exists(r, l) == CASE l > 0 -> <<l, r>> \in holders
                  [] l = 0 /\ r \in Bundles -> disk[r]["db"] = 0
                  [] OTHER -> TreesAt(r, 0) # {}

Registered(r) == reg[r].state \in {"registered", "quarantined"}
\* All files of the registration are where the registration says.
Whole(r) == IF r \in Bundles THEN AllAt(r, reg[r].at)
            ELSE TreesAt(r, reg[r].at) # {}

\* The registered cache at the path that the overlays name.
Base == {c \in Caches : Registered(c) /\ reg[c].at = 0}
\* Mutant: a finished run no longer counts as using its base.
InUseRunning(c) == /\ c \in Base /\ c = First(Base)
                   /\ \E r \in Runs : Registered(r) /\ Whole(r) /\ facts.done[r] = Never
\* A run that is kept, finished or not, protects the first cache registered at the path it names.
InUse(c) == c \in Base /\ c = First(Base) /\ \E r \in Runs : Registered(r) /\ Whole(r)

\* The first unfinished batch item that can explain where the database is.
Journalled(b) == {n \in Batches : /\ b \in DOMAIN batches[n].items
                                  /\ Item(n, b).state \notin {"purged", "restored"}
                                  /\ src[b].at \in {0, n}}
SourceRead(b) ==
    IF Journalled(b) = {} THEN disk[b]["db"] = src[b].at
    ELSE \A m \in Members(b) : disk[b][m] \in {0, First(Journalled(b))}

Blockers ==
    {<<"resource", r>> : r \in {q \in Resources : Registered(q) /\ ~Whole(q)}}
    \cup {<<"resource", r>> : r \in {q \in Runs : Registered(q) /\ Caches # {} /\ Base = {}}}
    \cup {<<"source", b>> : b \in {q \in Bundles : src[q].retained /\ ~SourceRead(q)}}
    \cup {<<"path", r>> : r \in {q \in Directories :
                /\ disk[q]["tree"] = 0
                /\ ~\E o \in SamePath(q) : Registered(o) /\ reg[o].at = 0}}

\* Everything but the resource r and its own database, by fingerprint.
Evidence(r) ==
    [known |-> TRUE,
     facts |-> facts,
     read |-> {b \in Bundles \ {r} : src[b].retained /\ SourceRead(b)},
     reg |-> reg,
     src |-> src,
     others |-> {q \in Resources \ {r} : Registered(q) /\ Whole(q)}]
\* Mutant: the resumption does not compare the references of the database.
GuardHoldsFiles(r, guard) ==
    /\ Blockers \subseteq {<<"resource", r>>, <<"source", r>>}
    /\ [Evidence(r) EXCEPT !.facts = guard.facts] = guard
\* Nothing but what the interrupted operation itself changed.
GuardHolds(r, guard) ==
    /\ Blockers \subseteq {<<"resource", r>>, <<"source", r>>}
    /\ Evidence(r) = guard

(***************************************************************************)
(* The plan: what may go at the instant t                                  *)
(***************************************************************************)
CompletedAt(r) == IF r \in Bundles THEN reg[r].verified ELSE facts.done[r]
Valid(r) == /\ Registered(r) /\ Whole(r)
            /\ r \in Backups \cup Bundles => reg[r].verified # Never
            /\ r \in Bundles => src[r].retained
            /\ r \in Runs => Caches = {} \/ Base # {}
Newer(q, r) == \/ CompletedAt(q) > CompletedAt(r)
               \/ CompletedAt(q) = CompletedAt(r) /\ q < r
Kind(r) == IF r \in Backups THEN Backups ELSE Bundles
Automatic(r) == {q \in Kind(r) : Valid(q) /\ ~reg[q].pinned /\ CompletedAt(q) # Never}
Newest(r) == r \in Automatic(r) /\ Cardinality({q \in Automatic(r) : Newer(q, r)}) < Keep

\* Least recently used first, until the rest fits.
Evictable == {c \in Caches : Valid(c) /\ ~reg[c].pinned /\ ~InUse(c)}
Older(d, c) == reg[d].used < reg[c].used \/ (reg[d].used = reg[c].used /\ d < c)
Evicted(c) ==
    /\ c \in Evictable
    /\ Cardinality({d \in Caches : Registered(d) /\ Whole(d)})
         - Cardinality({d \in Evictable : Older(d, c)}) > CacheTarget

Due(r, t) ==
    LET window == IF r \in facts.recovered THEN RecoveredWindow ELSE FinishedWindow
    IN facts.done[r] # Never /\ facts.done[r] + window <= t

Candidate(r, t) ==
    /\ Valid(r)
    /\ ~reg[r].pinned
    /\ r \notin facts.needed
    /\ r \in Runs => Due(r, t)
    /\ r \in Caches => Evicted(r) /\ reg[r].used <= t
    /\ r \in Backups \cup Bundles => ~Newest(r) /\ CompletedAt(r) \in 0..t

Executable(t) == {r \in Resources : Candidate(r, t) /\ reg[r].state = "registered"}
Plan(t) == [asOf |-> t, facts |-> facts, reg |-> reg, src |-> src, blockers |-> Blockers,
            trees |-> [r \in {q \in Directories : Registered(q)} |-> TreesAt(r, reg[r].at)],
            items |-> Executable(t)]
Eligible(r) == Blockers = {} /\ Candidate(r, clock)

TypeOK ==
    /\ clock \in 0..MaxClock
    /\ \A r \in Resources : disk[r] \in [Members(r) -> Locations]
    /\ holders \subseteq (1..MaxBatches) \X Resources
    /\ reg \in [Resources -> [state : {"none", "registered", "quarantined", "purged"},
                              at : 0..MaxBatches, pinned : BOOLEAN,
                              verified : Never..MaxClock, used : Never..MaxClock]]
    /\ src \in [Bundles -> [at : 0..MaxBatches, retained : BOOLEAN]]
    /\ Len(batches) <= MaxBatches
    /\ \A n \in Batches : \A r \in DOMAIN batches[n].items :
          Item(n, r).state \in {"planned", "quarantined", "restored", "purging", "purged"}
    /\ Cardinality(plans) <= 1
    /\ op.call \in {"none", "execute", "restore", "purge"} /\ op.todo \subseteq Resources
    /\ facts.needed \subseteq Resources /\ facts.recovered \subseteq Runs
    /\ later \subseteq Resources
    /\ spent.faults \in 0..MaxFaults /\ spent.changes \in 0..MaxChanges

Init ==
    \E world \in Worlds :
        /\ clock = 0
        /\ disk = [r \in Resources |->
                      [m \in Members(r) |-> IF r \in world.first THEN 0 ELSE Gone]]
        /\ holders = {}
        /\ reg = [r \in Resources |-> IF r \in world.first
                      THEN [Unregistered EXCEPT !.state = "registered",
                                !.verified = IF r \in Backups \cup Bundles THEN 0 ELSE Never,
                                !.used = IF r \in Caches THEN 0 ELSE Never]
                      ELSE Unregistered]
        /\ src = [b \in Bundles |-> [at |-> 0, retained |-> b \in world.first]]
        /\ batches = <<>>
        /\ plans = {}
        /\ op = Idle
        /\ facts = [revision |-> 0, needed |-> {}, recovered |-> {},
                    done |-> [r \in Runs \cup Backups |-> IF r \in Backups THEN 0 ELSE Never]]
        /\ later = world.later
        /\ spent = [faults |-> 0, changes |-> 0]

(***************************************************************************)
(* What others do between the calls                                        *)
(***************************************************************************)
Between == op.call = "none"
calls == <<holders, batches, plans, op>>
Bump(f) == [f EXCEPT !.revision = @ + 1]
Change(f) ==
    /\ Between /\ spent.changes < MaxChanges
    /\ spent' = [spent EXCEPT !.changes = @ + 1]
    /\ facts' = Bump(f)
    /\ UNCHANGED <<clock, calls>>

Tick == /\ clock < MaxClock
        /\ clock' = clock + 1
        /\ UNCHANGED <<disk, holders, reg, src, batches, plans, op, facts, later, spent>>

\* A session is appended, a plan saved: rows a capture fingerprints.
WriteRows == Change(facts) /\ UNCHANGED <<disk, reg, src, later>>
\* A run is prepared on the cache at the path.
StartRun(r) ==
    /\ r \in Runs \cap later
    /\ Caches # {} => \E c \in Caches : disk[c]["tree"] = 0
    /\ Change(facts)
    /\ disk' = [disk EXCEPT ![r]["tree"] = 0]
    /\ later' = later \ {r}
    /\ UNCHANGED <<reg, src>>
FinishRun(r, recovered) ==
    /\ r \in Runs /\ disk[r]["tree"] = 0 /\ facts.done[r] = Never
    /\ Change([facts EXCEPT !.done[r] = clock,
                            !.recovered = IF recovered THEN @ \cup {r} ELSE @])
    /\ UNCHANGED <<disk, reg, src, later>>
\* A checkpoint names the run or the backup as what its restoration needs.
Depend(r) ==
    /\ r \in Runs \cup Backups /\ Registered(r) /\ r \notin facts.needed
    /\ Change([facts EXCEPT !.needed = @ \cup {r}])
    /\ UNCHANGED <<disk, reg, src, later>>
\* The projection cache is built where none is.
BuildCache(c) ==
    /\ c \in Caches \cap later /\ \A g \in Caches : disk[g]["tree"] # 0
    /\ Change(facts)
    /\ disk' = [disk EXCEPT ![c]["tree"] = 0]
    /\ later' = later \ {c}
    /\ UNCHANGED <<reg, src>>
\* A reseed leaves a static copy of the database, registered as a source.
LeaveRecoveryPoint(b) ==
    /\ b \in Bundles \cap later
    /\ Change(facts)
    /\ disk' = [disk EXCEPT ![b] = [m \in Members(b) |-> 0]]
    /\ src' = [src EXCEPT ![b].retained = TRUE]
    /\ later' = later \ {b}
    /\ UNCHANGED reg

Govern(register) == /\ Between /\ reg' = register
                    /\ UNCHANGED <<clock, disk, src, calls, facts, later>>
Counted == /\ spent.changes < MaxChanges
           /\ spent' = [spent EXCEPT !.changes = @ + 1]
\* Registering again may pin; it also forgets what was verified.
RegisterResource(r, pin) ==
    /\ reg[r].state = "registered" /\ Counted
    /\ Govern([reg EXCEPT ![r].pinned = pin, ![r].verified = Never,
                          ![r].used = IF r \in Caches THEN clock ELSE @])
\* Of a run or a cache the verification is a stamp that nothing reads.
VerifyResource(r) ==
    /\ r \in Backups \cup Bundles /\ reg[r].state = "registered" /\ Whole(r)
    /\ r \in Bundles => src[r].retained
    /\ Counted
    /\ Govern([reg EXCEPT ![r].verified = clock])
\* The first of its two writes forgets the verification, the second renews it.
RegisterFlat(b, verified) ==
    /\ b \in Bundles /\ src[b].retained /\ reg[b].state \in {"none", "registered"}
    /\ Counted
    /\ verified = Never \/ (verified = clock /\ AllAt(b, 0))
    /\ Govern([reg EXCEPT ![b].state = "registered", ![b].verified = verified])
Unclaimed(q) == /\ disk[q]["tree"] = 0 /\ reg[q].state = "none"
                /\ ~\E o \in SamePath(q) : Registered(o) /\ reg[o].at = 0
Discover ==
    /\ \E q \in Directories : Unclaimed(q)
    /\ UNCHANGED spent
    /\ Govern([r \in Resources |->
                 IF r \in Directories /\ Unclaimed(r)
                 THEN [Unregistered EXCEPT !.state = "registered",
                           !.used = IF r \in Caches THEN clock ELSE Never]
                 ELSE reg[r]])

(***************************************************************************)
(* The calls of the service                                                *)
(***************************************************************************)
world == <<clock, facts, later>>
Unfinished(n, states) == {r \in DOMAIN batches[n].items : Item(n, r).state \in states}
Begin(call, n) ==
    op' = [call |-> call, n |-> n, at |-> "reconcile",
           todo |-> {r \in DOMAIN batches'[n].items :
                        batches'[n].items[r].state \in {"planned", "quarantined"}}]

\* Only the latest preview is kept here, and only one that can be executed.
Preview ==
    /\ Between /\ Len(batches) < MaxBatches /\ Blockers = {} /\ Executable(clock) # {}
    /\ plans' = {Plan(clock)} /\ plans' # plans
    /\ UNCHANGED <<world, disk, holders, reg, src, batches, op, spent>>

\* The previewed evidence is recomputed as of the previewed instant.
Execute(plan) ==
    /\ Between /\ plan \in plans /\ Len(batches) < MaxBatches
    /\ ~\E n \in Batches : batches[n].plan = plan
    /\ plan = Plan(plan.asOf) /\ Blockers = {}
    /\ batches' = Append(batches,
           [plan |-> plan, purgeAfter |-> clock + Grace,
            items |-> [r \in plan.items |->
                [state |-> "planned", dir |-> FALSE, guard |-> NoGuard, purgeGuard |-> NoGuard,
                 tree |-> IF r \in Directories THEN First(TreesAt(r, 0)) ELSE r]]])
    /\ Begin("execute", Len(batches'))
    /\ UNCHANGED <<world, disk, holders, reg, src, plans, spent>>

\* A batch that has begun is taken up again from its journal.
Continue(call, n) ==
    /\ Between /\ n \in Batches
    /\ call = "purge" => clock >= batches[n].purgeAfter
    /\ UNCHANGED batches
    /\ Begin(call, n)
    /\ UNCHANGED <<world, disk, holders, reg, src, plans, spent>>

Save(n, r, item) == batches' = [batches EXCEPT ![n].items[r] = item]
\* Mutant: the database keeps its old path and stays retained.
TransitionAlone(n, r, state) ==
    LET to == IF state = "restored" THEN 0 ELSE n
    IN /\ Save(n, r, [Item(n, r) EXCEPT !.state = state])
       /\ reg' = [reg EXCEPT ![r].at = to,
                             ![r].state = IF state = "restored" THEN "registered" ELSE state]
       /\ UNCHANGED src
\* The journal, the registration and the source's pointer, in one savepoint.
Transition(n, r, state) ==
    LET to == IF state = "restored" THEN 0 ELSE n
    IN /\ Save(n, r, [Item(n, r) EXCEPT !.state = state])
       /\ reg' = [reg EXCEPT ![r].at = to,
                             ![r].state = IF state = "restored" THEN "registered" ELSE state]
       /\ src' = IF r \notin Bundles THEN src
                 ELSE [src EXCEPT ![r] = [at |-> to, retained |-> @.retained /\ state # "purged"]]

\* Every member in one of its two places, in a directory the journal knows.
InspectBundle(n, r) ==
    /\ <<n, r>> \in holders => Item(n, r).dir
    /\ \A m \in Members(r) : disk[r][m] \in {0, n}
SameTree(n, r, l) == IF r \in Bundles THEN InspectBundle(n, r)
                     ELSE Item(n, r).tree \in TreesAt(r, l)
\* The path is taken by a newer generation that is registered by its identity.
Replaced(n, r) ==
    /\ r \in Caches /\ Item(n, r).state \in {"quarantined", "purging"}
    /\ \E c \in Caches \ {r} : /\ reg[c].state = "registered" /\ reg[c].at = 0
                               /\ disk[c]["tree"] = 0
    /\ Exists(r, n)

ToLoop(n, call) ==
    op' = [op EXCEPT !.at = "item",
              !.todo = Unfinished(n, CASE call = "execute" -> {"planned"}
                                       [] call = "restore" -> {"planned", "quarantined", "purging", "purged"}
                                       [] call = "purge" -> {"planned", "quarantined", "purging"})]
Skip == /\ op' = [op EXCEPT !.todo = @ \ {First(@)}]
        /\ UNCHANGED <<reg, src, batches>>
Stop == /\ op' = Idle
        /\ UNCHANGED <<reg, src, batches>>

\* One item of reconcile: the journal is brought to where the files are.
Reconcile ==
    /\ op.at = "reconcile" /\ op.todo # {}
    /\ LET n == op.n
           r == First(op.todo)
           original == Exists(r, 0)
           quarantined == Exists(r, n)
           advance(state, l) == IF SameTree(n, r, l)
               THEN Transition(n, r, state) /\ op' = [op EXCEPT !.todo = @ \ {r}]
               ELSE Stop
       IN IF r \in Bundles
          THEN CASE ~InspectBundle(n, r) -> Stop
                 [] InspectBundle(n, r) /\ Item(n, r).state = "planned" /\ AllAt(r, n) -> advance("quarantined", n)
                 [] InspectBundle(n, r) /\ Item(n, r).state = "quarantined" /\ AllAt(r, 0) -> advance("restored", 0)
                 [] OTHER -> Skip
          ELSE CASE original /\ quarantined ->
                      IF op.call = "purge" /\ Replaced(n, r) /\ SameTree(n, r, n) THEN Skip ELSE Stop
                 [] ~original /\ ~quarantined -> Stop
                 [] ~original /\ quarantined /\ Item(n, r).state = "planned" -> advance("quarantined", n)
                 [] original /\ ~quarantined /\ Item(n, r).state = "quarantined" -> advance("restored", 0)
                 [] OTHER -> Skip
    /\ UNCHANGED <<world, disk, holders, plans, spent>>

Reconciled ==
    /\ op.at = "reconcile" /\ op.todo = {}
    /\ ToLoop(op.n, op.call)
    /\ UNCHANGED <<world, disk, holders, reg, src, batches, plans, spent>>

Finish ==
    /\ op.at = "item" /\ op.todo = {}
    /\ op' = Idle
    /\ UNCHANGED <<world, disk, holders, reg, src, batches, plans, spent>>

At(call, at, S) == /\ op.call = call /\ op.at = at /\ op.todo # {}
                   /\ First(op.todo) \in S
Goto(at) == op' = [op EXCEPT !.at = at]
NextItem == op' = [op EXCEPT !.at = "item", !.todo = @ \ {First(@)}]
Still == UNCHANGED <<world, disk, holders, plans, spent>>
Move(r, m, to) == disk' = [disk EXCEPT ![r][m] = to]

(***************************************************************************)
(* quarantine                                                              *)
(***************************************************************************)
\* A bundle: the references are recorded, or compared with the record.
GuardBundle ==
    /\ At("execute", "item", Bundles)
    /\ LET n == op.n
           r == First(op.todo)
           saved == Item(n, r).guard
       IN IF saved.known
          THEN IF GuardHolds(r, saved) THEN Goto("mkdir") /\ UNCHANGED <<reg, src, batches>>
               ELSE Stop
          ELSE IF Eligible(r)
               THEN /\ Save(n, r, [Item(n, r) EXCEPT !.guard = Evidence(r)])
                    /\ Goto("mkdir") /\ UNCHANGED <<reg, src>>
               ELSE Stop
    /\ Still
MakeDirectory ==
    /\ At("execute", "mkdir", Bundles)
    /\ LET n == op.n
           r == First(op.todo)
       IN CASE Item(n, r).dir -> Goto("move") /\ UNCHANGED <<reg, src, batches, holders>>
            [] ~Item(n, r).dir /\ Exists(r, n) -> Stop /\ UNCHANGED holders
            [] OTHER -> /\ holders' = holders \cup {<<n, r>>} /\ Goto("identity")
                        /\ UNCHANGED <<reg, src, batches>>
    /\ UNCHANGED <<world, disk, plans, spent>>
SaveDirectory ==
    /\ At("execute", "identity", Bundles)
    /\ LET r == First(op.todo) IN Save(op.n, r, [Item(op.n, r) EXCEPT !.dir = TRUE])
    /\ Goto("move") /\ UNCHANGED <<reg, src>> /\ Still
\* The database first, then the manifest.
NextMember(r, l) == IF disk[r]["db"] = l THEN "db" ELSE "manifest"
MoveMember ==
    /\ At("execute", "move", Bundles)
    /\ LET n == op.n
           r == First(op.todo)
       IN CASE ~InspectBundle(n, r) -> Stop /\ UNCHANGED disk
            [] InspectBundle(n, r) /\ AllAt(r, n) ->
                 Transition(n, r, "quarantined") /\ NextItem /\ UNCHANGED disk
            [] OTHER -> Move(r, NextMember(r, 0), n) /\ UNCHANGED <<reg, src, batches, op>>
    /\ UNCHANGED <<world, holders, plans, spent>>
\* A directory: one rename.
MoveDirectory ==
    /\ At("execute", "item", Directories)
    /\ LET n == op.n
           r == First(op.todo)
       IN IF Eligible(r) /\ SameTree(n, r, 0) /\ ~Exists(r, n)
          THEN /\ Move(Item(n, r).tree, "tree", n) /\ holders' = holders \cup {<<n, r>>}
               /\ Goto("moved") /\ UNCHANGED <<reg, src, batches>>
          ELSE Stop /\ UNCHANGED <<disk, holders>>
    /\ UNCHANGED <<world, plans, spent>>
DirectoryMoved ==
    /\ At("execute", "moved", Directories)
    /\ Transition(op.n, First(op.todo), "quarantined") /\ NextItem /\ Still

(***************************************************************************)
(* restore                                                                 *)
(***************************************************************************)
RestoreReleased ==
    /\ At("restore", "item", Unfinished(op.n, {"purging", "purged"}))
    /\ Stop /\ Still
Restorable == Unfinished(op.n, {"planned", "quarantined"})
RestoreMember ==
    /\ At("restore", "item", Restorable \cap Bundles)
    /\ LET n == op.n
           r == First(op.todo)
       IN CASE ~InspectBundle(n, r) -> Stop /\ UNCHANGED disk
            [] InspectBundle(n, r) /\ AllAt(r, 0) ->
                 Transition(n, r, "restored") /\ NextItem /\ UNCHANGED disk
            [] OTHER -> Move(r, NextMember(r, n), 0) /\ UNCHANGED <<reg, src, batches, op>>
    /\ UNCHANGED <<world, holders, plans, spent>>
RestorePlanned ==
    /\ At("restore", "item", Unfinished(op.n, {"planned"}) \cap Directories)
    /\ LET r == First(op.todo)
       IN IF SameTree(op.n, r, 0) THEN Transition(op.n, r, "restored") /\ NextItem ELSE Stop
    /\ Still
\* Mutant: the row is written before the rename.
RestoreDirectoryRowFirst ==
    /\ At("restore", "item", Unfinished(op.n, {"quarantined"}) \cap Directories)
    /\ LET r == First(op.todo)
       IN IF SameTree(op.n, r, op.n) /\ ~Exists(r, 0)
          THEN Transition(op.n, r, "restored") /\ Goto("moved")
          ELSE Stop
    /\ Still
RestoreDirectory ==
    /\ At("restore", "item", Unfinished(op.n, {"quarantined"}) \cap Directories)
    /\ LET n == op.n
           r == First(op.todo)
       IN IF SameTree(n, r, n) /\ ~Exists(r, 0)
          THEN /\ Move(Item(n, r).tree, "tree", 0) /\ holders' = holders \ {<<n, r>>}
               /\ Goto("moved") /\ UNCHANGED <<reg, src, batches>>
          ELSE Stop /\ UNCHANGED <<disk, holders>>
    /\ UNCHANGED <<world, plans, spent>>
DirectoryRestored ==
    /\ At("restore", "moved", Directories)
    /\ Transition(op.n, First(op.todo), "restored") /\ NextItem /\ Still

(***************************************************************************)
(* purge                                                                   *)
(***************************************************************************)
Reused(n, r) == Exists(r, 0) /\ ~Replaced(n, r)
PurgePlanned ==
    /\ At("purge", "item", Unfinished(op.n, {"planned"}))
    /\ Stop /\ Still
StartPurge ==
    /\ At("purge", "item", Unfinished(op.n, {"quarantined"}))
    /\ LET n == op.n
           r == First(op.todo)
       IN IF ~Reused(n, r) /\ Eligible(r) /\ SameTree(n, r, n)
          THEN /\ Save(n, r, [Item(n, r) EXCEPT !.state = "purging", !.purgeGuard = Evidence(r)])
               /\ Goto("unlink") /\ UNCHANGED <<reg, src>>
          ELSE Stop
    /\ Still
ResumePurge ==
    /\ At("purge", "item", Unfinished(op.n, {"purging"}))
    /\ LET r == First(op.todo)
       IN IF /\ ~Reused(op.n, r) /\ (Exists(r, 0) => Exists(r, op.n))
             /\ GuardHolds(r, Item(op.n, r).purgeGuard)
          THEN Goto("unlink") /\ UNCHANGED <<reg, src, batches>>
          ELSE Stop
    /\ Still
\* Deepest first and in reverse order: the manifest, the database, the directory.
Contents(n, r) == IF r \in Bundles THEN {m \in Members(r) : disk[r][m] = n}
                  ELSE {m \in {"tree"} : TreesAt(r, n) # {}}
Unlink ==
    /\ At("purge", "unlink", Resources)
    /\ LET n == op.n
           r == First(op.todo)
       IN CASE Contents(n, r) # {} ->
                 /\ IF r \in Bundles
                    THEN Move(r, IF "manifest" \in Contents(n, r) THEN "manifest" ELSE "db", Gone)
                    ELSE Move(Item(n, r).tree, "tree", Gone)
                 /\ UNCHANGED <<holders, reg, src, batches, op>>
            [] Contents(n, r) = {} /\ Exists(r, n) ->
                 holders' = holders \ {<<n, r>>} /\ UNCHANGED <<disk, reg, src, batches, op>>
            [] OTHER -> Transition(n, r, "purged") /\ NextItem /\ UNCHANGED <<disk, holders>>
    /\ UNCHANGED <<world, plans, spent>>

(***************************************************************************)
(* Faults                                                                  *)
(***************************************************************************)
Fault == /\ spent.faults < MaxFaults
         /\ spent' = [spent EXCEPT !.faults = @ + 1]
         /\ op' = Idle
         /\ UNCHANGED <<world, disk, holders, reg, src, batches>>
\* The Engine dies in a call: its previews die with it.
Crash == op # Idle /\ plans' = {} /\ Fault
\* A rename, an unlink or a write fails, and the call with it.
IoError == op # Idle /\ UNCHANGED plans /\ Fault

Environment ==
    \/ Tick
    \/ WriteRows
    \/ Discover
    \/ \E r \in Resources :
          \/ StartRun(r)
          \/ \E recovered \in BOOLEAN : FinishRun(r, recovered)
          \/ Depend(r)
          \/ BuildCache(r)
          \/ LeaveRecoveryPoint(r)
          \/ \E pin \in BOOLEAN : RegisterResource(r, pin)
          \/ VerifyResource(r)
          \/ \E verified \in {Never, clock} : RegisterFlat(r, verified)

Calls ==
    \/ Preview
    \/ \E plan \in plans : Execute(plan)
    \/ \E call \in {"execute", "restore", "purge"}, n \in Batches : Continue(call, n)
    \/ Reconcile \/ Reconciled \/ Finish
    \/ GuardBundle \/ MakeDirectory \/ SaveDirectory \/ MoveMember
    \/ MoveDirectory \/ DirectoryMoved
    \/ RestoreReleased \/ RestoreMember \/ RestorePlanned \/ RestoreDirectory \/ DirectoryRestored
    \/ PurgePlanned \/ StartPurge \/ ResumePurge \/ Unlink

Next == Environment \/ Calls \/ Crash \/ IoError

Spec == Init /\ [][Next]_vars

(***************************************************************************)
(* Properties                                                              *)
(***************************************************************************)
\* A run directory that is not released keeps the base its overlay needs: no
\* sequence of plans, resumptions and rebuilt caches leaves the cache path empty
\* while a run, registered or not yet, is on disk (retention-resources.ts).
BaseKept ==
    \A r \in Runs : disk[r]["tree"] # Gone /\ Caches # {} => TreesAt(First(Caches), 0) # {}

\* So it is as long as every call runs to its end.  A death between the rename of
\* a rebuilt cache and its row can leave two registrations of the path, and
\* BaseKept is then violated.
BaseAvailable == spent.faults = 0 => BaseKept

Removed(r) == \E m \in Members(r) : disk[r][m] # Gone /\ disk'[r][m] = Gone
\* The first file of a resource is unlinked only after the grace period, when no
\* checkpoint or pin asks for it and its run has been finished long enough -
\* and this is true as well of every file a resumed release unlinks.
NoneNeeded ==
    (\E g \in Resources : Removed(g)) =>
        LET r == First(op.todo)
        IN /\ clock >= batches[op.n].purgeAfter
           /\ ~reg[r].pinned /\ r \notin facts.needed /\ ~InUse(r)
           /\ r \in Runs => Due(r, clock)

\* When files of a backup or of a recovery point are released, the number the
\* policy keeps of others of its kind are on disk, whole, verified and finished.
NewestKept ==
    \A r \in Backups \cup Bundles : Removed(r) =>
        Cardinality({q \in Kind(r) \ {r} : /\ Registered(q) /\ AllAt(q, reg[q].at)
                                          /\ reg[q].verified # Never}) >= Keep

\* What is released was not needed and leaves what the policy keeps, whatever was
\* registered, pinned and referred to since the release was planned
\* (retention-executor.ts, retention-policy.ts).
ReleaseIsSafe == [][NoneNeeded /\ NewestKept]_vars

\* What lies in a quarantine is an unfinished item of that batch, so that a
\* restoration or a release will still find it: neither a death between a rename
\* and its row nor a rebuilt cache leaves files that no journal answers for.
QuarantineJournalled ==
    \A g \in Resources : \A m \in Members(g) : disk[g][m] > 0 =>
        \E r \in SamePath(g) : /\ r \in DOMAIN batches[disk[g][m]].items
                               /\ Item(disk[g][m], r).state \in {"planned", "quarantined", "purging"}

\* A rebuilt cache is never overwritten by the restoration of an older
\* generation, and two generations are never merged in one quarantine.
GenerationsApart == \A l \in 0..MaxBatches : \A r \in Resources \ Bundles :
                        Cardinality(TreesAt(r, l)) <= 1

\* The tables are typed and name at most one generation of a cache at each place.
RegistryInv == TypeOK /\ GenerationsApart

Elsewhere(r) == \E n \in Batches \ {op.n} : r \in Unfinished(n, {"planned", "quarantined", "purging"})
\* A restoration or a release that returns has brought the registry to the files:
\* every resource of its batch that no other batch still moves is whole at the
\* location registered for it and the references of its database can be read,
\* whatever crashes and resumptions the batch went through.
ReturnedIsCovered ==
    [][Finish /\ op.call # "execute" =>
          \A r \in DOMAIN batches[op.n].items : Elsewhere(r) \/
             /\ Registered(r) => Whole(r)
             /\ r \in Bundles => ~src[r].retained \/ SourceRead(r)]_vars

\* A batch that has begun can be continued from its journal: after any crash the
\* bundles it has not finished still pass the inspection that every call begins with.
BatchResumes ==
    Between => \A n \in Batches : \A r \in Unfinished(n, {"planned", "quarantined"}) \cap Bundles :
                   InspectBundle(n, r)
=============================================================================
