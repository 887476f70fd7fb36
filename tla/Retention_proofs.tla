-------------------------- MODULE Retention_proofs --------------------------
(***************************************************************************)
(* What holds of what a user governs from the dashboard (MCRetention).  Of *)
(* storage (Retention), for any resources, periods and numbers of batches, *)
(* faults and changes: generations of the cache stay apart, what is in     *)
(* quarantine is in a journal, what is released was not needed, and runs   *)
(* keep their base while no call is interrupted.  Of mirrored projects     *)
(* (ProjectMapping), for any projects, threads, lists and commands: lists, *)
(* users and imports leave each other's word standing.                     *)
(***************************************************************************)
EXTENDS MCRetention, FiniteSetTheorems, WellFoundedInduction, TLAPS

-----------------------------------------------------------------------------
(* Types.                                                                  *)

ItemStates == {"planned", "quarantined", "restored", "purging", "purged"}
RegType == [Resources -> [state : {"none", "registered", "quarantined", "purged"},
                          at : 0..MaxBatches, pinned : BOOLEAN,
                          verified : Never..MaxClock, used : Never..MaxClock]]
SrcType == [Bundles -> [at : 0..MaxBatches, retained : BOOLEAN]]
FactsType == [revision : Nat, needed : SUBSET Resources, recovered : SUBSET Runs,
              done : [Runs \cup Backups -> Never..MaxClock]]
EvidenceType == [known : {TRUE}, facts : FactsType, read : SUBSET Bundles, reg : RegType,
                 src : SrcType, others : SUBSET Resources]
ItemType == [state : ItemStates, dir : BOOLEAN, guard : {NoGuard} \cup EvidenceType,
             purgeGuard : {NoGuard} \cup EvidenceType, tree : Resources]
PlanType == [asOf : 0..MaxClock, facts : FactsType, reg : RegType, src : SrcType,
             blockers : SUBSET ({"resource", "source", "path"} \X Resources),
             trees : UNION {[S -> SUBSET Resources] : S \in SUBSET Directories},
             items : SUBSET Resources]
BatchType == [plan : PlanType, purgeAfter : Nat,
              items : UNION {[S -> ItemType] : S \in SUBSET Resources}]
OpType == [call : {"none", "execute", "restore", "purge"}, n : 0..MaxBatches,
           at : {"none", "reconcile", "item", "mkdir", "identity", "move", "moved", "unlink"},
           todo : SUBSET Resources]

DiskTyped == DOMAIN disk = Resources /\ \A r \in Resources : disk[r] \in [Members(r) -> Locations]
BatchesTyped == batches \in Seq(BatchType) /\ Len(batches) <= MaxBatches
PlansTyped == plans = {} \/ \E p \in PlanType : plans = {p}

Typed ==
    /\ clock \in 0..MaxClock /\ DiskTyped /\ holders \subseteq (1..MaxBatches) \X Resources
    /\ reg \in RegType /\ src \in SrcType /\ BatchesTyped /\ PlansTyped
    /\ op \in OpType /\ facts \in FactsType /\ later \subseteq Resources
    /\ spent \in [faults : 0..MaxFaults, changes : 0..MaxChanges]

\* What is not in a quarantine is registered at its original path.
RegisteredAtPath == \A r \in Resources : reg[r].state \in {"none", "registered"} => reg[r].at = 0

\* The states of the items a call still has to handle.
Moving == {"planned", "quarantined", "purging"}
ToHandle(o) == IF o.at = "reconcile" THEN {"planned", "quarantined"}
           ELSE CASE o.call = "execute" -> {"planned"}
                  [] o.call = "restore" -> {"planned", "quarantined", "purging", "purged"}
                  [] OTHER -> Moving

\* The call under way is about items of a batch that are in the states it handles.
Working ==
    /\ op.at # "none" /\ op.n \in Batches /\ op.todo \subseteq DOMAIN batches[op.n].items
    /\ \A r \in op.todo : Item(op.n, r).state \in ToHandle(op)
    /\ op.at \notin {"reconcile", "item"} => op.todo # {}
    /\ op.at = "unlink" => op.call = "purge" /\ Item(op.n, First(op.todo)).state = "purging"
    /\ op.call = "purge" => clock >= batches[op.n].purgeAfter
OpInv == IF op.call = "none" THEN op = Idle ELSE Working

Governed == Typed /\ RegisteredAtPath /\ OpInv

-----------------------------------------------------------------------------
(* Operators.                                                              *)

LEMMA Least == ASSUME NEW S, S \subseteq Nat, S # {} PROVE \E r \in S : \A q \in S : r <= q
<1>. DEFINE R == OpToRel(<, Nat)
<1>1. IsWellFoundedOn(R, Nat) BY NatLessThanWellFounded
<1>2. \E x \in S : \A y \in S : ~(<<y, x>> \in R)
  <2>. HIDE DEF R
  <2>. QED BY <1>1, WFMin
<1>3. \A x, y \in Nat : x < y => <<x, y>> \in R BY DEF OpToRel
<1>4. \A x, y \in Nat : x < y \/ y <= x OBVIOUS
<1>. HIDE DEF R
<1>. QED BY <1>2, <1>3, <1>4

LEMMA FirstIn ==
    ASSUME NEW S, S \subseteq Resources, S # {}
    PROVE  First(S) \in S /\ \A q \in S : First(S) <= q
<1>. QED BY Least, ConstantsAssumption DEF First

Written(b, n, r, item) == [b EXCEPT ![n].items[r] = item]

LEMMA SaveFacts ==
    ASSUME NEW b \in Seq(BatchType), NEW n \in 1..Len(b), NEW r \in DOMAIN b[n].items,
           NEW item \in ItemType, NEW c, c = Written(b, n, r, item)
    PROVE  /\ c \in Seq(BatchType) /\ Len(c) = Len(b)
           /\ \A k \in 1..Len(b) :
                 /\ c[k].plan = b[k].plan /\ c[k].purgeAfter = b[k].purgeAfter
                 /\ DOMAIN c[k].items = DOMAIN b[k].items
                 /\ \A q \in DOMAIN b[k].items :
                       c[k].items[q] = IF k = n /\ q = r THEN item ELSE b[k].items[q]
<1>. DEFINE x == [b[n] EXCEPT !.items[r] = item]
<1>1. b[n] \in BatchType OBVIOUS
<1>2. PICK S \in SUBSET Resources : b[n].items \in [S -> ItemType] BY <1>1 DEF BatchType
<1>3. [b[n].items EXCEPT ![r] = item] \in [S -> ItemType] BY <1>2
<1>4. x \in BatchType BY <1>1, <1>3 DEF BatchType
<1>5. c = [b EXCEPT ![n] = x] BY DEF Written
<1>6. c \in Seq(BatchType) /\ Len(c) = Len(b) BY <1>4, <1>5
<1>7. c[n] = x /\ \A k \in 1..Len(b) : k # n => c[k] = b[k] BY <1>5
<1>8. /\ x.plan = b[n].plan /\ x.purgeAfter = b[n].purgeAfter
      /\ x.items = [b[n].items EXCEPT ![r] = item]
  BY <1>1 DEF BatchType
<1>9. /\ DOMAIN x.items = DOMAIN b[n].items
      /\ \A q \in DOMAIN b[n].items : x.items[q] = IF q = r THEN item ELSE b[n].items[q]
  BY <1>8
<1>. HIDE DEF x
<1>. QED BY <1>6, <1>7, <1>8, <1>9

LEMMA MoveFacts ==
    ASSUME NEW d, DOMAIN d = Resources, \A r \in Resources : d[r] \in [Members(r) -> Locations],
           NEW r \in Resources, NEW m, NEW to \in Locations, NEW e, e = [d EXCEPT ![r][m] = to]
    PROVE  /\ DOMAIN e = Resources /\ \A q \in Resources : e[q] \in [Members(q) -> Locations]
           /\ \A q \in Resources : \A k \in Members(q) : e[q][k] = IF q = r /\ k = m THEN to ELSE d[q][k]
<1>1. \A q \in Resources : q # r => e[q] = d[q] OBVIOUS
<1>2. e[r] = [d[r] EXCEPT ![m] = to] OBVIOUS
<1>3. e[r] \in [Members(r) -> Locations] BY <1>2
<1>. QED BY <1>1, <1>2, <1>3

LEMMA EvidenceTyped == ASSUME Typed, NEW r \in Resources PROVE Evidence(r) \in EvidenceType
<1>1. {b \in Bundles \ {r} : src[b].retained /\ SourceRead(b)} \in SUBSET Bundles OBVIOUS
<1>2. {q \in Resources \ {r} : Registered(q) /\ Whole(q)} \in SUBSET Resources OBVIOUS
<1>. QED BY <1>1, <1>2 DEF Evidence, EvidenceType, Typed

LEMMA PlanTyped == ASSUME Typed, NEW t \in 0..MaxClock PROVE Plan(t) \in PlanType
<1>1. Blockers \in SUBSET ({"resource", "source", "path"} \X Resources)
  BY DEF Blockers, Resources, Directories
<1>2. Executable(t) \in SUBSET Resources BY DEF Executable
<1>3. [r \in {q \in Directories : Registered(q)} |-> TreesAt(r, reg[r].at)]
         \in UNION {[S -> SUBSET Resources] : S \in SUBSET Directories}
  <2>1. \A r \in Directories : \A l : TreesAt(r, l) \in SUBSET Resources
    BY DEF TreesAt, SamePath, Resources, Directories
  <2>. DEFINE S == {q \in Directories : Registered(q)}
  <2>2. [r \in S |-> TreesAt(r, reg[r].at)] \in [S -> SUBSET Resources] BY <2>1
  <2>3. S \in SUBSET Directories OBVIOUS
  <2>. HIDE DEF S
  <2>4. [r \in S |-> TreesAt(r, reg[r].at)] \in UNION {[S1 -> SUBSET Resources] : S1 \in SUBSET Directories}
    BY <2>2, <2>3
  <2>. QED BY <2>4 DEF S
<1>. QED BY <1>1, <1>2, <1>3 DEF Plan, PlanType, Typed

LEMMA ItemTyped ==
    ASSUME Typed, NEW n \in Batches
    PROVE  /\ batches[n] \in BatchType /\ DOMAIN batches[n].items \subseteq Resources
           /\ \A r \in DOMAIN batches[n].items : Item(n, r) \in ItemType
<1>1. batches[n] \in BatchType BY DEF Typed, BatchesTyped, Batches
<1>. QED BY <1>1 DEF BatchType, Item

\* What a write of one item leaves of the journal.
Keeps(n, r, item) ==
    /\ BatchesTyped' /\ Batches' = Batches
    /\ \A k \in Batches :
          /\ batches'[k].plan = batches[k].plan /\ batches'[k].purgeAfter = batches[k].purgeAfter
          /\ DOMAIN batches'[k].items = DOMAIN batches[k].items
          /\ \A q \in DOMAIN batches[k].items :
                batches'[k].items[q] = IF k = n /\ q = r THEN item ELSE Item(k, q)

LEMMA Saved ==
    ASSUME Typed, NEW n \in Batches, NEW r \in DOMAIN batches[n].items, NEW item \in ItemType, Save(n, r, item)
    PROVE  Keeps(n, r, item)
<1>1. batches \in Seq(BatchType) /\ Len(batches) <= MaxBatches BY DEF Typed, BatchesTyped
<1>2. batches' = [batches EXCEPT ![n].items[r] = item] BY DEF Save
<1>3. n \in 1..Len(batches) BY DEF Batches
<1>4. /\ batches' \in Seq(BatchType) /\ Len(batches') = Len(batches)
      /\ \A k \in 1..Len(batches) :
            /\ batches'[k].plan = batches[k].plan /\ batches'[k].purgeAfter = batches[k].purgeAfter
            /\ DOMAIN batches'[k].items = DOMAIN batches[k].items
            /\ \A q \in DOMAIN batches[k].items :
                  batches'[k].items[q] = IF k = n /\ q = r THEN item ELSE batches[k].items[q]
  <2>. DEFINE b == batches
              c == batches'
  <2>1. b \in Seq(BatchType) /\ n \in 1..Len(b) /\ r \in DOMAIN b[n].items /\ c = Written(b, n, r, item)
    BY <1>1, <1>2, <1>3 DEF Written
  <2>. HIDE DEF b, c
  <2>2. /\ c \in Seq(BatchType) /\ Len(c) = Len(b)
        /\ \A k \in 1..Len(b) :
              /\ c[k].plan = b[k].plan /\ c[k].purgeAfter = b[k].purgeAfter
              /\ DOMAIN c[k].items = DOMAIN b[k].items
              /\ \A q \in DOMAIN b[k].items :
                    c[k].items[q] = IF k = n /\ q = r THEN item ELSE b[k].items[q]
    BY <2>1, SaveFacts
  <2>. QED BY <2>2 DEF b, c
<1>. QED BY <1>1, <1>4 DEF Keeps, BatchesTyped, Batches, Item

\* What a transition writes to the registry.
Registers(n, r, state) ==
    /\ \A q \in Resources : q # r => reg'[q] = reg[q]
    /\ reg'[r].at = (IF state = "restored" THEN 0 ELSE n)
    /\ reg'[r].state = (IF state = "restored" THEN "registered" ELSE state)
    /\ reg'[r].pinned = reg[r].pinned /\ reg'[r].verified = reg[r].verified

LEMMA Transitioned ==
    ASSUME Typed, RegisteredAtPath, NEW n \in Batches, NEW r \in DOMAIN batches[n].items,
           NEW state \in {"quarantined", "restored", "purged"}, Transition(n, r, state)
    PROVE  /\ Keeps(n, r, [Item(n, r) EXCEPT !.state = state])
           /\ reg' \in RegType /\ src' \in SrcType /\ RegisteredAtPath' /\ Registers(n, r, state)
<1>1. r \in Resources /\ Item(n, r) \in ItemType BY ItemTyped
<1>2. [Item(n, r) EXCEPT !.state = state] \in ItemType BY <1>1 DEF ItemType, ItemStates
<1>3. Save(n, r, [Item(n, r) EXCEPT !.state = state]) BY DEF Transition
<1>4. Keeps(n, r, [Item(n, r) EXCEPT !.state = state]) BY <1>2, <1>3, Saved
<1>5. n \in 0..MaxBatches /\ 0 \in 0..MaxBatches
  BY ConstantsAssumption DEF Batches, Typed, BatchesTyped
<1>6. reg' = [reg EXCEPT ![r].at = IF state = "restored" THEN 0 ELSE n,
                         ![r].state = IF state = "restored" THEN "registered" ELSE state]
  BY DEF Transition
<1>7. reg \in RegType BY DEF Typed
<1>8. (IF state = "restored" THEN 0 ELSE n) \in 0..MaxBatches BY <1>5
<1>9. reg' \in RegType
  <2>. DEFINE to == IF state = "restored" THEN 0 ELSE n
              st == IF state = "restored" THEN "registered" ELSE state
  <2>1. to \in 0..MaxBatches /\ st \in {"none", "registered", "quarantined", "purged"} BY <1>8
  <2>2. reg' = [reg EXCEPT ![r].at = to, ![r].state = st] BY <1>6
  <2>. HIDE DEF to, st
  <2>3. reg' = [reg EXCEPT ![r] = [reg[r] EXCEPT !.at = to, !.state = st]] BY <2>2, <1>1, <1>7 DEF RegType
  <2>4. [reg[r] EXCEPT !.at = to, !.state = st]
            \in [state : {"none", "registered", "quarantined", "purged"}, at : 0..MaxBatches, pinned : BOOLEAN,
                verified : Never..MaxClock, used : Never..MaxClock]
    BY <2>1, <1>1, <1>7 DEF RegType
  <2>. QED BY <2>3, <2>4, <1>7 DEF RegType
<1>10. /\ \A q \in Resources : q # r => reg'[q] = reg[q]
       /\ reg'[r] = [reg[r] EXCEPT !.at = IF state = "restored" THEN 0 ELSE n,
                                   !.state = IF state = "restored" THEN "registered" ELSE state]
  BY <1>1, <1>6, <1>7 DEF RegType
<1>11. RegisteredAtPath'
  <2>1. reg[r] \in [state : {"none", "registered", "quarantined", "purged"}, at : 0..MaxBatches, pinned : BOOLEAN,
                    verified : Never..MaxClock, used : Never..MaxClock]
    BY <1>1, <1>7 DEF RegType
  <2>2. reg'[r].at = (IF state = "restored" THEN 0 ELSE n)
        /\ reg'[r].state = (IF state = "restored" THEN "registered" ELSE state)
    BY <2>1, <1>10
  <2>3. \A q \in Resources : q # r => reg'[q] = reg[q] BY <1>10
  <2>4. reg'[r].state \in {"none", "registered"} => reg'[r].at = 0 BY <2>2
  <2>. QED BY <2>3, <2>4 DEF RegisteredAtPath
<1>12. src' \in SrcType
  <2>1. CASE r \notin Bundles BY <2>1 DEF Transition, Typed
  <2>2. CASE r \in Bundles
    <3>1. src \in SrcType BY DEF Typed
    <3>2. src' = [src EXCEPT ![r] = [at |-> IF state = "restored" THEN 0 ELSE n,
                                     retained |-> src[r].retained /\ state # "purged"]]
      BY <2>2 DEF Transition
    <3>. QED BY <3>1, <3>2, <1>8, <2>2 DEF SrcType
  <2>. QED BY <2>1, <2>2
<1>13. /\ reg'[r].at = (IF state = "restored" THEN 0 ELSE n)
       /\ reg'[r].state = (IF state = "restored" THEN "registered" ELSE state)
       /\ reg'[r].pinned = reg[r].pinned /\ reg'[r].verified = reg[r].verified
  <2>1. reg[r] \in [state : {"none", "registered", "quarantined", "purged"}, at : 0..MaxBatches, pinned : BOOLEAN,
                    verified : Never..MaxClock, used : Never..MaxClock]
    BY <1>1, <1>7 DEF RegType
  <2>. QED BY <1>10, <2>1
<1>14. \A q \in Resources : q # r => reg'[q] = reg[q] BY <1>10
<1>15. Registers(n, r, state) BY <1>13, <1>14 DEF Registers
<1>. QED BY <1>4, <1>9, <1>11, <1>12, <1>15

\* The items a call has left to handle are as it finds them.
LEMMA Dismissed ==
    ASSUME Governed, op.call # "none", NEW r \in op.todo, clock' = clock, op' \in OpType,
           op'.call = op.call, op'.n = op.n, op'.todo = op.todo \ {r},
           op'.at = IF op.at = "reconcile" THEN "reconcile" ELSE "item",
           NEW item, Keeps(op.n, r, item) \/ (BatchesTyped' /\ UNCHANGED batches)
    PROVE  OpInv'
<1>1. Working BY DEF Governed, OpInv
<1>2. /\ Batches' = Batches /\ \A k \in Batches : batches'[k].purgeAfter = batches[k].purgeAfter
      /\ DOMAIN batches'[op.n].items = DOMAIN batches[op.n].items
      /\ \A q \in op.todo \ {r} : batches'[op.n].items[q] = Item(op.n, q)
  BY <1>1 DEF Keeps, Working, Item, Batches
<1>3. ToHandle(op') = ToHandle(op) BY DEF ToHandle
<1>4. Working' BY <1>1, <1>2, <1>3 DEF Working, Item
<1>. QED BY <1>4 DEF OpInv

LEMMA Stopped == ASSUME Governed, op' = Idle PROVE op' \in OpType /\ OpInv'
<1>. QED BY ConstantsAssumption DEF Idle, OpType, OpInv

\* A call goes on to the next step of the same item.
LEMMA GoesOn ==
    ASSUME Governed, op.call # "none", op.at # "reconcile", op.todo # {}, clock' = clock,
           NEW at \in {"mkdir", "identity", "move", "moved"}, op' = [op EXCEPT !.at = at],
           NEW item, \/ Keeps(op.n, First(op.todo), item) /\ item.state = Item(op.n, First(op.todo)).state
                     \/ UNCHANGED batches
    PROVE  op' \in OpType /\ OpInv'
<1>1. Working /\ op \in OpType BY DEF Governed, OpInv, Typed
<1>2. op' \in OpType BY <1>1 DEF OpType
<1>3. /\ op'.call = op.call /\ op'.n = op.n /\ op'.todo = op.todo /\ op'.at = at
  BY <1>1 DEF OpType
<1>4. /\ Batches' = Batches /\ \A k \in Batches : batches'[k].purgeAfter = batches[k].purgeAfter
      /\ DOMAIN batches'[op.n].items = DOMAIN batches[op.n].items
      /\ \A q \in op.todo : batches'[op.n].items[q].state = Item(op.n, q).state
  BY <1>1 DEF Keeps, Working, Item, Batches
<1>5. ToHandle(op') = ToHandle(op) BY <1>3 DEF ToHandle
<1>6. Working' BY <1>1, <1>3, <1>4, <1>5 DEF Working, Item
<1>. QED BY <1>2, <1>3, <1>6 DEF OpInv

-----------------------------------------------------------------------------
(* Between the calls.                                                      *)

LEMMA InitGoverned == Init => Governed
<1>. SUFFICES ASSUME Init PROVE Governed
  OBVIOUS
<1>1. PICK w \in Worlds :
        /\ disk = [r \in Resources |-> [m \in Members(r) |-> IF r \in w.first THEN 0 ELSE Gone]]
        /\ reg = [r \in Resources |-> IF r \in w.first
                      THEN [Unregistered EXCEPT !.state = "registered",
                                !.verified = IF r \in Backups \cup Bundles THEN 0 ELSE Never,
                                !.used = IF r \in Caches THEN 0 ELSE Never]
                      ELSE Unregistered]
        /\ src = [b \in Bundles |-> [at |-> 0, retained |-> b \in w.first]]
        /\ later = w.later
  BY DEF Init
<1>2. /\ clock = 0 /\ holders = {} /\ batches = <<>> /\ plans = {} /\ op = Idle
      /\ facts = [revision |-> 0, needed |-> {}, recovered |-> {},
                  done |-> [r \in Runs \cup Backups |-> IF r \in Backups THEN 0 ELSE Never]]
      /\ spent = [faults |-> 0, changes |-> 0]
  BY DEF Init
<1>3. 0 \in 0..MaxBatches /\ 0 \in 0..MaxClock /\ 0 \in Never..MaxClock /\ Never \in Never..MaxClock
      /\ {0, Gone} \subseteq Locations /\ MaxFaults \in Nat /\ MaxChanges \in Nat
  BY ConstantsAssumption DEF Never, Gone, Locations
<1>4. DiskTyped BY <1>1, <1>3 DEF DiskTyped
<1>5. reg \in RegType /\ RegisteredAtPath
  BY <1>1, <1>3 DEF RegType, Unregistered, RegisteredAtPath
<1>6. src \in SrcType
  <2>1. \A b \in Bundles : (b \in w.first) \in BOOLEAN OBVIOUS
  <2>. QED BY <1>1, <1>3, <2>1, Zenon DEF SrcType
<1>7. facts \in FactsType BY <1>2, <1>3 DEF FactsType
<1>8. op \in OpType /\ OpInv BY <1>2, <1>3 DEF OpType, Idle, OpInv
<1>9. BatchesTyped /\ PlansTyped BY <1>2, ConstantsAssumption DEF BatchesTyped, PlansTyped
<1>10. later \subseteq Resources BY <1>1, ConstantsAssumption
<1>11. spent \in [faults : 0..MaxFaults, changes : 0..MaxChanges] BY <1>2, <1>3
<1>. QED BY <1>2, <1>3, <1>4, <1>5, <1>6, <1>7, <1>8, <1>9, <1>10, <1>11 DEF Governed, Typed

LEMMA Changed ==
    ASSUME Governed, NEW f, Change(f), Bump(f) \in FactsType, DiskTyped', reg' \in RegType,
           RegisteredAtPath', src' \in SrcType, later' \subseteq Resources
    PROVE  Governed'
<1>1. /\ op = Idle /\ clock' = clock /\ holders' = holders /\ batches' = batches
      /\ plans' = plans /\ op' = op /\ facts' = Bump(f)
  BY DEF Change, calls, Between, Governed, OpInv
<1>2. spent' \in [faults : 0..MaxFaults, changes : 0..MaxChanges]
  BY ConstantsAssumption DEF Change, Governed, Typed
<1>3. OpInv' BY <1>1 DEF OpInv, Idle
<1>. QED BY <1>1, <1>2, <1>3 DEF Governed, Typed, BatchesTyped, PlansTyped

LEMMA GovernedAgain ==
    ASSUME Governed, NEW register \in RegType, Govern(register),
           \A r \in Resources : register[r].state \in {"none", "registered"} => register[r].at = 0,
           spent' \in [faults : 0..MaxFaults, changes : 0..MaxChanges]
    PROVE  Governed'
<1>1. /\ op = Idle /\ clock' = clock /\ holders' = holders /\ batches' = batches /\ disk' = disk
      /\ plans' = plans /\ op' = op /\ facts' = facts /\ src' = src /\ later' = later /\ reg' = register
  BY DEF Govern, calls, Between, Governed, OpInv
<1>2. OpInv' BY <1>1 DEF OpInv, Idle
<1>. QED BY <1>1, <1>2 DEF Governed, Typed, BatchesTyped, PlansTyped, DiskTyped, RegisteredAtPath

LEMMA CountedTyped == ASSUME Governed, Counted PROVE spent' \in [faults : 0..MaxFaults, changes : 0..MaxChanges]
<1>. QED BY ConstantsAssumption DEF Counted, Governed, Typed

LEMMA BumpTyped == ASSUME NEW f \in FactsType PROVE Bump(f) \in FactsType
<1>. QED BY DEF Bump, FactsType

LEMMA TickGoverned == ASSUME Governed, Tick PROVE Governed'
<1>1. clock' \in 0..MaxClock BY ConstantsAssumption DEF Tick, Governed, Typed
<1>2. OpInv'
  <2>1. CASE op.call = "none" BY <2>1 DEF Tick, OpInv, Governed
  <2>2. CASE op.call # "none"
    <3>1. Working BY <2>2 DEF Governed, OpInv
    <3>2. /\ clock \in Nat /\ clock' = clock + 1 /\ op' = op /\ batches' = batches
          /\ op.n \in Batches /\ batches[op.n].purgeAfter \in Nat
      <4>1. op.n \in Batches BY <3>1 DEF Working
      <4>2. batches[op.n].purgeAfter \in Nat BY <4>1, ItemTyped DEF BatchType, Governed
      <4>. QED BY <4>1, <4>2 DEF Tick, Governed, Typed
    <3>3. Working' BY <3>1, <3>2 DEF Working, Batches, Item, ToHandle
    <3>. QED BY <3>2, <3>3, <2>2 DEF OpInv
  <2>. QED BY <2>1, <2>2
<1>. QED BY <1>1, <1>2
     DEF Tick, Governed, Typed, DiskTyped, BatchesTyped, PlansTyped, RegisteredAtPath

LEMMA WriteRowsGoverned == ASSUME Governed, WriteRows PROVE Governed'
<1>1. Bump(facts) \in FactsType BY BumpTyped DEF Governed, Typed
<1>. QED BY <1>1, Changed DEF WriteRows, Governed, Typed, DiskTyped, RegisteredAtPath

LEMMA StartRunGoverned == ASSUME Governed, NEW r \in Resources, StartRun(r) PROVE Governed'
<1>1. Bump(facts) \in FactsType BY BumpTyped DEF Governed, Typed
<1>2. DiskTyped'
  <2>1. r \in Resources /\ "tree" \in Members(r) /\ 0 \in Locations
    BY ConstantsAssumption DEF StartRun, Members, Locations, Gone, Resources, Directories
  <2>. QED BY <2>1, MoveFacts DEF StartRun, Governed, Typed, DiskTyped
<1>. QED BY <1>1, <1>2, Changed DEF StartRun, Governed, Typed, RegisteredAtPath

LEMMA FinishRunGoverned ==
    ASSUME Governed, NEW r \in Resources, NEW recovered \in BOOLEAN, FinishRun(r, recovered)
    PROVE  Governed'
<1>. DEFINE f == [facts EXCEPT !.done[r] = clock,
                               !.recovered = IF recovered THEN @ \cup {r} ELSE @]
<1>1. f \in FactsType
  <2>1. r \in Runs /\ clock \in Never..MaxClock /\ facts \in FactsType
    BY ConstantsAssumption DEF FinishRun, Governed, Typed, Never
  <2>2. [facts.done EXCEPT ![r] = clock] \in [Runs \cup Backups -> Never..MaxClock]
    BY <2>1 DEF FactsType
  <2>3. (IF recovered THEN facts.recovered \cup {r} ELSE facts.recovered) \in SUBSET Runs
    BY <2>1 DEF FactsType
  <2>. QED BY <2>1, <2>2, <2>3 DEF FactsType
<1>2. Bump(f) \in FactsType
  <2>. HIDE DEF f
  <2>. QED BY <1>1, BumpTyped
<1>3. Change(f) BY DEF FinishRun
<1>. HIDE DEF f
<1>. QED BY <1>2, <1>3, Changed DEF FinishRun, Governed, Typed, RegisteredAtPath, DiskTyped

LEMMA DependGoverned == ASSUME Governed, NEW r \in Resources, Depend(r) PROVE Governed'
<1>1. [facts EXCEPT !.needed = @ \cup {r}] \in FactsType
  BY DEF Governed, Typed, FactsType
<1>2. Bump([facts EXCEPT !.needed = @ \cup {r}]) \in FactsType BY <1>1, BumpTyped
<1>. QED BY <1>2, Changed DEF Depend, Governed, Typed, RegisteredAtPath, DiskTyped

LEMMA BuildCacheGoverned == ASSUME Governed, NEW r \in Resources, BuildCache(r) PROVE Governed'
<1>1. Bump(facts) \in FactsType BY BumpTyped DEF Governed, Typed
<1>2. DiskTyped'
  <2>1. r \in Resources /\ "tree" \in Members(r) /\ 0 \in Locations
    BY ConstantsAssumption DEF BuildCache, Members, Locations, Gone, Resources, Directories
  <2>. QED BY <2>1, MoveFacts DEF BuildCache, Governed, Typed, DiskTyped
<1>. QED BY <1>1, <1>2, Changed DEF BuildCache, Governed, Typed, RegisteredAtPath

LEMMA LeaveRecoveryPointGoverned ==
    ASSUME Governed, NEW r \in Resources, LeaveRecoveryPoint(r) PROVE Governed'
<1>1. Bump(facts) \in FactsType BY BumpTyped DEF Governed, Typed
<1>2. DiskTyped'
  <2>1. 0 \in Locations BY ConstantsAssumption DEF Locations, Gone
  <2>. QED BY <2>1 DEF LeaveRecoveryPoint, Governed, Typed, DiskTyped
<1>3. src' \in SrcType BY DEF LeaveRecoveryPoint, Governed, Typed, SrcType
<1>. QED BY <1>1, <1>2, <1>3, Changed DEF LeaveRecoveryPoint, Governed, Typed, RegisteredAtPath

LEMMA RegisterResourceGoverned ==
    ASSUME Governed, NEW r \in Resources, NEW pin \in BOOLEAN, RegisterResource(r, pin) PROVE Governed'
<1>. DEFINE new == [reg EXCEPT ![r].pinned = pin, ![r].verified = Never,
                               ![r].used = IF r \in Caches THEN clock ELSE @]
<1>1. reg \in RegType /\ clock \in Never..MaxClock /\ Never \in Never..MaxClock
  BY ConstantsAssumption DEF Governed, Typed, Never
<1>2. new = [reg EXCEPT ![r] = [reg[r] EXCEPT !.pinned = pin, !.verified = Never,
                                              !.used = IF r \in Caches THEN clock ELSE reg[r].used]]
  BY <1>1 DEF RegType
<1>3. new \in RegType BY <1>1, <1>2 DEF RegType
<1>4. \A q \in Resources : new[q].state = reg[q].state /\ new[q].at = reg[q].at
  BY <1>1, <1>2 DEF RegType
<1>5. Govern(new) BY DEF RegisterResource
<1>. HIDE DEF new
<1>. QED BY <1>3, <1>4, <1>5, GovernedAgain, CountedTyped DEF RegisterResource, Governed, RegisteredAtPath

LEMMA VerifyResourceGoverned ==
    ASSUME Governed, NEW r \in Resources, VerifyResource(r) PROVE Governed'
<1>. DEFINE new == [reg EXCEPT ![r].verified = clock]
<1>1. reg \in RegType /\ clock \in Never..MaxClock
  BY ConstantsAssumption DEF Governed, Typed, Never
<1>2. new \in RegType BY <1>1 DEF RegType
<1>3. \A q \in Resources : new[q].state = reg[q].state /\ new[q].at = reg[q].at
  BY <1>1 DEF RegType
<1>4. Govern(new) BY DEF VerifyResource
<1>. HIDE DEF new
<1>. QED BY <1>2, <1>3, <1>4, GovernedAgain, CountedTyped DEF VerifyResource, Governed, RegisteredAtPath

LEMMA RegisterFlatGoverned ==
    ASSUME Governed, NEW r \in Resources, NEW verified \in {Never, clock}, RegisterFlat(r, verified)
    PROVE  Governed'
<1>. DEFINE new == [reg EXCEPT ![r].state = "registered", ![r].verified = verified]
<1>1. reg \in RegType /\ verified \in Never..MaxClock
  BY ConstantsAssumption DEF Governed, Typed, Never
<1>2. new = [reg EXCEPT ![r] = [reg[r] EXCEPT !.state = "registered", !.verified = verified]]
  BY <1>1 DEF RegType
<1>3. new \in RegType BY <1>1, <1>2 DEF RegType
<1>4. /\ \A q \in Resources : q # r => new[q] = reg[q]
      /\ new[r].at = reg[r].at /\ reg[r].state \in {"none", "registered"}
  BY <1>1, <1>2 DEF RegType, RegisterFlat
<1>5. \A q \in Resources : new[q].state \in {"none", "registered"} => new[q].at = 0
  BY <1>4 DEF Governed, RegisteredAtPath
<1>6. Govern(new) BY DEF RegisterFlat
<1>. HIDE DEF new
<1>. QED BY <1>3, <1>5, <1>6, GovernedAgain, CountedTyped DEF RegisterFlat

LEMMA DiscoverGoverned == ASSUME Governed, Discover PROVE Governed'
<1>. DEFINE new == [r \in Resources |->
                      IF r \in Directories /\ Unclaimed(r)
                      THEN [Unregistered EXCEPT !.state = "registered",
                                !.used = IF r \in Caches THEN clock ELSE Never]
                      ELSE reg[r]]
<1>1. reg \in RegType /\ clock \in Never..MaxClock /\ Never \in Never..MaxClock /\ 0 \in 0..MaxBatches
  BY ConstantsAssumption DEF Governed, Typed, Never
<1>2. new \in RegType BY <1>1 DEF RegType, Unregistered
<1>3. \A q \in Resources : new[q].state \in {"none", "registered"} => new[q].at = 0
  BY DEF Governed, RegisteredAtPath, Unregistered
<1>4. Govern(new) BY DEF Discover
<1>5. spent' \in [faults : 0..MaxFaults, changes : 0..MaxChanges] BY DEF Discover, Governed, Typed
<1>. HIDE DEF new
<1>. QED BY <1>2, <1>3, <1>4, <1>5, GovernedAgain

-----------------------------------------------------------------------------
(* The calls.                                                              *)

\* What a call leaves alone, and what its own part of the state is after a step.
LEMMA CallGoverned ==
    ASSUME Governed, UNCHANGED <<clock, facts, later>>, DiskTyped',
           holders' \subseteq (1..MaxBatches) \X Resources, reg' \in RegType, src' \in SrcType,
           RegisteredAtPath', BatchesTyped', PlansTyped', op' \in OpType, OpInv',
           spent' \in [faults : 0..MaxFaults, changes : 0..MaxChanges]
    PROVE  Governed'
<1>. QED BY DEF Governed, Typed

\* A step of a call that writes no row.
LEMMA Rowless ==
    ASSUME Governed, Still, UNCHANGED <<reg, src, batches>>, op' \in OpType, OpInv'
    PROVE  Governed'
<1>. QED BY DEF Governed, Typed, DiskTyped, BatchesTyped, PlansTyped, RegisteredAtPath, Still, world

LEMMA StopGoverned == ASSUME Governed, Stop, Still PROVE Governed'
<1>. QED BY Stopped, Rowless DEF Stop

\* The item at hand.
LEMMA AtHand ==
    ASSUME Governed, op.call # "none", op.todo # {}
    PROVE  /\ op.n \in Batches /\ First(op.todo) \in op.todo /\ First(op.todo) \in DOMAIN batches[op.n].items
           /\ First(op.todo) \in Resources /\ Item(op.n, First(op.todo)) \in ItemType
           /\ Item(op.n, First(op.todo)).state \in ToHandle(op)
           /\ op.n \in 1..MaxBatches
<1>1. Working BY DEF Governed, OpInv
<1>2. op.todo \subseteq Resources BY DEF Governed, Typed, OpType
<1>3. First(op.todo) \in op.todo BY <1>2, FirstIn
<1>4. op.n \in 1..MaxBatches BY <1>1, ConstantsAssumption DEF Working, Batches, Governed, Typed, BatchesTyped
<1>. QED BY <1>1, <1>2, <1>3, <1>4, ItemTyped DEF Working, Governed

LEMMA SkipGoverned == ASSUME Governed, op.call # "none", op.todo # {}, op.at = "reconcile", Skip, Still PROVE Governed'
<1>1. op \in OpType BY DEF Governed, Typed
<1>2. op' \in OpType /\ op'.call = op.call /\ op'.n = op.n /\ op'.at = op.at /\ op'.todo = op.todo \ {First(op.todo)}
  BY <1>1 DEF Skip, OpType
<1>3. UNCHANGED batches /\ clock' = clock /\ BatchesTyped'
  BY DEF Skip, Still, world, Governed, Typed, BatchesTyped
<1>4. First(op.todo) \in op.todo BY AtHand
<1>5. OpInv' BY <1>2, <1>3, <1>4, Dismissed
<1>. QED BY <1>2, <1>5, Rowless DEF Skip

\* The row of the item at hand is written and the call goes to the next item.
Row(state) ==
    /\ Transition(op.n, First(op.todo), state)
    /\ op' = [op EXCEPT !.at = IF op.at = "reconcile" THEN "reconcile" ELSE "item",
                        !.todo = @ \ {First(@)}]
    /\ Still

LEMMA RowGoverned ==
    ASSUME Governed, op.call # "none", op.todo # {},
           NEW state \in {"quarantined", "restored", "purged"}, Row(state)
    PROVE  Governed'
<1>. DEFINE n == op.n
            r == First(op.todo)
            item == [Item(n, r) EXCEPT !.state = state]
<1>1. n \in Batches /\ r \in op.todo /\ r \in DOMAIN batches[n].items BY AtHand
<1>2. /\ Keeps(n, r, item) /\ reg' \in RegType /\ src' \in SrcType /\ RegisteredAtPath'
  BY <1>1, Transitioned DEF Row, Governed
<1>3. op \in OpType BY DEF Governed, Typed
<1>4. /\ op' \in OpType /\ op'.call = op.call /\ op'.n = op.n /\ op'.todo = op.todo \ {r}
      /\ op'.at = IF op.at = "reconcile" THEN "reconcile" ELSE "item"
  BY <1>3 DEF Row, OpType
<1>5. clock' = clock BY DEF Row, Still, world
<1>6. OpInv'
  <2>. HIDE DEF item
  <2>. QED BY <1>1, <1>2, <1>4, <1>5, Dismissed
<1>7. /\ DiskTyped' /\ holders' \subseteq (1..MaxBatches) \X Resources /\ PlansTyped'
      /\ spent' \in [faults : 0..MaxFaults, changes : 0..MaxChanges]
      /\ UNCHANGED <<clock, facts, later>>
  BY DEF Row, Still, world, Governed, Typed, DiskTyped, PlansTyped
<1>8. BatchesTyped' BY <1>2 DEF Keeps
<1>. QED BY <1>2, <1>4, <1>6, <1>7, <1>8, CallGoverned

\* A call goes on with the item at hand; its files, or what the journal notes of them, may change.
LEMMA OnGoverned ==
    ASSUME Governed, op.call # "none", op.at # "reconcile", op.todo # {},
           NEW at \in {"mkdir", "identity", "move", "moved"}, Goto(at),
           UNCHANGED <<clock, facts, later, reg, src, plans, spent>>, DiskTyped',
           holders' \subseteq (1..MaxBatches) \X Resources,
           NEW item, \/ Keeps(op.n, First(op.todo), item) /\ item.state = Item(op.n, First(op.todo)).state
                     \/ UNCHANGED batches
    PROVE  Governed'
<1>1. op' \in OpType /\ OpInv' BY GoesOn DEF Goto
<1>2. BatchesTyped' BY DEF Keeps, Governed, Typed, BatchesTyped
<1>3. reg' \in RegType /\ src' \in SrcType /\ RegisteredAtPath' /\ PlansTyped'
      /\ spent' \in [faults : 0..MaxFaults, changes : 0..MaxChanges]
  BY DEF Governed, Typed, RegisteredAtPath, PlansTyped
<1>. QED BY <1>1, <1>2, <1>3, CallGoverned

LEMMA InCall == ASSUME Governed, op.at # "none" PROVE op.call # "none" /\ Working
<1>. QED BY DEF Governed, OpInv, Idle

LEMMA FilesGoverned ==
    ASSUME Governed, op' = op, UNCHANGED <<clock, facts, later, reg, src, batches, plans, spent>>,
           DiskTyped', holders' \subseteq (1..MaxBatches) \X Resources
    PROVE  Governed'
<1>1. OpInv' BY DEF Governed, OpInv, Working, Batches, Item, ToHandle, Idle
<1>. QED BY <1>1 DEF Governed, Typed, BatchesTyped, PlansTyped, RegisteredAtPath

LEMMA MovedTyped ==
    ASSUME Governed, NEW r \in Resources, NEW m, NEW to \in {Gone, 0, op.n}, Move(r, m, to)
    PROVE  /\ DiskTyped'
           /\ \A q \in Resources : \A k \in Members(q) : disk'[q][k] = IF q = r /\ k = m THEN to ELSE disk[q][k]
<1>1. to \in Locations BY ConstantsAssumption DEF Locations, Gone, Governed, Typed, OpType
<1>2. disk' = [disk EXCEPT ![r][m] = to] BY DEF Move
<1>3. DOMAIN disk = Resources /\ \A q \in Resources : disk[q] \in [Members(q) -> Locations]
  BY DEF Governed, Typed, DiskTyped
<1>4. /\ DOMAIN disk' = Resources /\ \A q \in Resources : disk'[q] \in [Members(q) -> Locations]
      /\ \A q \in Resources : \A k \in Members(q) : disk'[q][k] = IF q = r /\ k = m THEN to ELSE disk[q][k]
  BY ZenonT(60), <1>1, <1>2, <1>3, MoveFacts
<1>. QED BY <1>4 DEF DiskTyped

LEMMA PreviewGoverned == ASSUME Governed, Preview PROVE Governed'
<1>1. Plan(clock) \in PlanType BY PlanTyped DEF Governed, Typed
<1>2. PlansTyped' BY <1>1 DEF Preview, PlansTyped
<1>3. OpInv' BY DEF Preview, Governed, OpInv, Between, Idle
<1>. QED BY <1>2, <1>3 DEF Preview, world, Governed, Typed, DiskTyped, BatchesTyped, RegisteredAtPath

\* What a plan takes is at its original path.
LEMMA TreeTaken ==
    ASSUME Governed, NEW t, NEW r \in Executable(t)
    PROVE  /\ r \in Resources /\ reg[r].state = "registered" /\ reg[r].at = 0
           /\ r \in Directories => First(TreesAt(r, 0)) \in TreesAt(r, 0)
<1>1. r \in Resources /\ reg[r].state = "registered" /\ Whole(r) BY DEF Executable, Candidate, Valid
<1>2. reg[r].at = 0 BY <1>1 DEF Governed, RegisteredAtPath
<1>3. CASE r \in Directories
  <2>1. r \notin Bundles BY <1>3, ConstantsAssumption
  <2>2. TreesAt(r, 0) # {} BY <1>1, <1>2, <2>1 DEF Whole
  <2>3. TreesAt(r, 0) \subseteq Resources BY <1>3 DEF TreesAt, SamePath, Resources, Directories
  <2>. QED BY <1>1, <1>2, <2>2, <2>3, FirstIn
<1>. QED BY <1>1, <1>2, <1>3

\* The items of a new batch.
Fresh(items) ==
    [r \in items |-> [state |-> "planned", dir |-> FALSE, guard |-> NoGuard, purgeGuard |-> NoGuard,
                      tree |-> IF r \in Directories THEN First(TreesAt(r, 0)) ELSE r]]

\* The journal a new batch is added to.
Started(plan) ==
    /\ BatchesTyped' /\ Len(batches') = Len(batches) + 1 /\ Batches' = Batches \cup {Len(batches')}
    /\ Len(batches') \notin Batches
    /\ \A n \in Batches : batches'[n] = batches[n]
    /\ batches'[Len(batches')] = [plan |-> plan, purgeAfter |-> clock + Grace, items |-> Fresh(plan.items)]

LEMMA ExecuteStarts ==
    ASSUME Governed, NEW plan \in plans, Execute(plan)
    PROVE  /\ Started(plan) /\ plan = Plan(plan.asOf) /\ plan.items = Executable(plan.asOf)
           /\ Fresh(plan.items) \in [plan.items -> ItemType] /\ plan.items \subseteq Resources
           /\ op' = [call |-> "execute", n |-> Len(batches'), at |-> "reconcile", todo |-> plan.items]
<1>1. plan \in PlanType BY DEF Governed, Typed, PlansTyped
<1>2. plan = Plan(plan.asOf) BY DEF Execute
<1>3. plan.items = Executable(plan.asOf) BY <1>2 DEF Plan
<1>4. plan.items \subseteq Resources BY <1>1 DEF PlanType
<1>5. \A r \in plan.items : (IF r \in Directories THEN First(TreesAt(r, 0)) ELSE r) \in Resources
  <2>. TAKE r \in plan.items
  <2>1. CASE r \in Directories
    <3>1. First(TreesAt(r, 0)) \in TreesAt(r, 0) BY <1>3, <2>1, TreeTaken
    <3>2. TreesAt(r, 0) \subseteq Resources BY <2>1 DEF TreesAt, SamePath, Resources, Directories
    <3>. QED BY <2>1, <3>1, <3>2
  <2>. QED BY <2>1, <1>4
<1>6. Fresh(plan.items) \in [plan.items -> ItemType] BY <1>5 DEF Fresh, ItemType, ItemStates
<1>. DEFINE x == [plan |-> plan, purgeAfter |-> clock + Grace, items |-> Fresh(plan.items)]
<1>7. clock + Grace \in Nat BY ConstantsAssumption DEF Governed, Typed
<1>8. x \in BatchType
  <2>1. Fresh(plan.items) \in UNION {[S -> ItemType] : S \in SUBSET Resources} BY <1>4, <1>6
  <2>. QED BY <1>1, <1>7, <2>1 DEF BatchType
<1>9. batches' = Append(batches, x) BY DEF Execute, Fresh
<1>10. batches \in Seq(BatchType) /\ Len(batches) < MaxBatches /\ MaxBatches \in Nat
  BY ConstantsAssumption DEF Execute, Governed, Typed, BatchesTyped
<1>11. /\ batches' \in Seq(BatchType) /\ Len(batches') = Len(batches) + 1
       /\ batches'[Len(batches')] = x
       /\ \A n \in 1..Len(batches) : batches'[n] = batches[n]
  <2>. HIDE DEF x
  <2>. QED BY <1>8, <1>9, <1>10
<1>12. Len(batches') <= MaxBatches BY <1>10, <1>11
<1>13. /\ 1..Len(batches') = (1..Len(batches)) \cup {Len(batches')}
       /\ Len(batches') \notin 1..Len(batches)
  BY <1>10, <1>11
<1>14. Started(plan) BY <1>11, <1>12, <1>13 DEF Started, BatchesTyped, Batches
<1>15. op' = [call |-> "execute", n |-> Len(batches'), at |-> "reconcile", todo |-> plan.items]
  <2>1. op' = [call |-> "execute", n |-> Len(batches'), at |-> "reconcile",
               todo |-> {r \in DOMAIN batches'[Len(batches')].items :
                            batches'[Len(batches')].items[r].state \in {"planned", "quarantined"}}]
    BY DEF Execute, Begin
  <2>2. batches'[Len(batches')].items = Fresh(plan.items) BY <1>11
  <2>3. /\ DOMAIN Fresh(plan.items) = plan.items
        /\ \A r \in plan.items : Fresh(plan.items)[r].state = "planned"
    BY DEF Fresh
  <2>. QED BY <2>1, <2>2, <2>3
<1>. QED BY <1>2, <1>3, <1>4, <1>6, <1>14, <1>15

LEMMA ExecuteGoverned == ASSUME Governed, NEW plan \in plans, Execute(plan) PROVE Governed'
<1>1. Started(plan) BY ExecuteStarts
<1>2. op' = [call |-> "execute", n |-> Len(batches'), at |-> "reconcile", todo |-> plan.items]
  BY ExecuteStarts
<1>3. /\ Len(batches') \in Batches' /\ Len(batches') \in 0..MaxBatches /\ BatchesTyped'
  BY <1>1, ConstantsAssumption DEF Started, BatchesTyped, Batches
<1>4. plan.items \subseteq Resources BY ExecuteStarts
<1>5. op' \in OpType BY <1>2, <1>3, <1>4 DEF OpType
<1>6. /\ DOMAIN batches'[Len(batches')].items = plan.items
      /\ \A r \in plan.items : batches'[Len(batches')].items[r].state = "planned"
  BY <1>1 DEF Started, Fresh
<1>7. /\ op'.call = "execute" /\ op'.n = Len(batches') /\ op'.at = "reconcile" /\ op'.todo = plan.items
  BY <1>2
<1>8. Working' BY <1>3, <1>6, <1>7 DEF Working, Item, ToHandle
<1>9. OpInv' BY <1>7, <1>8 DEF OpInv
<1>10. /\ UNCHANGED <<clock, facts, later>> /\ DiskTyped' /\ holders' \subseteq (1..MaxBatches) \X Resources
       /\ reg' \in RegType /\ src' \in SrcType /\ RegisteredAtPath' /\ PlansTyped'
       /\ spent' \in [faults : 0..MaxFaults, changes : 0..MaxChanges]
  BY DEF Execute, world, Governed, Typed, DiskTyped, RegisteredAtPath, PlansTyped
<1>. QED BY <1>3, <1>5, <1>9, <1>10, CallGoverned

LEMMA ContinueGoverned ==
    ASSUME Governed, NEW call \in {"execute", "restore", "purge"}, NEW n \in Batches, Continue(call, n)
    PROVE  Governed'
<1>1. /\ op'.call = call /\ op'.n = n /\ op'.at = "reconcile" /\ op'.todo = Unfinished(n, {"planned", "quarantined"})
      /\ op' = [call |-> call, n |-> n, at |-> "reconcile", todo |-> Unfinished(n, {"planned", "quarantined"})]
      /\ batches' = batches
  BY DEF Continue, Begin, Unfinished, Item
<1>2. DOMAIN batches[n].items \subseteq Resources BY ItemTyped DEF Governed
<1>3. n \in 0..MaxBatches BY ConstantsAssumption DEF Batches, Governed, Typed, BatchesTyped
<1>4. op' \in OpType BY <1>1, <1>2, <1>3 DEF OpType, Unfinished
<1>5. Working' BY <1>1 DEF Working, Continue, Unfinished, Batches, Item, ToHandle, world
<1>6. OpInv' BY <1>1, <1>5 DEF OpInv
<1>7. /\ UNCHANGED <<clock, facts, later>> /\ DiskTyped' /\ holders' \subseteq (1..MaxBatches) \X Resources
      /\ reg' \in RegType /\ src' \in SrcType /\ RegisteredAtPath' /\ PlansTyped' /\ BatchesTyped'
      /\ spent' \in [faults : 0..MaxFaults, changes : 0..MaxChanges]
  BY DEF Continue, world, Governed, Typed, DiskTyped, RegisteredAtPath, PlansTyped, BatchesTyped
<1>. QED BY <1>4, <1>6, <1>7, CallGoverned

\* The ends of one item of a reconciliation.
LEMMA ReconcileEnds ==
    ASSUME Governed, Reconcile, NEW n, n = op.n, NEW r, r = First(op.todo)
    PROVE  /\ op.call # "none" /\ op.at = "reconcile" /\ op.todo # {} /\ Still
           /\ \/ Stop
              \/ Skip
              \/ /\ Row("quarantined") /\ Item(n, r).state = "planned" /\ SameTree(n, r, n)
                 /\ r \in Bundles => AllAt(r, n)
              \/ /\ Row("restored") /\ Item(n, r).state = "quarantined" /\ SameTree(n, r, 0)
                 /\ r \in Bundles => AllAt(r, 0)
<1>1. op.at = "reconcile" /\ op.todo # {} /\ Still BY DEF Reconcile, Still
<1>2. op.call # "none" BY <1>1, InCall
<1>3. op \in OpType BY DEF Governed, Typed
<1>4. op' = [op EXCEPT !.todo = @ \ {r}] =>
         op' = [op EXCEPT !.at = IF op.at = "reconcile" THEN "reconcile" ELSE "item", !.todo = @ \ {First(@)}]
  BY <1>1, <1>3 DEF OpType
<1>. DEFINE advance(state, l) == IF SameTree(n, r, l)
               THEN Transition(n, r, state) /\ op' = [op EXCEPT !.todo = @ \ {r}]
               ELSE Stop
<1>5. \A state, l : advance(state, l) => Stop \/ (Row(state) /\ SameTree(n, r, l))
  BY <1>1, <1>4 DEF Row
<1>6. \/ Stop \/ Skip
      \/ Item(n, r).state = "planned" /\ (r \in Bundles => AllAt(r, n)) /\ advance("quarantined", n)
      \/ Item(n, r).state = "quarantined" /\ (r \in Bundles => AllAt(r, 0)) /\ advance("restored", 0)
  <2>1. CASE r \in Bundles BY <2>1 DEF Reconcile
  <2>2. CASE r \notin Bundles BY <2>2 DEF Reconcile
  <2>. QED BY <2>1, <2>2
<1>. HIDE DEF advance
<1>. QED BY <1>1, <1>2, <1>5, <1>6

LEMMA ReconcileGoverned == ASSUME Governed, Reconcile PROVE Governed'
<1>1. /\ op.call # "none" /\ op.at = "reconcile" /\ op.todo # {} /\ Still
      /\ Stop \/ Skip \/ Row("quarantined") \/ Row("restored")
  BY ReconcileEnds
<1>2. CASE Stop BY <1>1, <1>2, StopGoverned
<1>3. CASE Skip BY <1>1, <1>3, SkipGoverned
<1>4. CASE Row("quarantined") BY <1>1, <1>4, RowGoverned
<1>5. CASE Row("restored") BY <1>1, <1>5, RowGoverned
<1>. QED BY <1>1, <1>2, <1>3, <1>4, <1>5

LEMMA ReconciledGoverned == ASSUME Governed, Reconciled PROVE Governed'
<1>1. op.call # "none" /\ Working BY InCall DEF Reconciled
<1>2. op \in OpType BY DEF Governed, Typed
<1>3. DOMAIN batches[op.n].items \subseteq Resources BY <1>1, ItemTyped DEF Governed, Working
<1>4. /\ op'.call = op.call /\ op'.n = op.n /\ op'.at = "item"
      /\ op'.todo = Unfinished(op.n, ToHandle(op')) /\ op' \in OpType
  <2>1. CASE op.call = "execute"
    BY <1>2, <1>3, <2>1 DEF Reconciled, ToLoop, OpType, Unfinished, ToHandle
  <2>2. CASE op.call = "restore"
    BY <1>2, <1>3, <2>2 DEF Reconciled, ToLoop, OpType, Unfinished, ToHandle
  <2>3. CASE op.call = "purge"
    BY <1>2, <1>3, <2>3 DEF Reconciled, ToLoop, OpType, Unfinished, ToHandle, Moving
  <2>. QED BY <1>1, <1>2, <2>1, <2>2, <2>3 DEF OpType
<1>5. Working' BY <1>1, <1>4 DEF Reconciled, Working, Unfinished, Batches, Item, world
<1>6. OpInv' BY <1>1, <1>4, <1>5 DEF OpInv
<1>. QED BY <1>4, <1>6, Rowless DEF Reconciled, Still

LEMMA FinishGoverned == ASSUME Governed, Finish PROVE Governed'
<1>1. Stop /\ Still BY DEF Finish, Stop, Still
<1>. QED BY <1>1, StopGoverned

\* The guard of the steps that handle one item.
LEMMA AtGives ==
    ASSUME Governed, NEW call, NEW at, at # "none", NEW S, At(call, at, S)
    PROVE  /\ op.call # "none" /\ op.call = call /\ op.at = at /\ op.todo # {} /\ First(op.todo) \in S
           /\ op.n \in Batches /\ First(op.todo) \in op.todo /\ First(op.todo) \in DOMAIN batches[op.n].items
           /\ First(op.todo) \in Resources /\ Item(op.n, First(op.todo)) \in ItemType /\ op.n \in 1..MaxBatches
<1>1. op.call = call /\ op.at = at /\ op.todo # {} /\ First(op.todo) \in S BY DEF At
<1>. QED BY <1>1, InCall, AtHand

LEMMA GuardBundleGoverned == ASSUME Governed, GuardBundle PROVE Governed'
<1>. DEFINE n == op.n
            r == First(op.todo)
            item == [Item(n, r) EXCEPT !.guard = Evidence(r)]
<1>1. At("execute", "item", Bundles) /\ Still BY DEF GuardBundle
<1>2. /\ op.call # "none" /\ op.at = "item" /\ op.todo # {} /\ n \in Batches
      /\ r \in DOMAIN batches[n].items /\ r \in Resources /\ Item(n, r) \in ItemType
  BY <1>1, AtGives
<1>3. \/ Stop
      \/ Goto("mkdir") /\ UNCHANGED <<reg, src, batches>>
      \/ Save(n, r, item) /\ Goto("mkdir") /\ UNCHANGED <<reg, src>>
  BY DEF GuardBundle
<1>4. item \in ItemType /\ item.state = Item(n, r).state
  <2>1. Evidence(r) \in EvidenceType BY <1>2, EvidenceTyped DEF Governed
  <2>. QED BY <1>2, <2>1 DEF ItemType
<1>5. /\ UNCHANGED <<clock, facts, later, plans, spent>> /\ DiskTyped'
      /\ holders' \subseteq (1..MaxBatches) \X Resources
  BY <1>1 DEF Still, world, Governed, Typed, DiskTyped
<1>6. CASE Stop BY <1>1, <1>6, StopGoverned
<1>7. CASE Goto("mkdir") /\ UNCHANGED <<reg, src, batches>> BY <1>2, <1>5, <1>7, OnGoverned
<1>8. CASE Save(n, r, item) /\ Goto("mkdir") /\ UNCHANGED <<reg, src>>
  <2>1. Keeps(n, r, item) BY <1>2, <1>4, <1>8, Saved DEF Governed
  <2>. HIDE DEF item
  <2>. QED BY <1>2, <1>4, <1>5, <1>8, <2>1, OnGoverned
<1>. QED BY <1>3, <1>6, <1>7, <1>8

LEMMA MakeDirectoryGoverned == ASSUME Governed, MakeDirectory PROVE Governed'
<1>. DEFINE n == op.n
            r == First(op.todo)
<1>1. At("execute", "mkdir", Bundles) /\ UNCHANGED <<world, disk, plans, spent>> BY DEF MakeDirectory
<1>2. /\ op.call # "none" /\ op.at = "mkdir" /\ op.todo # {} /\ n \in 1..MaxBatches /\ r \in Resources
  BY <1>1, AtGives
<1>3. \/ Stop /\ UNCHANGED holders
      \/ Goto("move") /\ UNCHANGED <<reg, src, batches, holders>>
      \/ holders' = holders \cup {<<n, r>>} /\ Goto("identity") /\ UNCHANGED <<reg, src, batches>>
  BY DEF MakeDirectory
<1>4. UNCHANGED <<clock, facts, later, plans, spent>> /\ DiskTyped'
  BY <1>1 DEF world, Governed, Typed, DiskTyped
<1>5. holders' \subseteq (1..MaxBatches) \X Resources BY <1>2, <1>3 DEF Governed, Typed
<1>6. CASE Stop /\ UNCHANGED holders BY <1>1, <1>6, StopGoverned DEF Still
<1>7. CASE Goto("move") /\ UNCHANGED <<reg, src, batches, holders>> BY <1>2, <1>4, <1>5, <1>7, OnGoverned
<1>8. CASE Goto("identity") /\ UNCHANGED <<reg, src, batches>> BY <1>2, <1>4, <1>5, <1>8, OnGoverned
<1>. QED BY <1>3, <1>6, <1>7, <1>8

LEMMA SaveDirectoryGoverned == ASSUME Governed, SaveDirectory PROVE Governed'
<1>. DEFINE n == op.n
            r == First(op.todo)
            item == [Item(n, r) EXCEPT !.dir = TRUE]
<1>1. At("execute", "identity", Bundles) BY DEF SaveDirectory
<1>2. /\ op.call # "none" /\ op.at = "identity" /\ op.todo # {} /\ n \in Batches
      /\ r \in DOMAIN batches[n].items /\ r \in Resources /\ Item(n, r) \in ItemType
  BY <1>1, AtGives
<1>3. Save(n, r, item) /\ Goto("move") /\ UNCHANGED <<reg, src>> /\ Still BY DEF SaveDirectory
<1>4. item \in ItemType /\ item.state = Item(n, r).state BY <1>2 DEF ItemType
<1>5. /\ UNCHANGED <<clock, facts, later, plans, spent>> /\ DiskTyped'
      /\ holders' \subseteq (1..MaxBatches) \X Resources
  BY <1>3 DEF Still, world, Governed, Typed, DiskTyped
<1>6. Keeps(n, r, item) BY <1>2, <1>3, <1>4, Saved DEF Governed
<1>. HIDE DEF item
<1>. QED BY <1>2, <1>3, <1>4, <1>5, <1>6, OnGoverned

LEMMA NextRow ==
    ASSUME op.at # "reconcile", NEW state, Transition(op.n, First(op.todo), state), NextItem, Still
    PROVE  Row(state)
<1>. QED BY DEF NextItem, Row

LEMMA MoveMemberGoverned == ASSUME Governed, MoveMember PROVE Governed'
<1>. DEFINE n == op.n
            r == First(op.todo)
<1>1. At("execute", "move", Bundles) /\ UNCHANGED <<world, holders, plans, spent>> BY DEF MoveMember
<1>2. op.call # "none" /\ op.at = "move" /\ op.todo # {} /\ r \in Resources BY <1>1, AtGives
<1>3. \/ Stop /\ UNCHANGED disk
      \/ Transition(n, r, "quarantined") /\ NextItem /\ UNCHANGED disk
      \/ Move(r, NextMember(r, 0), n) /\ UNCHANGED <<reg, src, batches, op>>
  BY DEF MoveMember
<1>4. CASE Stop /\ UNCHANGED disk BY <1>1, <1>4, StopGoverned DEF Still
<1>5. CASE Transition(n, r, "quarantined") /\ NextItem /\ UNCHANGED disk
  <2>1. Row("quarantined") BY <1>1, <1>2, <1>5, NextRow DEF Still
  <2>. QED BY <1>2, <2>1, RowGoverned
<1>6. CASE Move(r, NextMember(r, 0), n) /\ UNCHANGED <<reg, src, batches, op>>
  <2>1. DiskTyped' BY <1>2, <1>6, MovedTyped
  <2>2. holders' \subseteq (1..MaxBatches) \X Resources BY <1>1 DEF Governed, Typed
  <2>. QED BY <1>1, <1>6, <2>1, <2>2, FilesGoverned DEF world
<1>. QED BY <1>3, <1>4, <1>5, <1>6

LEMMA TreeIsResource ==
    ASSUME Governed, NEW n, NEW r \in Directories, NEW l, SameTree(n, r, l)
    PROVE  Item(n, r).tree \in SamePath(r) /\ Item(n, r).tree \in Directories /\ Item(n, r).tree \in Resources
           /\ disk[Item(n, r).tree]["tree"] = l
<1>1. r \notin Bundles BY ConstantsAssumption
<1>2. Item(n, r).tree \in TreesAt(r, l) BY <1>1 DEF SameTree
<1>3. SamePath(r) \subseteq Directories /\ Directories \subseteq Resources BY DEF SamePath, Directories, Resources
<1>. QED BY <1>2, <1>3 DEF TreesAt

LEMMA MoveDirectoryGoverned == ASSUME Governed, MoveDirectory PROVE Governed'
<1>. DEFINE n == op.n
            r == First(op.todo)
<1>1. At("execute", "item", Directories) /\ UNCHANGED <<world, plans, spent>> BY DEF MoveDirectory
<1>2. /\ op.call # "none" /\ op.at = "item" /\ op.todo # {} /\ r \in Resources /\ r \in Directories
      /\ n \in 1..MaxBatches
  BY <1>1, AtGives
<1>3. \/ /\ SameTree(n, r, 0) /\ Move(Item(n, r).tree, "tree", n) /\ holders' = holders \cup {<<n, r>>}
         /\ Goto("moved") /\ UNCHANGED <<reg, src, batches>>
      \/ Stop /\ UNCHANGED <<disk, holders>>
  BY DEF MoveDirectory
<1>4. CASE Stop /\ UNCHANGED <<disk, holders>> BY <1>1, <1>4, StopGoverned DEF Still
<1>5. CASE /\ SameTree(n, r, 0) /\ Move(Item(n, r).tree, "tree", n) /\ holders' = holders \cup {<<n, r>>}
           /\ Goto("moved") /\ UNCHANGED <<reg, src, batches>>
  <2>1. DiskTyped' BY <1>2, <1>5, MovedTyped, TreeIsResource
  <2>2. holders' \subseteq (1..MaxBatches) \X Resources BY <1>2, <1>5 DEF Governed, Typed
  <2>. QED BY <1>1, <1>2, <1>5, <2>1, <2>2, OnGoverned DEF world
<1>. QED BY <1>3, <1>4, <1>5

LEMMA DirectoryMovedGoverned == ASSUME Governed, DirectoryMoved PROVE Governed'
<1>1. op.call # "none" /\ op.at = "moved" /\ op.todo # {} BY AtGives DEF DirectoryMoved
<1>2. Row("quarantined") BY <1>1, NextRow DEF DirectoryMoved
<1>. QED BY <1>1, <1>2, RowGoverned

LEMMA RestoreReleasedGoverned == ASSUME Governed, RestoreReleased PROVE Governed'
<1>. QED BY StopGoverned DEF RestoreReleased

LEMMA RestoreMemberGoverned == ASSUME Governed, RestoreMember PROVE Governed'
<1>. DEFINE n == op.n
            r == First(op.todo)
<1>1. At("restore", "item", Restorable \cap Bundles) /\ UNCHANGED <<world, holders, plans, spent>>
  BY DEF RestoreMember
<1>2. op.call # "none" /\ op.at = "item" /\ op.todo # {} /\ r \in Resources BY <1>1, AtGives
<1>3. \/ Stop /\ UNCHANGED disk
      \/ Transition(n, r, "restored") /\ NextItem /\ UNCHANGED disk
      \/ Move(r, NextMember(r, n), 0) /\ UNCHANGED <<reg, src, batches, op>>
  BY DEF RestoreMember
<1>4. CASE Stop /\ UNCHANGED disk BY <1>1, <1>4, StopGoverned DEF Still
<1>5. CASE Transition(n, r, "restored") /\ NextItem /\ UNCHANGED disk
  <2>1. Row("restored") BY <1>1, <1>2, <1>5, NextRow DEF Still
  <2>. QED BY <1>2, <2>1, RowGoverned
<1>6. CASE Move(r, NextMember(r, n), 0) /\ UNCHANGED <<reg, src, batches, op>>
  <2>1. DiskTyped' BY <1>2, <1>6, MovedTyped
  <2>2. holders' \subseteq (1..MaxBatches) \X Resources BY <1>1 DEF Governed, Typed
  <2>. QED BY <1>1, <1>6, <2>1, <2>2, FilesGoverned DEF world
<1>. QED BY <1>3, <1>4, <1>5, <1>6

LEMMA RestorePlannedGoverned == ASSUME Governed, RestorePlanned PROVE Governed'
<1>1. op.call # "none" /\ op.at = "item" /\ op.todo # {} BY AtGives DEF RestorePlanned
<1>2. (Transition(op.n, First(op.todo), "restored") /\ NextItem) \/ Stop BY DEF RestorePlanned
<1>3. Still BY DEF RestorePlanned
<1>4. CASE Stop BY <1>3, <1>4, StopGoverned
<1>5. CASE Transition(op.n, First(op.todo), "restored") /\ NextItem
  <2>1. Row("restored") BY <1>1, <1>3, <1>5, NextRow
  <2>. QED BY <1>1, <2>1, RowGoverned
<1>. QED BY <1>2, <1>4, <1>5

LEMMA RestoreDirectoryGoverned == ASSUME Governed, RestoreDirectory PROVE Governed'
<1>. DEFINE n == op.n
            r == First(op.todo)
<1>1. /\ At("restore", "item", Unfinished(op.n, {"quarantined"}) \cap Directories)
      /\ UNCHANGED <<world, plans, spent>>
  BY DEF RestoreDirectory
<1>2. /\ op.call # "none" /\ op.at = "item" /\ op.todo # {} /\ r \in Resources /\ r \in Directories
      /\ n \in 1..MaxBatches
  BY <1>1, AtGives
<1>3. \/ /\ SameTree(n, r, n) /\ Move(Item(n, r).tree, "tree", 0) /\ holders' = holders \ {<<n, r>>}
         /\ Goto("moved") /\ UNCHANGED <<reg, src, batches>>
      \/ Stop /\ UNCHANGED <<disk, holders>>
  BY DEF RestoreDirectory
<1>4. CASE Stop /\ UNCHANGED <<disk, holders>> BY <1>1, <1>4, StopGoverned DEF Still
<1>5. CASE /\ SameTree(n, r, n) /\ Move(Item(n, r).tree, "tree", 0) /\ holders' = holders \ {<<n, r>>}
           /\ Goto("moved") /\ UNCHANGED <<reg, src, batches>>
  <2>1. DiskTyped' BY <1>2, <1>5, MovedTyped, TreeIsResource
  <2>2. holders' \subseteq (1..MaxBatches) \X Resources BY <1>2, <1>5 DEF Governed, Typed
  <2>. QED BY <1>1, <1>2, <1>5, <2>1, <2>2, OnGoverned DEF world
<1>. QED BY <1>3, <1>4, <1>5

LEMMA DirectoryRestoredGoverned == ASSUME Governed, DirectoryRestored PROVE Governed'
<1>1. op.call # "none" /\ op.at = "moved" /\ op.todo # {} BY AtGives DEF DirectoryRestored
<1>2. Row("restored") BY <1>1, NextRow DEF DirectoryRestored
<1>. QED BY <1>1, <1>2, RowGoverned

LEMMA PurgePlannedGoverned == ASSUME Governed, PurgePlanned PROVE Governed'
<1>. QED BY StopGoverned DEF PurgePlanned

\* A release reaches its unlinks.
LEMMA ToUnlink ==
    ASSUME Governed, op.call = "purge", op.at = "item", op.todo # {}, Goto("unlink"), clock' = clock,
           NEW item, \/ Keeps(op.n, First(op.todo), item) /\ item.state = "purging"
                     \/ UNCHANGED batches /\ Item(op.n, First(op.todo)).state = "purging"
    PROVE  op' \in OpType /\ OpInv'
<1>1. Working /\ op \in OpType BY DEF Governed, OpInv, Typed
<1>2. op' \in OpType /\ op'.call = op.call /\ op'.n = op.n /\ op'.todo = op.todo /\ op'.at = "unlink"
  BY <1>1 DEF Goto, OpType
<1>3. First(op.todo) \in op.todo BY AtHand
<1>4. /\ Batches' = Batches /\ \A k \in Batches : batches'[k].purgeAfter = batches[k].purgeAfter
      /\ DOMAIN batches'[op.n].items = DOMAIN batches[op.n].items
      /\ \A q \in op.todo : batches'[op.n].items[q].state \in Moving
      /\ batches'[op.n].items[First(op.todo)].state = "purging"
  <2>1. \A q \in op.todo : Item(op.n, q).state \in Moving BY <1>1 DEF Working, ToHandle
  <2>. QED BY <1>1, <1>3, <2>1 DEF Keeps, Working, Item, Batches, Moving
<1>5. ToHandle(op') = Moving BY <1>2 DEF ToHandle
<1>6. Working' BY <1>1, <1>2, <1>4, <1>5 DEF Working, Item
<1>. QED BY <1>2, <1>6 DEF OpInv

LEMMA StartPurgeGoverned == ASSUME Governed, StartPurge PROVE Governed'
<1>. DEFINE n == op.n
            r == First(op.todo)
            item == [Item(n, r) EXCEPT !.state = "purging", !.purgeGuard = Evidence(r)]
<1>1. At("purge", "item", Unfinished(op.n, {"quarantined"})) /\ Still BY DEF StartPurge
<1>2. /\ op.call = "purge" /\ op.at = "item" /\ op.todo # {} /\ n \in Batches
      /\ r \in DOMAIN batches[n].items /\ r \in Resources /\ Item(n, r) \in ItemType
  BY <1>1, AtGives
<1>3. \/ Save(n, r, item) /\ Goto("unlink") /\ UNCHANGED <<reg, src>>
      \/ Stop
  BY DEF StartPurge
<1>4. item \in ItemType /\ item.state = "purging"
  <2>1. Evidence(r) \in EvidenceType BY <1>2, EvidenceTyped DEF Governed
  <2>. QED BY <1>2, <2>1 DEF ItemType, ItemStates
<1>5. CASE Stop BY <1>1, <1>5, StopGoverned
<1>6. CASE Save(n, r, item) /\ Goto("unlink") /\ UNCHANGED <<reg, src>>
  <2>1. Keeps(n, r, item) BY <1>2, <1>4, <1>6, Saved DEF Governed
  <2>2. clock' = clock BY <1>1 DEF Still, world
  <2>3. op' \in OpType /\ OpInv'
    <3>. HIDE DEF item
    <3>. QED BY <1>2, <1>4, <1>6, <2>1, <2>2, ToUnlink
  <2>4. BatchesTyped' BY <2>1 DEF Keeps
  <2>5. /\ UNCHANGED <<clock, facts, later>> /\ DiskTyped' /\ holders' \subseteq (1..MaxBatches) \X Resources
        /\ reg' \in RegType /\ src' \in SrcType /\ RegisteredAtPath' /\ PlansTyped'
        /\ spent' \in [faults : 0..MaxFaults, changes : 0..MaxChanges]
    BY <1>1, <1>6 DEF Still, world, Governed, Typed, DiskTyped, RegisteredAtPath, PlansTyped
  <2>. QED BY <2>3, <2>4, <2>5, CallGoverned
<1>. QED BY <1>3, <1>5, <1>6

LEMMA ResumePurgeGoverned == ASSUME Governed, ResumePurge PROVE Governed'
<1>1. At("purge", "item", Unfinished(op.n, {"purging"})) /\ Still BY DEF ResumePurge
<1>2. /\ op.call = "purge" /\ op.at = "item" /\ op.todo # {}
      /\ Item(op.n, First(op.todo)).state = "purging"
  BY <1>1, AtGives DEF Unfinished
<1>3. (Goto("unlink") /\ UNCHANGED <<reg, src, batches>>) \/ Stop BY DEF ResumePurge
<1>4. CASE Stop BY <1>1, <1>4, StopGoverned
<1>5. CASE Goto("unlink") /\ UNCHANGED <<reg, src, batches>>
  <2>1. op' \in OpType /\ OpInv' BY <1>1, <1>2, <1>5, ToUnlink DEF Still, world
  <2>. QED BY <1>1, <1>5, <2>1, Rowless
<1>. QED BY <1>3, <1>4, <1>5

LEMMA UnlinkGoverned == ASSUME Governed, Unlink PROVE Governed'
<1>. DEFINE n == op.n
            r == First(op.todo)
<1>1. At("purge", "unlink", Resources) /\ UNCHANGED <<world, plans, spent>> BY DEF Unlink
<1>2. /\ op.call # "none" /\ op.at = "unlink" /\ op.todo # {} /\ r \in Resources
      /\ Item(n, r) \in ItemType
  BY <1>1, AtGives
<1>3. \/ /\ \E g \in Resources : \E m : Move(g, m, Gone)
         /\ UNCHANGED <<holders, reg, src, batches, op>>
      \/ holders' = holders \ {<<n, r>>} /\ UNCHANGED <<disk, reg, src, batches, op>>
      \/ Transition(n, r, "purged") /\ NextItem /\ UNCHANGED <<disk, holders>>
  <2>1. Item(n, r).tree \in Resources BY <1>2 DEF ItemType
  <2>. QED BY <1>2, <2>1 DEF Unlink
<1>4. CASE /\ \E g \in Resources : \E m : Move(g, m, Gone)
           /\ UNCHANGED <<holders, reg, src, batches, op>>
  <2>1. DiskTyped' BY <1>4, MovedTyped
  <2>2. holders' \subseteq (1..MaxBatches) \X Resources BY <1>4 DEF Governed, Typed
  <2>. QED BY <1>1, <1>4, <2>1, <2>2, FilesGoverned DEF world
<1>5. CASE holders' = holders \ {<<n, r>>} /\ UNCHANGED <<disk, reg, src, batches, op>>
  <2>1. DiskTyped' /\ holders' \subseteq (1..MaxBatches) \X Resources
    BY <1>5 DEF Governed, Typed, DiskTyped
  <2>. QED BY <1>1, <1>5, <2>1, FilesGoverned DEF world
<1>6. CASE Transition(n, r, "purged") /\ NextItem /\ UNCHANGED <<disk, holders>>
  <2>1. Row("purged") BY <1>1, <1>2, <1>6, NextRow DEF Still
  <2>. QED BY <1>2, <2>1, RowGoverned
<1>. QED BY <1>3, <1>4, <1>5, <1>6

LEMMA FaultGoverned == ASSUME Governed, Crash \/ IoError PROVE Governed'
<1>1. op' \in OpType /\ OpInv' BY Stopped DEF Crash, IoError, Fault
<1>2. spent' \in [faults : 0..MaxFaults, changes : 0..MaxChanges]
  BY ConstantsAssumption DEF Crash, IoError, Fault, Governed, Typed
<1>3. PlansTyped' BY DEF Crash, IoError, Governed, Typed, PlansTyped
<1>4. /\ UNCHANGED <<clock, facts, later>> /\ DiskTyped' /\ holders' \subseteq (1..MaxBatches) \X Resources
      /\ reg' \in RegType /\ src' \in SrcType /\ RegisteredAtPath' /\ BatchesTyped'
  BY DEF Crash, IoError, Fault, world, Governed, Typed, DiskTyped, RegisteredAtPath, BatchesTyped
<1>. QED BY <1>1, <1>2, <1>3, <1>4, CallGoverned

LEMMA NextGoverned == ASSUME Governed, [Next]_vars PROVE Governed'
<1>1. CASE Environment
  BY <1>1, TickGoverned, WriteRowsGoverned, DiscoverGoverned, StartRunGoverned, FinishRunGoverned,
     DependGoverned, BuildCacheGoverned, LeaveRecoveryPointGoverned, RegisterResourceGoverned,
     VerifyResourceGoverned, RegisterFlatGoverned
  DEF Environment
<1>2. CASE Calls
  BY <1>2, PreviewGoverned, ExecuteGoverned, ContinueGoverned, ReconcileGoverned, ReconciledGoverned,
     FinishGoverned, GuardBundleGoverned, MakeDirectoryGoverned, SaveDirectoryGoverned,
     MoveMemberGoverned, MoveDirectoryGoverned, DirectoryMovedGoverned, RestoreReleasedGoverned,
     RestoreMemberGoverned, RestorePlannedGoverned, RestoreDirectoryGoverned, DirectoryRestoredGoverned,
     PurgePlannedGoverned, StartPurgeGoverned, ResumePurgeGoverned, UnlinkGoverned
  DEF Calls
<1>3. CASE Crash \/ IoError BY <1>3, FaultGoverned
<1>4. CASE UNCHANGED vars
  <2>1. OpInv' BY <1>4 DEF vars, Governed, OpInv, Working, Batches, Item, ToHandle, Idle
  <2>. QED BY <1>4, <2>1
       DEF vars, Governed, Typed, DiskTyped, BatchesTyped, PlansTyped, RegisteredAtPath
<1>. QED BY <1>1, <1>2, <1>3, <1>4 DEF Next

-----------------------------------------------------------------------------
(* What is in quarantine is in a journal, and generations stay apart.      *)

\* The items of one batch at one path name one tree, of that path.
TreesNamed ==
    \A n \in Batches : \A r \in DOMAIN batches[n].items \cap Directories :
        /\ Item(n, r).tree \in SamePath(r)
        /\ \A q \in DOMAIN batches[n].items \cap SamePath(r) : Item(n, q).tree = Item(n, r).tree
\* A tree in quarantine is the one that an unfinished item of the batch names.
TreesAnswered ==
    \A g \in Directories : disk[g]["tree"] > 0 =>
        /\ disk[g]["tree"] \in Batches
        /\ \E r \in SamePath(g) \cap DOMAIN batches[disk[g]["tree"]].items :
              Item(disk[g]["tree"], r).state \in Moving /\ Item(disk[g]["tree"], r).tree = g
MembersAnswered ==
    \A b \in Bundles : \A m \in Members(b) : disk[b][m] > 0 =>
        /\ disk[b][m] \in Batches
        /\ b \in DOMAIN batches[disk[b][m]].items /\ Item(disk[b][m], b).state \in Moving
OneTree == \A c, d \in Caches : disk[c]["tree"] = disk[d]["tree"] /\ disk[c]["tree"] >= 0 => c = d
\* Between a rename and its row the tree is where the rename has put it.
MovedWhole ==
    op.at = "moved" =>
        /\ op.call \in {"execute", "restore"} /\ First(op.todo) \in Directories
        /\ disk[Item(op.n, First(op.todo)).tree]["tree"] = IF op.call = "execute" THEN op.n ELSE 0

Answered == TreesNamed /\ TreesAnswered /\ MembersAnswered /\ OneTree /\ MovedWhole

LEMMA Kinds ==
    /\ Runs \cap Caches = {} /\ Directories \cap Bundles = {} /\ Caches \subseteq Directories
    /\ Directories \subseteq Resources /\ Bundles \subseteq Resources /\ Resources \subseteq Nat
    /\ \A r \in Directories : Members(r) = {"tree"}
    /\ \A b \in Bundles : Members(b) = {"db", "manifest"}
<1>. QED BY ConstantsAssumption DEF Directories, Resources, Members

LEMMA SamePaths ==
    ASSUME NEW r \in Directories
    PROVE  /\ r \in SamePath(r) /\ SamePath(r) \subseteq Directories
           /\ \A q \in SamePath(r) : SamePath(q) = SamePath(r)
           /\ \A q \in SamePath(r) : r \in SamePath(q)
           /\ \A q \in SamePath(r) : \A l : TreesAt(q, l) = TreesAt(r, l)
           /\ r \notin Caches => SamePath(r) = {r}
<1>1. /\ r \in SamePath(r) /\ SamePath(r) \subseteq Directories
      /\ \A q \in SamePath(r) : SamePath(q) = SamePath(r)
      /\ r \notin Caches => SamePath(r) = {r}
  BY DEF SamePath, Directories
<1>. QED BY <1>1 DEF TreesAt

\* The locations are integers.
LEMMA Places ==
    ASSUME Governed
    PROVE  /\ \A r \in Resources : \A m \in Members(r) : disk[r][m] \in Int
           /\ \A g \in Directories : disk[g]["tree"] \in Int
<1>1. Locations \subseteq Int BY ConstantsAssumption DEF Locations, Gone
<1>2. \A r \in Resources : \A m \in Members(r) : disk[r][m] \in Int
  BY <1>1 DEF Governed, Typed, DiskTyped
<1>. QED BY <1>2, Kinds

LEMMA InitAnswered == Init => Answered
<1>. SUFFICES ASSUME Init PROVE Answered
  OBVIOUS
<1>1. PICK w \in Worlds :
        /\ disk = [r \in Resources |-> [m \in Members(r) |-> IF r \in w.first THEN 0 ELSE Gone]]
        /\ \A c, d \in Caches \cap w.first : c = d
  BY ConstantsAssumption DEF Init
<1>2. batches = <<>> /\ op.at = "none"
  <2>1. batches = <<>> /\ op = Idle BY DEF Init
  <2>. QED BY <2>1 DEF Idle
<1>3. Batches = {} BY <1>2 DEF Batches
<1>4. \A r \in Resources : \A m \in Members(r) :
        disk[r][m] \in {0, Gone} /\ (disk[r][m] = 0 <=> r \in w.first) /\ disk[r][m] <= 0
  BY <1>1 DEF Gone
<1>5. TreesNamed BY <1>3 DEF TreesNamed
<1>6. TreesAnswered /\ MembersAnswered BY <1>4, Kinds DEF TreesAnswered, MembersAnswered, Gone
<1>7. OneTree BY <1>1, <1>4, Kinds DEF OneTree, Gone
<1>8. MovedWhole BY <1>2 DEF MovedWhole
<1>. QED BY <1>5, <1>6, <1>7, <1>8 DEF Answered

LEMMA NamedAgain == ASSUME TreesNamed, batches' = batches PROVE TreesNamed'
<1>. QED BY SMT DEF TreesNamed, Item, Batches

\* No file and no row of the journal changes.
LEMMA Unmoved ==
    ASSUME Governed, Answered, UNCHANGED <<disk, batches>>, op'.at # "moved" \/ op' = op
    PROVE  Answered'
<1>1. Batches' = Batches /\ \A n, r : Item(n, r)' = Item(n, r) BY DEF Batches, Item
<1>2. TreesNamed' BY NamedAgain DEF Answered
<1>3. TreesAnswered' BY <1>1 DEF Answered, TreesAnswered, Item, SamePath
<1>4. MembersAnswered' BY <1>1 DEF Answered, MembersAnswered, Item
<1>5. OneTree' BY DEF Answered, OneTree
<1>6. MovedWhole' BY DEF Answered, MovedWhole, Item
<1>. QED BY <1>2, <1>3, <1>4, <1>5, <1>6 DEF Answered

\* One item of the journal is written; if it is finished by that, its files are not in this quarantine.
LEMMA Rewritten ==
    ASSUME Governed, Answered, UNCHANGED disk, op'.at # "moved", NEW n \in Batches,
           NEW r \in DOMAIN batches[n].items, NEW item, Keeps(n, r, item), item.tree = Item(n, r).tree,
           \/ item.state \in Moving
           \/ /\ r \in Directories => disk[item.tree]["tree"] # n
              /\ r \in Bundles => \A m \in Members(r) : disk[r][m] # n
    PROVE  Answered'
<1>1. /\ Batches' = Batches
      /\ \A k \in Batches :
            /\ DOMAIN batches'[k].items = DOMAIN batches[k].items
            /\ \A q \in DOMAIN batches[k].items :
                  batches'[k].items[q] = IF k = n /\ q = r THEN item ELSE Item(k, q)
  BY DEF Keeps
<1>2. \A k \in Batches : \A q \in DOMAIN batches[k].items : batches'[k].items[q].tree = Item(k, q).tree
  BY <1>1
<1>3. TreesNamed'
  <2>. SUFFICES ASSUME NEW k \in Batches, NEW p \in DOMAIN batches'[k].items \cap Directories
                PROVE  /\ batches'[k].items[p].tree \in SamePath(p)
                       /\ \A q \in DOMAIN batches'[k].items \cap SamePath(p) :
                             batches'[k].items[q].tree = batches'[k].items[p].tree
    BY <1>1 DEF TreesNamed, Item, SamePath
  <2>. QED BY <1>1, <1>2 DEF Answered, TreesNamed
<1>4. TreesAnswered'
  <2>. SUFFICES ASSUME NEW g \in Directories, disk[g]["tree"] > 0
                PROVE  /\ disk[g]["tree"] \in Batches'
                       /\ \E q \in SamePath(g) \cap DOMAIN batches'[disk[g]["tree"]].items :
                             /\ batches'[disk[g]["tree"]].items[q].state \in Moving
                             /\ batches'[disk[g]["tree"]].items[q].tree = g
    BY DEF TreesAnswered, Item, SamePath
  <2>. DEFINE k == disk[g]["tree"]
  <2>1. k \in Batches BY DEF Answered, TreesAnswered
  <2>2. PICK q \in SamePath(g) \cap DOMAIN batches[k].items : Item(k, q).state \in Moving /\ Item(k, q).tree = g
    BY DEF Answered, TreesAnswered
  <2>3. q \in Directories BY SamePaths
  <2>4. CASE k = n /\ q = r
    <3>1. item.tree = g BY <2>2, <2>4
    <3>2. item.state \in Moving BY <2>3, <2>4, <3>1
    <3>. QED BY <1>1, <2>1, <2>2, <2>4, <3>1, <3>2
  <2>5. CASE ~(k = n /\ q = r) BY <1>1, <2>1, <2>2, <2>5
  <2>. QED BY <2>4, <2>5
<1>5. MembersAnswered'
  <2>. SUFFICES ASSUME NEW b \in Bundles, NEW m \in Members(b), disk[b][m] > 0
                PROVE  /\ disk[b][m] \in Batches'
                       /\ b \in DOMAIN batches'[disk[b][m]].items
                       /\ batches'[disk[b][m]].items[b].state \in Moving
    BY DEF MembersAnswered, Item, Members
  <2>. QED BY <1>1 DEF Answered, MembersAnswered
<1>6. OneTree' BY DEF Answered, OneTree
<1>7. MovedWhole' BY DEF MovedWhole
<1>. QED BY <1>3, <1>4, <1>5, <1>6, <1>7 DEF Answered

\* A member of a bundle is moved, to the quarantine of an unfinished item at most.
LEMMA MemberMoved ==
    ASSUME Governed, Answered, UNCHANGED batches, op' = op, op.at # "moved",
           NEW b \in Bundles, NEW m, NEW to \in {Gone, 0, op.n}, Move(b, m, to),
           to > 0 => to \in Batches /\ b \in DOMAIN batches[to].items /\ Item(to, b).state \in Moving
    PROVE  Answered'
<1>. b \in Resources BY Kinds
<1>1. \A q \in Resources : \A k \in Members(q) : disk'[q][k] = IF q = b /\ k = m THEN to ELSE disk[q][k]
  BY MovedTyped
<1>2. \A g \in Directories : disk'[g]["tree"] = disk[g]["tree"] BY <1>1, Kinds
<1>3. TreesNamed' BY NamedAgain DEF Answered
<1>4. TreesAnswered'
  <2>. SUFFICES ASSUME NEW g \in Directories, disk[g]["tree"] > 0
                PROVE  /\ disk[g]["tree"] \in Batches
                       /\ \E q \in SamePath(g) \cap DOMAIN batches[disk[g]["tree"]].items :
                             /\ batches[disk[g]["tree"]].items[q].state \in Moving
                             /\ batches[disk[g]["tree"]].items[q].tree = g
    BY <1>2 DEF TreesAnswered, Item, SamePath, Batches
  <2>. QED BY DEF Answered, TreesAnswered, Item
<1>5. MembersAnswered'
  <2>. SUFFICES ASSUME NEW c \in Bundles, NEW k \in Members(c), disk'[c][k] > 0
                PROVE  /\ disk'[c][k] \in Batches
                       /\ c \in DOMAIN batches[disk'[c][k]].items
                       /\ batches[disk'[c][k]].items[c].state \in Moving
    BY DEF MembersAnswered, Item, Members, Batches
  <2>. QED BY <1>1, Kinds DEF Answered, MembersAnswered, Item
<1>6. OneTree' BY <1>2, Kinds DEF Answered, OneTree
<1>7. MovedWhole' BY DEF MovedWhole
<1>. QED BY <1>3, <1>4, <1>5, <1>6, <1>7 DEF Answered

\* A tree is moved: away, to its path where none is, or to the quarantine of an item that names it.
LEMMA TreeMoved ==
    ASSUME Governed, Answered, UNCHANGED batches,
           NEW g \in Directories, NEW to \in {Gone, 0, op.n}, Move(g, "tree", to),
           g \in Caches /\ to >= 0 => \A d \in Caches : d = g \/ disk[d]["tree"] # to,
           to > 0 => /\ to \in Batches
                     /\ \E r \in SamePath(g) \cap DOMAIN batches[to].items :
                           Item(to, r).state \in Moving /\ Item(to, r).tree = g,
           op'.at # "moved" \/ MovedWhole'
    PROVE  Answered'
<1>1. \A q \in Resources : \A k \in Members(q) : disk'[q][k] = IF q = g /\ k = "tree" THEN to ELSE disk[q][k]
  BY MovedTyped, Kinds
<1>2. \A d \in Directories : disk'[d]["tree"] = IF d = g THEN to ELSE disk[d]["tree"] BY <1>1, Kinds
<1>3. TreesNamed' BY NamedAgain DEF Answered
<1>4. TreesAnswered'
  <2>. SUFFICES ASSUME NEW d \in Directories, disk'[d]["tree"] > 0
                PROVE  /\ disk'[d]["tree"] \in Batches
                       /\ \E q \in SamePath(d) \cap DOMAIN batches[disk'[d]["tree"]].items :
                             /\ batches[disk'[d]["tree"]].items[q].state \in Moving
                             /\ batches[disk'[d]["tree"]].items[q].tree = d
    BY DEF TreesAnswered, Item, SamePath, Batches
  <2>1. CASE d = g BY <1>2, <2>1 DEF Item
  <2>2. CASE d # g BY <1>2, <2>2 DEF Answered, TreesAnswered, Item
  <2>. QED BY <2>1, <2>2
<1>5. MembersAnswered'
  <2>. SUFFICES ASSUME NEW c \in Bundles, NEW k \in Members(c), disk'[c][k] > 0
                PROVE  /\ disk'[c][k] \in Batches
                       /\ c \in DOMAIN batches[disk'[c][k]].items
                       /\ batches[disk'[c][k]].items[c].state \in Moving
    BY DEF MembersAnswered, Item, Members, Batches
  <2>. QED BY <1>1, Kinds DEF Answered, MembersAnswered, Item
<1>6. OneTree'
  <2>. SUFFICES ASSUME NEW c \in Caches, NEW d \in Caches, disk'[c]["tree"] = disk'[d]["tree"], disk'[c]["tree"] >= 0
                PROVE  c = d
    BY DEF OneTree
  <2>. QED BY <1>2, Kinds DEF Answered, OneTree
<1>7. MovedWhole' BY DEF MovedWhole
<1>. QED BY <1>3, <1>4, <1>5, <1>6, <1>7 DEF Answered

-----------------------------------------------------------------------------
(* The steps.                                                              *)

\* A step of the environment or of a call that touches neither files nor journal.
LEMMA QuietAnswered ==
    ASSUME Governed, Answered,
           \/ Tick \/ WriteRows \/ Discover \/ Preview \/ Reconciled \/ Finish \/ RestoreReleased \/ PurgePlanned
           \/ ResumePurge \/ MakeDirectory \/ Crash \/ IoError
           \/ \E r \in Resources :
                 \/ \E recovered \in BOOLEAN : FinishRun(r, recovered)
                 \/ Depend(r)
                 \/ \E pin \in BOOLEAN : RegisterResource(r, pin)
                 \/ VerifyResource(r)
                 \/ \E verified \in {Never, clock} : RegisterFlat(r, verified)
           \/ \E call \in {"execute", "restore", "purge"}, n \in Batches : Continue(call, n)
    PROVE  Answered'
<1>1. op \in OpType BY DEF Governed, Typed
<1>2. UNCHANGED <<disk, batches>> /\ (op'.at # "moved" \/ op' = op)
  <2>1. CASE Tick \/ Preview BY <2>1 DEF Tick, Preview, world
  <2>2. CASE WriteRows \/ \E r \in Resources : Depend(r) \/ \E recovered \in BOOLEAN : FinishRun(r, recovered)
    BY <2>2 DEF WriteRows, Depend, FinishRun, Change, calls
  <2>3. CASE \/ Discover
             \/ \E r \in Resources :
                   \/ \E pin \in BOOLEAN : RegisterResource(r, pin)
                   \/ VerifyResource(r)
                   \/ \E verified \in {Never, clock} : RegisterFlat(r, verified)
    BY <2>3 DEF Discover, RegisterResource, VerifyResource, RegisterFlat, Govern, calls
  <2>4. CASE Reconciled
    <3>1. op'.at = "item" BY <1>1, <2>4 DEF Reconciled, ToLoop, OpType
    <3>. QED BY <2>4, <3>1 DEF Reconciled
  <2>9. CASE Finish BY <2>9 DEF Finish, Idle
  <2>5. CASE RestoreReleased \/ PurgePlanned
    BY <2>5 DEF RestoreReleased, PurgePlanned, Stop, Still, Idle
  <2>6. CASE ResumePurge \/ MakeDirectory
    BY <1>1, <2>6 DEF ResumePurge, MakeDirectory, Stop, Still, Idle, Goto, OpType
  <2>7. CASE Crash \/ IoError BY <2>7 DEF Crash, IoError, Fault, Idle
  <2>8. CASE \E call \in {"execute", "restore", "purge"}, n \in Batches : Continue(call, n)
    BY <2>8 DEF Continue, Begin
  <2>. QED BY <2>1, <2>2, <2>3, <2>4, <2>5, <2>6, <2>7, <2>8, <2>9
<1>. QED BY <1>2, Unmoved

LEMMA StopAnswered == ASSUME Governed, Answered, Stop, UNCHANGED disk PROVE Answered'
<1>. QED BY Unmoved DEF Stop, Idle

LEMMA StartRunAnswered == ASSUME Governed, Answered, NEW r \in Resources, StartRun(r) PROVE Answered'
<1>1. r \in Runs /\ r \in Directories /\ r \notin Caches BY Kinds DEF StartRun, Directories
<1>2. Move(r, "tree", 0) /\ UNCHANGED batches /\ op' = op /\ op = Idle
  BY DEF StartRun, Change, calls, Move, Between, Governed, OpInv
<1>3. op'.at # "moved" BY <1>2 DEF Idle
<1>. QED BY <1>1, <1>2, <1>3, TreeMoved

LEMMA BuildCacheAnswered == ASSUME Governed, Answered, NEW r \in Resources, BuildCache(r) PROVE Answered'
<1>1. r \in Directories BY Kinds DEF BuildCache
<1>2. Move(r, "tree", 0) /\ UNCHANGED batches /\ op' = op /\ op = Idle
  BY DEF BuildCache, Change, calls, Move, Between, Governed, OpInv
<1>3. op'.at # "moved" BY <1>2 DEF Idle
<1>4. \A d \in Caches : disk[d]["tree"] # 0 BY DEF BuildCache
<1>. QED BY <1>1, <1>2, <1>3, <1>4, TreeMoved

LEMMA LeaveRecoveryPointAnswered ==
    ASSUME Governed, Answered, NEW r \in Resources, LeaveRecoveryPoint(r) PROVE Answered'
<1>1. /\ r \in Bundles /\ disk' = [disk EXCEPT ![r] = [m \in Members(r) |-> 0]] /\ batches' = batches /\ op' = op
      /\ op = Idle
  BY DEF LeaveRecoveryPoint, Change, calls, Between, Governed, OpInv
<1>2. \A q \in Resources : q # r => disk'[q] = disk[q] BY <1>1 DEF Governed, Typed, DiskTyped
<1>3. \A m \in Members(r) : disk'[r][m] = 0 BY <1>1, Kinds DEF Governed, Typed, DiskTyped
<1>4. \A g \in Directories : disk'[g]["tree"] = disk[g]["tree"] BY <1>1, <1>2, Kinds
<1>5. TreesNamed' BY <1>1, NamedAgain DEF Answered
<1>6. TreesAnswered'
  <2>. SUFFICES ASSUME NEW g \in Directories, disk[g]["tree"] > 0
                PROVE  /\ disk[g]["tree"] \in Batches
                       /\ \E q \in SamePath(g) \cap DOMAIN batches[disk[g]["tree"]].items :
                             /\ batches[disk[g]["tree"]].items[q].state \in Moving
                             /\ batches[disk[g]["tree"]].items[q].tree = g
    BY <1>1, <1>4 DEF TreesAnswered, Item, SamePath, Batches
  <2>. QED BY DEF Answered, TreesAnswered, Item
<1>7. MembersAnswered'
  <2>. SUFFICES ASSUME NEW c \in Bundles, NEW k \in Members(c), disk'[c][k] > 0
                PROVE  /\ disk'[c][k] \in Batches
                       /\ c \in DOMAIN batches[disk'[c][k]].items
                       /\ batches[disk'[c][k]].items[c].state \in Moving
    BY <1>1 DEF MembersAnswered, Item, Members, Batches
  <2>1. c # r BY <1>3
  <2>. QED BY <1>2, <2>1, Kinds DEF Answered, MembersAnswered, Item
<1>8. OneTree' BY <1>4, Kinds DEF Answered, OneTree
<1>9. MovedWhole' BY <1>1 DEF MovedWhole, Idle
<1>. QED BY <1>5, <1>6, <1>7, <1>8, <1>9 DEF Answered

LEMMA ExecuteAnswered == ASSUME Governed, Answered, NEW plan \in plans, Execute(plan) PROVE Answered'
<1>. DEFINE new == Len(batches')
<1>1. /\ Started(plan) /\ plan.items = Executable(plan.asOf) /\ plan.items \subseteq Resources
      /\ op' = [call |-> "execute", n |-> new, at |-> "reconcile", todo |-> plan.items]
  BY ExecuteStarts
<1>2. disk' = disk BY DEF Execute
<1>3. /\ Batches' = Batches \cup {new} /\ new \notin Batches
      /\ \A n \in Batches : batches'[n] = batches[n]
      /\ batches'[new].items = Fresh(plan.items)
  BY <1>1 DEF Started
<1>4. /\ DOMAIN batches'[new].items = plan.items
      /\ \A r \in plan.items \cap Directories :
            batches'[new].items[r].tree = First(TreesAt(r, 0)) /\ First(TreesAt(r, 0)) \in SamePath(r)
  <2>1. \A r \in plan.items \cap Directories : First(TreesAt(r, 0)) \in SamePath(r)
    BY <1>1, TreeTaken DEF TreesAt
  <2>2. \A r \in plan.items \cap Directories : Fresh(plan.items)[r].tree = First(TreesAt(r, 0))
    BY DEF Fresh
  <2>. QED BY <1>3, <2>1, <2>2 DEF Fresh
<1>5. TreesNamed'
  <2>. SUFFICES ASSUME NEW n \in Batches \cup {new}, NEW r \in DOMAIN batches'[n].items \cap Directories
                PROVE  /\ batches'[n].items[r].tree \in SamePath(r)
                       /\ \A q \in DOMAIN batches'[n].items \cap SamePath(r) :
                             batches'[n].items[q].tree = batches'[n].items[r].tree
    BY <1>3 DEF TreesNamed, Item
  <2>1. CASE n \in Batches
    <3>1. batches'[n] = batches[n] BY <1>3, <2>1
    <3>. QED BY <2>1, <3>1 DEF Answered, TreesNamed, Item
  <2>2. CASE n = new
    <3>1. \A q \in SamePath(r) : q \in Directories /\ TreesAt(q, 0) = TreesAt(r, 0) BY SamePaths
    <3>. QED BY <1>4, <2>2, <3>1
  <2>. QED BY <2>1, <2>2
<1>6. TreesAnswered'
  <2>. SUFFICES ASSUME NEW g \in Directories, disk[g]["tree"] > 0
                PROVE  /\ disk[g]["tree"] \in Batches'
                       /\ \E q \in SamePath(g) \cap DOMAIN batches'[disk[g]["tree"]].items :
                             /\ batches'[disk[g]["tree"]].items[q].state \in Moving
                             /\ batches'[disk[g]["tree"]].items[q].tree = g
    BY <1>2 DEF TreesAnswered, Item, SamePath
  <2>. QED BY <1>3 DEF Answered, TreesAnswered, Item
<1>7. MembersAnswered'
  <2>. SUFFICES ASSUME NEW b \in Bundles, NEW m \in Members(b), disk[b][m] > 0
                PROVE  /\ disk[b][m] \in Batches'
                       /\ b \in DOMAIN batches'[disk[b][m]].items
                       /\ batches'[disk[b][m]].items[b].state \in Moving
    BY <1>2 DEF MembersAnswered, Item, Members
  <2>. QED BY <1>3 DEF Answered, MembersAnswered, Item
<1>8. OneTree' BY <1>2 DEF Answered, OneTree
<1>9. MovedWhole' BY <1>1 DEF MovedWhole
<1>. QED BY <1>5, <1>6, <1>7, <1>8, <1>9 DEF Answered

\* A row is written of files that are where it says.
LEMMA RowAnswered ==
    ASSUME Governed, Answered, op.call # "none", op.todo # {}, NEW n, n = op.n, NEW r, r = First(op.todo),
           NEW state \in {"quarantined", "restored", "purged"}, Row(state),
           state # "quarantined" => /\ r \in Directories => disk[Item(n, r).tree]["tree"] # n
                                    /\ r \in Bundles => \A m \in Members(r) : disk[r][m] # n
    PROVE  Answered'
<1>. DEFINE item == [Item(n, r) EXCEPT !.state = state]
<1>1. n \in Batches /\ r \in DOMAIN batches[n].items /\ Item(n, r) \in ItemType BY AtHand
<1>2. Keeps(n, r, item) BY <1>1, Transitioned DEF Row, Governed
<1>3. item.state = state /\ item.tree = Item(n, r).tree BY <1>1 DEF ItemType
<1>4. op'.at # "moved"
  <2>1. op \in OpType BY DEF Governed, Typed
  <2>. QED BY <2>1 DEF Row, OpType
<1>5. disk' = disk BY DEF Row, Still
<1>6. state = "quarantined" => item.state \in Moving BY <1>3 DEF Moving
<1>. HIDE DEF item
<1>. QED BY <1>1, <1>2, <1>3, <1>4, <1>5, <1>6, Rewritten

LEMMA ReconcileAnswered == ASSUME Governed, Answered, Reconcile PROVE Answered'
<1>. DEFINE n == op.n
            r == First(op.todo)
<1>1. /\ op.call # "none" /\ op.at = "reconcile" /\ op.todo # {} /\ Still
      /\ \/ Stop
         \/ Skip
         \/ Row("quarantined")
         \/ Row("restored") /\ SameTree(n, r, 0) /\ (r \in Bundles => AllAt(r, 0))
  BY ReconcileEnds
<1>2. n \in 1..MaxBatches BY <1>1, AtHand
<1>3. CASE Stop BY <1>1, <1>3, StopAnswered DEF Still
<1>4. CASE Skip
  <2>1. op \in OpType BY DEF Governed, Typed
  <2>2. op'.at # "moved" BY <1>1, <1>4, <2>1 DEF Skip, OpType
  <2>. QED BY <1>1, <1>4, <2>2, Unmoved DEF Skip, Still
<1>5. CASE Row("quarantined") BY <1>1, <1>5, RowAnswered
<1>6. CASE Row("restored") /\ SameTree(n, r, 0) /\ (r \in Bundles => AllAt(r, 0))
  <2>1. r \in Directories => disk[Item(n, r).tree]["tree"] = 0 BY <1>6, TreeIsResource
  <2>2. r \in Bundles => \A m \in Members(r) : disk[r][m] = 0 BY <1>6 DEF AllAt
  <2>. QED BY <1>1, <1>2, <1>6, <2>1, <2>2, RowAnswered
<1>. QED BY <1>1, <1>3, <1>4, <1>5, <1>6

\* What the journal notes of an item that stays unfinished.
LEMMA NotedAnswered ==
    ASSUME Governed, Answered, UNCHANGED disk, op.call # "none", op.todo # {}, op'.at # "moved",
           NEW item \in ItemType, Save(op.n, First(op.todo), item),
           item.tree = Item(op.n, First(op.todo)).tree, item.state \in Moving
    PROVE  Answered'
<1>1. op.n \in Batches /\ First(op.todo) \in DOMAIN batches[op.n].items BY AtHand
<1>2. Keeps(op.n, First(op.todo), item) BY <1>1, Saved DEF Governed
<1>. QED BY <1>1, <1>2, Rewritten

LEMMA GoneTo ==
    ASSUME Governed, NEW at, Goto(at)
    PROVE  op'.at = at /\ op'.call = op.call /\ op'.n = op.n /\ op'.todo = op.todo
<1>. QED BY DEF Goto, Governed, Typed, OpType

LEMMA GuardBundleAnswered == ASSUME Governed, Answered, GuardBundle PROVE Answered'
<1>. DEFINE n == op.n
            r == First(op.todo)
            item == [Item(n, r) EXCEPT !.guard = Evidence(r)]
<1>1. At("execute", "item", Bundles) /\ disk' = disk BY DEF GuardBundle, Still
<1>2. op.call = "execute" /\ op.at = "item" /\ op.todo # {} /\ r \in Resources /\ Item(n, r) \in ItemType
  BY <1>1, AtGives
<1>3. \/ Stop
      \/ Goto("mkdir") /\ UNCHANGED <<reg, src, batches>>
      \/ Save(n, r, item) /\ Goto("mkdir") /\ UNCHANGED <<reg, src>>
  BY DEF GuardBundle
<1>4. item \in ItemType /\ item.tree = Item(n, r).tree /\ item.state \in Moving
  <2>1. Evidence(r) \in EvidenceType BY <1>2, EvidenceTyped DEF Governed
  <2>2. Item(n, r).state = "planned" BY <1>2, AtHand DEF ToHandle
  <2>. QED BY <1>2, <2>1, <2>2 DEF ItemType, Moving
<1>5. CASE Stop BY <1>1, <1>5, StopAnswered
<1>6. CASE Goto("mkdir") /\ UNCHANGED <<reg, src, batches>> BY <1>1, <1>6, GoneTo, Unmoved
<1>7. CASE Save(n, r, item) /\ Goto("mkdir") /\ UNCHANGED <<reg, src>>
  <2>1. op'.at # "moved" BY <1>7, GoneTo
  <2>. HIDE DEF item
  <2>. QED BY <1>1, <1>2, <1>4, <1>7, <2>1, NotedAnswered
<1>. QED BY <1>3, <1>5, <1>6, <1>7

LEMMA SaveDirectoryAnswered == ASSUME Governed, Answered, SaveDirectory PROVE Answered'
<1>. DEFINE n == op.n
            r == First(op.todo)
            item == [Item(n, r) EXCEPT !.dir = TRUE]
<1>1. At("execute", "identity", Bundles) /\ disk' = disk BY DEF SaveDirectory, Still
<1>2. op.call = "execute" /\ op.at = "identity" /\ op.todo # {} /\ r \in Resources /\ Item(n, r) \in ItemType
  BY <1>1, AtGives
<1>3. Save(n, r, item) /\ Goto("move") BY DEF SaveDirectory
<1>4. item \in ItemType /\ item.tree = Item(n, r).tree /\ item.state \in Moving
  <2>1. Item(n, r).state = "planned" BY <1>2, AtHand DEF ToHandle
  <2>. QED BY <1>2, <2>1 DEF ItemType, Moving
<1>5. op'.at # "moved" BY <1>3, GoneTo
<1>. HIDE DEF item
<1>. QED BY <1>1, <1>2, <1>3, <1>4, <1>5, NotedAnswered

LEMMA StartPurgeAnswered == ASSUME Governed, Answered, StartPurge PROVE Answered'
<1>. DEFINE n == op.n
            r == First(op.todo)
            item == [Item(n, r) EXCEPT !.state = "purging", !.purgeGuard = Evidence(r)]
<1>1. At("purge", "item", Unfinished(op.n, {"quarantined"})) /\ disk' = disk BY DEF StartPurge, Still
<1>2. op.call = "purge" /\ op.at = "item" /\ op.todo # {} /\ r \in Resources /\ Item(n, r) \in ItemType
  BY <1>1, AtGives
<1>3. \/ Save(n, r, item) /\ Goto("unlink") /\ UNCHANGED <<reg, src>>
      \/ Stop
  BY DEF StartPurge
<1>4. item \in ItemType /\ item.tree = Item(n, r).tree /\ item.state \in Moving
  <2>1. Evidence(r) \in EvidenceType BY <1>2, EvidenceTyped DEF Governed
  <2>. QED BY <1>2, <2>1 DEF ItemType, ItemStates, Moving
<1>5. CASE Stop BY <1>1, <1>5, StopAnswered
<1>6. CASE Save(n, r, item) /\ Goto("unlink") /\ UNCHANGED <<reg, src>>
  <2>1. op'.at # "moved" BY <1>6, GoneTo
  <2>. HIDE DEF item
  <2>. QED BY <1>1, <1>2, <1>4, <1>6, <2>1, NotedAnswered
<1>. QED BY <1>3, <1>5, <1>6

\* The member a rename takes.
LEMMA NextMembers == ASSUME NEW r \in Bundles, NEW l PROVE NextMember(r, l) \in Members(r)
<1>. QED BY DEF NextMember, Members

LEMMA MoveMemberAnswered == ASSUME Governed, Answered, MoveMember PROVE Answered'
<1>. DEFINE n == op.n
            r == First(op.todo)
<1>1. At("execute", "move", Bundles) /\ UNCHANGED <<world, holders, plans, spent>> BY DEF MoveMember
<1>2. /\ op.call = "execute" /\ op.at = "move" /\ op.todo # {} /\ r \in Bundles /\ n \in Batches
      /\ r \in DOMAIN batches[n].items
  BY <1>1, AtGives
<1>3. \/ Stop /\ UNCHANGED disk
      \/ Transition(n, r, "quarantined") /\ NextItem /\ UNCHANGED disk
      \/ Move(r, NextMember(r, 0), n) /\ UNCHANGED <<reg, src, batches, op>>
  BY DEF MoveMember
<1>4. CASE Stop /\ UNCHANGED disk BY <1>4, StopAnswered
<1>5. CASE Transition(n, r, "quarantined") /\ NextItem /\ UNCHANGED disk
  <2>1. Row("quarantined") BY <1>1, <1>2, <1>5, NextRow DEF Still
  <2>. QED BY <1>2, <2>1, RowAnswered
<1>6. CASE Move(r, NextMember(r, 0), n) /\ UNCHANGED <<reg, src, batches, op>>
  <2>1. Item(n, r).state \in Moving BY <1>2, AtHand DEF ToHandle, Moving
  <2>. QED BY <1>2, <1>6, <2>1, MemberMoved
<1>. QED BY <1>3, <1>4, <1>5, <1>6

LEMMA MoveDirectoryAnswered == ASSUME Governed, Answered, MoveDirectory PROVE Answered'
<1>. DEFINE n == op.n
            r == First(op.todo)
            g == Item(n, r).tree
<1>1. At("execute", "item", Directories) BY DEF MoveDirectory
<1>2. /\ op.call = "execute" /\ op.at = "item" /\ op.todo # {} /\ r \in Directories /\ n \in Batches
      /\ r \in DOMAIN batches[n].items /\ n \in 1..MaxBatches
  BY <1>1, AtGives
<1>3. \/ /\ SameTree(n, r, 0) /\ Move(g, "tree", n) /\ Goto("moved") /\ UNCHANGED batches
      \/ Stop /\ UNCHANGED disk
  BY DEF MoveDirectory
<1>4. CASE Stop /\ UNCHANGED disk BY <1>4, StopAnswered
<1>5. CASE /\ SameTree(n, r, 0) /\ Move(g, "tree", n) /\ Goto("moved") /\ UNCHANGED batches
  <2>1. g \in SamePath(r) /\ g \in Directories /\ disk[g]["tree"] = 0 BY <1>2, <1>5, TreeIsResource
  <2>2. Item(n, r).state \in Moving BY <1>2, AtHand DEF ToHandle, Moving
  <2>3. r \in SamePath(g) BY <1>2, <2>1, SamePaths
  <2>4. g \in Caches => \A d \in Caches : d = g \/ disk[d]["tree"] # n
    <3>. SUFFICES ASSUME g \in Caches, NEW d \in Caches, disk[d]["tree"] = n PROVE d = g
      OBVIOUS
    <3>1. d \in Directories BY Kinds
    <3>2. PICK q \in SamePath(d) \cap DOMAIN batches[n].items : Item(n, q).tree = d
      BY <1>2, <3>1 DEF Answered, TreesAnswered
    <3>3. SamePath(d) = Caches /\ SamePath(g) = Caches /\ r \in Caches BY <2>3 DEF SamePath
    <3>4. q \in SamePath(r) BY <3>2, <3>3 DEF SamePath
    <3>. QED BY <1>2, <3>2, <3>4 DEF Answered, TreesNamed
  <2>5. disk'[g]["tree"] = n
    <3>1. g \in Resources /\ "tree" \in Members(g) BY <2>1, Kinds
    <3>. QED BY <1>5, <3>1, MovedTyped
  <2>6. MovedWhole'
    <3>1. op'.call = "execute" /\ op'.n = n /\ op'.todo = op.todo BY <1>2, <1>5, GoneTo
    <3>. QED BY <1>2, <1>5, <2>5, <3>1 DEF MovedWhole, Item
  <2>. QED BY <1>2, <1>5, <2>1, <2>2, <2>3, <2>4, <2>6, TreeMoved
<1>. QED BY <1>3, <1>4, <1>5

LEMMA DirectoryMovedAnswered == ASSUME Governed, Answered, DirectoryMoved PROVE Answered'
<1>1. op.call # "none" /\ op.at = "moved" /\ op.todo # {} BY AtGives DEF DirectoryMoved
<1>2. Row("quarantined") BY <1>1, NextRow DEF DirectoryMoved
<1>. QED BY <1>1, <1>2, RowAnswered

LEMMA RestoreMemberAnswered == ASSUME Governed, Answered, RestoreMember PROVE Answered'
<1>. DEFINE n == op.n
            r == First(op.todo)
<1>1. At("restore", "item", Restorable \cap Bundles) /\ UNCHANGED <<world, holders, plans, spent>>
  BY DEF RestoreMember
<1>2. /\ op.call = "restore" /\ op.at = "item" /\ op.todo # {} /\ r \in Bundles /\ n \in 1..MaxBatches
  BY <1>1, AtGives
<1>3. \/ Stop /\ UNCHANGED disk
      \/ AllAt(r, 0) /\ Transition(n, r, "restored") /\ NextItem /\ UNCHANGED disk
      \/ Move(r, NextMember(r, n), 0) /\ UNCHANGED <<reg, src, batches, op>>
  BY DEF RestoreMember
<1>4. CASE Stop /\ UNCHANGED disk BY <1>4, StopAnswered
<1>5. CASE AllAt(r, 0) /\ Transition(n, r, "restored") /\ NextItem /\ UNCHANGED disk
  <2>1. Row("restored") BY <1>1, <1>2, <1>5, NextRow DEF Still
  <2>2. \A m \in Members(r) : disk[r][m] # n BY <1>2, <1>5 DEF AllAt
  <2>3. r \notin Directories BY <1>2, Kinds
  <2>. QED BY <1>2, <2>1, <2>2, <2>3, RowAnswered
<1>6. CASE Move(r, NextMember(r, n), 0) /\ UNCHANGED <<reg, src, batches, op>>
  BY <1>2, <1>6, MemberMoved
<1>. QED BY <1>3, <1>4, <1>5, <1>6

\* A directory whose tree is at the path is no longer in the quarantine.
LEMMA DirectoryIsBack ==
    ASSUME Governed, Answered, op.call # "none", op.todo # {}, NEW n, n = op.n, NEW r, r = First(op.todo),
           r \in Directories, disk[Item(n, r).tree]["tree"] = 0, Row("restored")
    PROVE  Answered'
<1>1. n \in 1..MaxBatches BY AtHand
<1>2. r \notin Bundles BY Kinds
<1>3. disk[Item(n, r).tree]["tree"] # n BY <1>1
<1>. QED BY <1>2, <1>3, RowAnswered

LEMMA RestorePlannedAnswered == ASSUME Governed, Answered, RestorePlanned PROVE Answered'
<1>. DEFINE n == op.n
            r == First(op.todo)
<1>1. At("restore", "item", Unfinished(op.n, {"planned"}) \cap Directories) /\ Still BY DEF RestorePlanned
<1>2. op.call # "none" /\ op.at = "item" /\ op.todo # {} /\ r \in Directories BY <1>1, AtGives
<1>3. \/ SameTree(n, r, 0) /\ Transition(n, r, "restored") /\ NextItem
      \/ Stop
  BY DEF RestorePlanned
<1>4. CASE Stop BY <1>1, <1>4, StopAnswered DEF Still
<1>5. CASE SameTree(n, r, 0) /\ Transition(n, r, "restored") /\ NextItem
  <2>1. Row("restored") BY <1>1, <1>2, <1>5, NextRow
  <2>2. disk[Item(n, r).tree]["tree"] = 0 BY <1>2, <1>5, TreeIsResource
  <2>. QED BY <1>2, <2>1, <2>2, DirectoryIsBack
<1>. QED BY <1>3, <1>4, <1>5

LEMMA RestoreDirectoryAnswered == ASSUME Governed, Answered, RestoreDirectory PROVE Answered'
<1>. DEFINE n == op.n
            r == First(op.todo)
            g == Item(n, r).tree
<1>1. At("restore", "item", Unfinished(op.n, {"quarantined"}) \cap Directories) BY DEF RestoreDirectory
<1>2. /\ op.call = "restore" /\ op.at = "item" /\ op.todo # {} /\ r \in Directories BY <1>1, AtGives
<1>3. \/ /\ SameTree(n, r, n) /\ ~Exists(r, 0) /\ Move(g, "tree", 0) /\ Goto("moved") /\ UNCHANGED batches
      \/ Stop /\ UNCHANGED disk
  BY DEF RestoreDirectory
<1>4. CASE Stop /\ UNCHANGED disk BY <1>4, StopAnswered
<1>5. CASE SameTree(n, r, n) /\ ~Exists(r, 0) /\ Move(g, "tree", 0) /\ Goto("moved") /\ UNCHANGED batches
  <2>1. g \in SamePath(r) /\ g \in Directories BY <1>2, <1>5, TreeIsResource
  <2>2. TreesAt(r, 0) = {}
    <3>1. r \notin Bundles BY <1>2, Kinds
    <3>. QED BY <1>5, <3>1 DEF Exists
  <2>3. g \in Caches => \A d \in Caches : disk[d]["tree"] # 0
    <3>. SUFFICES ASSUME g \in Caches PROVE \A d \in Caches : disk[d]["tree"] # 0
      OBVIOUS
    <3>1. SamePath(r) = Caches BY <1>2, <2>1, SamePaths DEF SamePath
    <3>. QED BY <2>2, <3>1 DEF TreesAt
  <2>4. disk'[g]["tree"] = 0
    <3>1. g \in Resources /\ "tree" \in Members(g) BY <2>1, Kinds
    <3>. QED BY <1>5, <3>1, MovedTyped
  <2>5. MovedWhole'
    <3>1. op'.call = "restore" /\ op'.n = n /\ op'.todo = op.todo BY <1>2, <1>5, GoneTo
    <3>. QED BY <1>2, <1>5, <2>4, <3>1 DEF MovedWhole, Item
  <2>. QED BY <1>2, <1>5, <2>1, <2>3, <2>5, TreeMoved
<1>. QED BY <1>3, <1>4, <1>5

LEMMA DirectoryRestoredAnswered == ASSUME Governed, Answered, DirectoryRestored PROVE Answered'
<1>1. op.call = "restore" /\ op.at = "moved" /\ op.todo # {} /\ First(op.todo) \in Directories
  BY AtGives DEF DirectoryRestored
<1>2. Row("restored") BY <1>1, NextRow DEF DirectoryRestored
<1>3. disk[Item(op.n, First(op.todo)).tree]["tree"] = 0 BY <1>1 DEF Answered, MovedWhole
<1>. QED BY <1>1, <1>2, <1>3, DirectoryIsBack

LEMMA UnlinkAnswered == ASSUME Governed, Answered, Unlink PROVE Answered'
<1>. DEFINE n == op.n
            r == First(op.todo)
            g == Item(n, r).tree
<1>1. At("purge", "unlink", Resources) /\ UNCHANGED <<world, plans, spent>> BY DEF Unlink
<1>2. /\ op.call # "none" /\ op.at = "unlink" /\ op.todo # {} /\ r \in Resources
      /\ n \in Batches /\ r \in DOMAIN batches[n].items
  BY <1>1, AtGives
<1>3. r \in Directories => g \in SamePath(r) /\ g \in Directories
  <2>1. r \in Directories => g \in SamePath(r) BY <1>2 DEF Answered, TreesNamed
  <2>. QED BY <2>1, SamePaths
<1>4. \/ \E m : r \in Bundles /\ Move(r, m, Gone) /\ UNCHANGED <<batches, op>>
      \/ r \notin Bundles /\ Move(g, "tree", Gone) /\ UNCHANGED <<batches, op>>
      \/ UNCHANGED <<disk, batches, op>>
      \/ Contents(n, r) = {} /\ Transition(n, r, "purged") /\ NextItem /\ UNCHANGED <<disk, holders>>
  BY DEF Unlink
<1>5. CASE \E m : r \in Bundles /\ Move(r, m, Gone) /\ UNCHANGED <<batches, op>>
  BY <1>2, <1>5, MemberMoved DEF Gone
<1>6. CASE r \notin Bundles /\ Move(g, "tree", Gone) /\ UNCHANGED <<batches, op>>
  <2>1. r \in Directories BY <1>2, <1>6 DEF Resources
  <2>. QED BY <1>2, <1>3, <1>6, <2>1, TreeMoved DEF Gone
<1>7. CASE UNCHANGED <<disk, batches, op>> BY <1>7, Unmoved
<1>8. CASE Contents(n, r) = {} /\ Transition(n, r, "purged") /\ NextItem /\ UNCHANGED <<disk, holders>>
  <2>1. Row("purged") BY <1>1, <1>2, <1>8, NextRow DEF Still
  <2>2. r \in Directories => disk[g]["tree"] # n
    <3>. SUFFICES ASSUME r \in Directories PROVE disk[g]["tree"] # n
      OBVIOUS
    <3>1. TreesAt(r, n) = {} BY <1>8, Kinds DEF Contents
    <3>. QED BY <1>3, <3>1 DEF TreesAt
  <2>3. r \in Bundles => \A m \in Members(r) : disk[r][m] # n BY <1>8 DEF Contents
  <2>. QED BY <1>2, <2>1, <2>2, <2>3, RowAnswered
<1>. QED BY <1>4, <1>5, <1>6, <1>7, <1>8

LEMMA NextAnswered == ASSUME Governed, Answered, [Next]_vars PROVE Answered'
<1>1. CASE Environment
  BY <1>1, QuietAnswered, StartRunAnswered, BuildCacheAnswered, LeaveRecoveryPointAnswered
  DEF Environment
<1>2. CASE Calls
  BY <1>2, QuietAnswered, ExecuteAnswered, ReconcileAnswered, GuardBundleAnswered, SaveDirectoryAnswered,
     MoveMemberAnswered, MoveDirectoryAnswered, DirectoryMovedAnswered, RestoreMemberAnswered,
     RestorePlannedAnswered, RestoreDirectoryAnswered, DirectoryRestoredAnswered, StartPurgeAnswered,
     UnlinkAnswered
  DEF Calls
<1>3. CASE Crash \/ IoError BY <1>3, QuietAnswered
<1>4. CASE UNCHANGED vars BY <1>4, Unmoved DEF vars
<1>. QED BY <1>1, <1>2, <1>3, <1>4 DEF Next

LEMMA GovernedAlways == Spec => [](Governed /\ Answered)
<1>. QED BY InitGoverned, InitAnswered, NextGoverned, NextAnswered, PTL DEF Spec

LEMMA TypesHold == ASSUME Governed PROVE TypeOK
<1>1. /\ clock \in 0..MaxClock /\ (\A r \in Resources : disk[r] \in [Members(r) -> Locations])
      /\ holders \subseteq (1..MaxBatches) \X Resources
      /\ reg \in [Resources -> [state : {"none", "registered", "quarantined", "purged"},
                                at : 0..MaxBatches, pinned : BOOLEAN,
                                verified : Never..MaxClock, used : Never..MaxClock]]
      /\ src \in [Bundles -> [at : 0..MaxBatches, retained : BOOLEAN]]
      /\ Len(batches) <= MaxBatches /\ later \subseteq Resources
  BY DEF Governed, Typed, DiskTyped, RegType, SrcType, BatchesTyped
<1>2. \A n \in Batches : \A r \in DOMAIN batches[n].items :
         Item(n, r).state \in {"planned", "quarantined", "restored", "purging", "purged"}
  BY ItemTyped DEF Governed, ItemType, ItemStates
<1>3. Cardinality(plans) <= 1
  <2>1. CASE plans = {} BY <2>1, FS_EmptySet
  <2>2. CASE \E p \in PlanType : plans = {p}
    <3>1. PICK p : plans = {p} BY <2>2
    <3>2. Cardinality({p}) = 1 BY FS_Singleton
    <3>. QED BY <3>1, <3>2
  <2>. QED BY <2>1, <2>2 DEF Governed, Typed, PlansTyped
<1>4. op.call \in {"none", "execute", "restore", "purge"} /\ op.todo \subseteq Resources
  BY DEF Governed, Typed, OpType
<1>5. facts.needed \subseteq Resources /\ facts.recovered \subseteq Runs
  BY DEF Governed, Typed, FactsType
<1>6. spent.faults \in 0..MaxFaults /\ spent.changes \in 0..MaxChanges
  BY DEF Governed, Typed
<1>. QED BY <1>1, <1>2, <1>3, <1>4, <1>5, <1>6 DEF TypeOK

LEMMA ApartHolds == ASSUME Governed, Answered PROVE GenerationsApart
<1>. SUFFICES ASSUME NEW l \in 0..MaxBatches, NEW r \in Resources \ Bundles
              PROVE  Cardinality(TreesAt(r, l)) <= 1
  BY DEF GenerationsApart
<1>1. l >= 0 BY ConstantsAssumption
<1>2. \A c, d \in TreesAt(r, l) : c = d
  <2>1. CASE r \in Caches BY <1>1, <2>1 DEF TreesAt, SamePath, Answered, OneTree
  <2>2. CASE r \notin Caches BY <2>2 DEF TreesAt, SamePath
  <2>. QED BY <2>1, <2>2
<1>3. CASE TreesAt(r, l) = {} BY <1>3, FS_EmptySet
<1>4. CASE \E c : TreesAt(r, l) = {c} BY <1>4, FS_Singleton
<1>5. TreesAt(r, l) = {} \/ \E c : TreesAt(r, l) = {c} BY <1>2
<1>. QED BY <1>3, <1>4, <1>5

\* The tables stay typed and no two generations of a cache are ever at one place: neither a restoration
\* overwrites a rebuilt cache nor do two moves meet in one quarantine, whatever was interrupted
\* (retention-executor.ts).
THEOREM RegistrySafe == Spec => []RegistryInv
<1>1. Governed /\ Answered => RegistryInv BY TypesHold, ApartHolds DEF RegistryInv
<1>. QED BY <1>1, GovernedAlways, PTL

\* Whatever lies in a quarantine is an unfinished item of the journal of that batch, after any sequence
\* of interrupted moves, restorations and releases (retention-executor.ts).
THEOREM QuarantineSafe == Spec => []QuarantineJournalled
<1>1. ASSUME Governed, Answered PROVE QuarantineJournalled
  <2>. SUFFICES ASSUME NEW g \in Resources, NEW m \in Members(g), disk[g][m] > 0
                PROVE  \E r \in SamePath(g) : /\ r \in DOMAIN batches[disk[g][m]].items
                                             /\ Item(disk[g][m], r).state \in Moving
    BY <1>1 DEF QuarantineJournalled, Moving
  <2>1. CASE g \in Directories
    <3>1. m = "tree" BY <2>1, Kinds
    <3>. QED BY <1>1, <2>1, <3>1 DEF Answered, TreesAnswered
  <2>2. CASE g \in Bundles
    <3>1. g \in SamePath(g) BY DEF SamePath
    <3>. QED BY <1>1, <2>2, <3>1 DEF Answered, MembersAnswered
  <2>. QED BY <2>1, <2>2 DEF Resources
<1>. QED BY <1>1, GovernedAlways, PTL

-----------------------------------------------------------------------------
(* As long as every call runs to its end.                                  *)

\* What has not been produced yet is nowhere and in no journal.
NotYet ==
    /\ \A r \in later \cap Directories : disk[r]["tree"] = Gone /\ reg[r].state = "none"
    /\ \A n \in Batches : \A r \in DOMAIN batches[n].items \cap Directories : r \notin later
OwnTree == \A n \in Batches : \A r \in DOMAIN batches[n].items \cap Directories : Item(n, r).tree = r
\* A release that has begun is the one under way, and its tree is in the quarantine or gone.
OneRelease == \A n \in Batches : \A r \in DOMAIN batches[n].items :
    Item(n, r).state = "purging" => op.at = "unlink" /\ n = op.n /\ r = First(op.todo)
Releasing == op.at = "unlink" /\ First(op.todo) \in Directories => disk[First(op.todo)]["tree"] \in {op.n, Gone}
\* Between the rename of a directory and its row.
Pending(r) == op.at \in {"moved", "unlink"} /\ r = First(op.todo)
InPlace == \A r \in Directories : ~Pending(r) =>
    /\ reg[r].state = "registered" => disk[r]["tree"] = 0
    /\ reg[r].state = "quarantined" => reg[r].at = disk[r]["tree"]
    /\ disk[r]["tree"] > 0 <=> reg[r].state = "quarantined"

Settled == NotYet /\ OwnTree /\ OneRelease /\ Releasing /\ InPlace

\* The cache at the path, for the runs that need it.
CacheThere == \E c \in Caches : disk[c]["tree"] = 0
RunThere == \E r \in Runs : disk[r]["tree"] # Gone

LEMMA BaseMeans == BaseKept <=> (RunThere /\ Caches # {} => CacheThere)
<1>1. CASE Caches = {} BY <1>1 DEF BaseKept
<1>2. CASE Caches # {}
  <2>1. First(Caches) \in Caches BY <1>2, FirstIn, Kinds
  <2>2. TreesAt(First(Caches), 0) # {} <=> CacheThere BY <2>1 DEF TreesAt, SamePath, CacheThere
  <2>. QED BY <1>2, <2>2 DEF BaseKept, RunThere
<1>. QED BY <1>1, <1>2

LEMMA BaseMeansAfter == (BaseKept <=> (RunThere /\ Caches # {} => CacheThere))'
<1>. QED BY BaseMeans, PTL

LEMMA InitSettled == Init => Settled /\ BaseKept
<1>. SUFFICES ASSUME Init PROVE Settled /\ BaseKept
  OBVIOUS
<1>1. PICK w \in Worlds :
        /\ disk = [r \in Resources |-> [m \in Members(r) |-> IF r \in w.first THEN 0 ELSE Gone]]
        /\ reg = [r \in Resources |-> IF r \in w.first
                      THEN [Unregistered EXCEPT !.state = "registered",
                                !.verified = IF r \in Backups \cup Bundles THEN 0 ELSE Never,
                                !.used = IF r \in Caches THEN 0 ELSE Never]
                      ELSE Unregistered]
        /\ later = w.later
  BY DEF Init
<1>2. w.first \cap w.later = {} /\ (Runs \cap w.first # {} /\ Caches # {} => Caches \cap w.first # {})
  BY ConstantsAssumption
<1>3. batches = <<>> /\ op.at = "none"
  <2>1. batches = <<>> /\ op = Idle BY DEF Init
  <2>. QED BY <2>1 DEF Idle
<1>4. Batches = {} BY <1>3 DEF Batches
<1>5. \A r \in Directories : /\ disk[r]["tree"] = IF r \in w.first THEN 0 ELSE Gone
                             /\ reg[r].state = IF r \in w.first THEN "registered" ELSE "none"
  BY <1>1, Kinds DEF Unregistered
<1>6. NotYet BY <1>1, <1>2, <1>4, <1>5 DEF NotYet
<1>7. OwnTree /\ OneRelease /\ Releasing BY <1>3, <1>4 DEF OwnTree, OneRelease, Releasing
<1>8. InPlace BY <1>5 DEF InPlace, Gone
<1>9. BaseKept
  <2>1. Runs \subseteq Directories BY DEF Directories
  <2>2. RunThere /\ Caches # {} => CacheThere
    BY <1>2, <1>5, <2>1, Kinds DEF RunThere, CacheThere, Gone
  <2>. QED BY <2>2, BaseMeans
<1>. QED BY <1>6, <1>7, <1>8, <1>9 DEF Settled

\* No directory, registration or row of the journal changes.
LEMMA SettledStays ==
    ASSUME Governed, Settled, BaseKept, UNCHANGED batches, later' \subseteq later,
           \A r \in Directories : disk'[r]["tree"] = disk[r]["tree"] /\ reg'[r].state = reg[r].state
                                                                /\ reg'[r].at = reg[r].at,
           op' = op \/ (op.at \notin {"moved", "unlink"} /\ op'.at \notin {"moved", "unlink"})
    PROVE  Settled' /\ BaseKept'
<1>1. Batches' = Batches BY DEF Batches
<1>2. \A r : (Pending(r))' <=> Pending(r) BY DEF Pending
<1>3. NotYet' BY <1>1 DEF Settled, NotYet
<1>4. OwnTree' BY <1>1 DEF Settled, OwnTree, Item
<1>5. OneRelease'
  <2>1. CASE op' = op BY <1>1, <2>1 DEF Settled, OneRelease, Item
  <2>2. CASE op.at # "unlink" BY <1>1, <2>2 DEF Settled, OneRelease, Item
  <2>. QED BY <2>1, <2>2
<1>6. Releasing' BY DEF Settled, Releasing
<1>7. InPlace' BY <1>2 DEF Settled, InPlace
<1>8. BaseKept'
  <2>1. Runs \subseteq Directories BY DEF Directories
  <2>2. (RunThere' <=> RunThere) /\ (CacheThere' <=> CacheThere) BY <2>1, Kinds DEF RunThere, CacheThere
  <2>. QED BY <2>2, BaseMeans, BaseMeansAfter
<1>. QED BY <1>3, <1>4, <1>5, <1>6, <1>7, <1>8 DEF Settled

\* The tree is where a row says.
Arrived(r, state, n) ==
    disk[r]["tree"] = IF state = "quarantined" THEN n ELSE IF state = "restored" THEN 0 ELSE Gone

LEMMA RowWrites ==
    ASSUME Governed, op.call # "none", op.todo # {}, NEW n, n = op.n, NEW r, r = First(op.todo),
           NEW state \in {"quarantined", "restored", "purged"}, Row(state)
    PROVE  Keeps(n, r, [Item(n, r) EXCEPT !.state = state]) /\ Registers(n, r, state)
<1>1. n \in Batches /\ r \in DOMAIN batches[n].items BY AtHand
<1>2. Keeps(n, r, [Item(n, r) EXCEPT !.state = state]) BY <1>1, Transitioned DEF Row, Governed
<1>3. Registers(n, r, state) BY <1>1, Transitioned DEF Row, Governed
<1>. QED BY <1>2, <1>3

LEMMA SettledRow ==
    ASSUME Governed, Answered, Settled, BaseKept, op.call # "none", op.todo # {}, NEW n, n = op.n,
           NEW r, r = First(op.todo), NEW state \in {"quarantined", "restored", "purged"}, Row(state),
           r \in Directories => Arrived(r, state, n)
    PROVE  Settled' /\ BaseKept'
<1>. DEFINE item == [Item(n, r) EXCEPT !.state = state]
<1>1. n \in Batches /\ r \in DOMAIN batches[n].items /\ Item(n, r) \in ItemType /\ r \in Resources
  BY AtHand
<1>3. /\ Keeps(n, r, item) /\ \A q \in Resources : q # r => reg'[q] = reg[q]
      /\ reg'[r].at = (IF state = "restored" THEN 0 ELSE n)
      /\ reg'[r].state = (IF state = "restored" THEN "registered" ELSE state)
  BY ZenonT(60), RowWrites DEF Registers
<1>4. item.state = state /\ item.tree = Item(n, r).tree /\ state # "purging" BY <1>1 DEF ItemType
<1>5. op'.at \in {"reconcile", "item"}
  <2>1. op \in OpType BY DEF Governed, Typed
  <2>. QED BY <2>1 DEF Row, OpType
<1>6. disk' = disk /\ later' = later BY DEF Row, Still, world
<1>7. /\ Batches' = Batches
      /\ \A k \in Batches :
            /\ DOMAIN batches'[k].items = DOMAIN batches[k].items
            /\ \A q \in DOMAIN batches[k].items :
                  batches'[k].items[q] = IF k = n /\ q = r THEN item ELSE Item(k, q)
  BY <1>3 DEF Keeps
<1>. HIDE DEF item
<1>8. NotYet'
  <2>1. r \in Directories => r \notin later BY <1>1 DEF Settled, NotYet
  <2>2. \A q \in later \cap Directories : q # r BY <2>1
  <2>3. \A q \in later' \cap Directories : disk'[q]["tree"] = Gone /\ reg'[q].state = "none"
    BY <1>3, <1>6, <2>2, Kinds DEF Settled, NotYet
  <2>4. \A k \in Batches' : \A q \in DOMAIN batches'[k].items \cap Directories : q \notin later'
    BY <1>6, <1>7 DEF Settled, NotYet
  <2>. QED BY <2>3, <2>4 DEF NotYet
<1>9. OwnTree'
  <2>. SUFFICES ASSUME NEW k \in Batches, NEW q \in DOMAIN batches[k].items \cap Directories
                PROVE  batches'[k].items[q].tree = q
    BY <1>7 DEF OwnTree, Item
  <2>1. Item(k, q).tree = q BY DEF Settled, OwnTree
  <2>. QED BY <1>4, <1>7, <2>1
<1>10. OneRelease'
  <2>. SUFFICES ASSUME NEW k \in Batches, NEW q \in DOMAIN batches[k].items
                PROVE  batches'[k].items[q].state # "purging"
    BY <1>7 DEF OneRelease, Item
  <2>1. CASE k = n /\ q = r BY <1>4, <1>7, <2>1
  <2>2. CASE ~(k = n /\ q = r) BY <1>7, <2>2 DEF Settled, OneRelease
  <2>. QED BY <2>1, <2>2
<1>11. Releasing' BY <1>5 DEF Releasing
<1>12. InPlace'
  <2>. SUFFICES ASSUME NEW q \in Directories
                PROVE  /\ reg'[q].state = "registered" => disk[q]["tree"] = 0
                       /\ reg'[q].state = "quarantined" => reg'[q].at = disk[q]["tree"]
                       /\ disk[q]["tree"] > 0 <=> reg'[q].state = "quarantined"
    BY <1>6 DEF InPlace
  <2>1. CASE q = r
    <3>1. n \in 1..MaxBatches BY AtHand
    <3>. QED BY <1>3, <2>1, <3>1 DEF Arrived, Gone
  <2>2. CASE q # r BY <1>3, <2>2, Kinds DEF Settled, InPlace, Pending
  <2>. QED BY <2>1, <2>2
<1>13. BaseKept'
  <2>1. (RunThere' <=> RunThere) /\ (CacheThere' <=> CacheThere) BY <1>6 DEF RunThere, CacheThere
  <2>. QED BY <2>1, BaseMeans, BaseMeansAfter
<1>. QED BY <1>8, <1>9, <1>10, <1>11, <1>12, <1>13 DEF Settled

\* One tree is moved; its row is still to be written.
LEMMA SettledMoved ==
    ASSUME Governed, Answered, Settled, op.call # "none", op.todo # {}, NEW n, n = op.n, NEW r, r = First(op.todo),
           r \in Directories, UNCHANGED <<batches, reg, later>>, NEW to \in {Gone, 0, n}, Move(r, "tree", to),
           op.at \in {"item", "unlink"}, op'.at \in {"moved", "unlink"}, op'.n = n, op'.todo = op.todo,
           op.at = "unlink" => op'.at = "unlink", op'.at = "unlink" => to = Gone,
           RunThere' /\ Caches # {} => CacheThere'
    PROVE  Settled' /\ BaseKept'
<1>1. n \in Batches /\ r \in DOMAIN batches[n].items /\ r \in Resources BY AtHand
<1>2. \A d \in Directories : disk'[d]["tree"] = IF d = r THEN to ELSE disk[d]["tree"]
  <2>1. \A q \in Resources : \A k \in Members(q) : disk'[q][k] = IF q = r /\ k = "tree" THEN to ELSE disk[q][k]
    BY <1>1, MovedTyped
  <2>. QED BY <2>1, Kinds
<1>3. Batches' = Batches BY DEF Batches
<1>4. NotYet'
  <2>1. r \notin later BY <1>1 DEF Settled, NotYet
  <2>2. \A q \in later' \cap Directories : disk'[q]["tree"] = Gone /\ reg'[q].state = "none"
    BY <1>2, <2>1 DEF Settled, NotYet
  <2>3. \A k \in Batches' : \A q \in DOMAIN batches'[k].items \cap Directories : q \notin later'
    BY <1>3 DEF Settled, NotYet
  <2>. QED BY <2>2, <2>3 DEF NotYet
<1>5. OwnTree' BY <1>3 DEF Settled, OwnTree, Item
<1>6. OneRelease' BY <1>3 DEF Settled, OneRelease, Item
<1>7. Releasing' BY <1>2 DEF Releasing
<1>8. InPlace'
  <2>. SUFFICES ASSUME NEW q \in Directories, q # r
                PROVE  /\ reg[q].state = "registered" => disk'[q]["tree"] = 0
                       /\ reg[q].state = "quarantined" => reg[q].at = disk'[q]["tree"]
                       /\ disk'[q]["tree"] > 0 <=> reg[q].state = "quarantined"
    BY DEF InPlace, Pending
  <2>1. disk'[q]["tree"] = disk[q]["tree"] BY <1>2
  <2>2. ~Pending(q) BY DEF Pending
  <2>. QED BY <2>1, <2>2 DEF Settled, InPlace
<1>9. BaseKept' BY BaseMeansAfter
<1>. QED BY <1>4, <1>5, <1>6, <1>7, <1>8, <1>9 DEF Settled

\* Where the tree of an item is.
LEMMA OwnPlace ==
    ASSUME Governed, Settled, NEW n \in Batches, NEW r \in DOMAIN batches[n].items \cap Directories, NEW l,
           SameTree(n, r, l)
    PROVE  disk[r]["tree"] = l /\ Item(n, r).tree = r
<1>1. Item(n, r).tree = r BY DEF Settled, OwnTree
<1>. QED BY <1>1, TreeIsResource

LEMMA SettledStop ==
    ASSUME Governed, Settled, BaseKept, Stop, UNCHANGED <<disk, later>>, op.at \notin {"moved", "unlink"}
    PROVE  Settled' /\ BaseKept'
<1>. QED BY SettledStays DEF Stop, Idle

LEMMA SettledQuiet ==
    ASSUME Governed, Settled, BaseKept,
           \/ Tick \/ WriteRows \/ Preview \/ Reconciled \/ Finish \/ RestoreReleased \/ PurgePlanned \/ MakeDirectory
           \/ \E r \in Resources :
                 \/ \E recovered \in BOOLEAN : FinishRun(r, recovered)
                 \/ Depend(r)
                 \/ VerifyResource(r)
           \/ \E call \in {"execute", "restore", "purge"}, n \in Batches : Continue(call, n)
    PROVE  Settled' /\ BaseKept'
<1>1. op \in OpType /\ (op.call = "none" => op.at = "none") BY DEF Governed, Typed, OpInv, Idle
<1>2. /\ UNCHANGED <<disk, batches>> /\ later' = later
      /\ \A r \in Directories : reg'[r].state = reg[r].state /\ reg'[r].at = reg[r].at
  <2>1. CASE Tick \/ Preview BY <2>1 DEF Tick, Preview, world
  <2>2. CASE WriteRows \/ \E r \in Resources : Depend(r) \/ \E recovered \in BOOLEAN : FinishRun(r, recovered)
    BY <2>2 DEF WriteRows, Depend, FinishRun, Change, calls
  <2>3. CASE \E r \in Resources : VerifyResource(r)
    <3>1. PICK r \in Resources : VerifyResource(r) BY <2>3
    <3>2. reg' = [reg EXCEPT ![r].verified = clock] BY <3>1 DEF VerifyResource, Govern
    <3>3. \A q \in Resources : reg'[q].state = reg[q].state /\ reg'[q].at = reg[q].at
      BY <3>2 DEF Governed, Typed, RegType
    <3>. QED BY <3>1, <3>3, Kinds DEF VerifyResource, Govern, calls
  <2>4. CASE Reconciled \/ Finish BY <2>4 DEF Reconciled, Finish, world
  <2>5. CASE RestoreReleased \/ PurgePlanned BY <2>5 DEF RestoreReleased, PurgePlanned, Stop, Still, world
  <2>6. CASE MakeDirectory BY <2>6 DEF MakeDirectory, Stop, world
  <2>7. CASE \E call \in {"execute", "restore", "purge"}, n \in Batches : Continue(call, n)
    BY <2>7 DEF Continue, world
  <2>. QED BY <2>1, <2>2, <2>3, <2>4, <2>5, <2>6, <2>7
<1>3. op' = op \/ (op.at \notin {"moved", "unlink"} /\ op'.at \notin {"moved", "unlink"})
  <2>1. CASE Tick \/ Preview BY <2>1 DEF Tick, Preview
  <2>2. CASE WriteRows \/ \E r \in Resources : Depend(r) \/ \E recovered \in BOOLEAN : FinishRun(r, recovered)
    BY <2>2 DEF WriteRows, Depend, FinishRun, Change, calls
  <2>3. CASE \E r \in Resources : VerifyResource(r) BY <2>3 DEF VerifyResource, Govern, calls
  <2>4. CASE Reconciled
    <3>1. op'.at = "item" BY <1>1, <2>4 DEF Reconciled, ToLoop, OpType
    <3>. QED BY <2>4, <3>1 DEF Reconciled
  <2>5. CASE Finish BY <2>5 DEF Finish, Idle
  <2>6. CASE RestoreReleased \/ PurgePlanned BY <2>6 DEF RestoreReleased, PurgePlanned, Stop, Idle, At
  <2>7. CASE MakeDirectory
    <3>1. op.at = "mkdir" BY <2>7 DEF MakeDirectory, At
    <3>2. op'.at \notin {"moved", "unlink"} BY <1>1, <2>7 DEF MakeDirectory, Stop, Idle, Goto, OpType
    <3>. QED BY <3>1, <3>2
  <2>8. CASE \E call \in {"execute", "restore", "purge"}, n \in Batches : Continue(call, n)
    BY SMTT(60), <1>1, <2>8 DEF Continue, Begin, Between
  <2>. QED BY <2>1, <2>2, <2>3, <2>4, <2>5, <2>6, <2>7, <2>8
<1>. QED BY <1>2, <1>3, SettledStays

LEMMA RegisterSettled ==
    ASSUME Governed, Settled, BaseKept, NEW r \in Resources,
           \/ \E pin \in BOOLEAN : RegisterResource(r, pin)
           \/ \E verified \in {Never, clock} : RegisterFlat(r, verified)
    PROVE  Settled' /\ BaseKept'
<1>1. reg \in RegType BY DEF Governed, Typed
<1>2. \A q \in Directories : reg'[q].state = reg[q].state /\ reg'[q].at = reg[q].at
  <2>1. ASSUME NEW pin \in BOOLEAN, RegisterResource(r, pin)
        PROVE  \A q \in Directories : reg'[q].state = reg[q].state /\ reg'[q].at = reg[q].at
    <3>1. reg' = [reg EXCEPT ![r].pinned = pin, ![r].verified = Never,
                             ![r].used = IF r \in Caches THEN clock ELSE @]
      BY <2>1 DEF RegisterResource, Govern
    <3>2. reg' = [reg EXCEPT ![r] = [reg[r] EXCEPT !.pinned = pin, !.verified = Never,
                                              !.used = IF r \in Caches THEN clock ELSE reg[r].used]]
      BY <1>1, <3>1 DEF RegType
    <3>. QED BY <1>1, <3>2, Kinds DEF RegType
  <2>2. ASSUME NEW verified \in {Never, clock}, RegisterFlat(r, verified)
        PROVE  \A q \in Directories : reg'[q].state = reg[q].state /\ reg'[q].at = reg[q].at
    <3>1. r \notin Directories BY <2>2, Kinds DEF RegisterFlat
    <3>2. reg' = [reg EXCEPT ![r].state = "registered", ![r].verified = verified]
      BY <2>2 DEF RegisterFlat, Govern
    <3>3. \A q \in Resources : q # r => reg'[q] = reg[q] BY <1>1, <3>2 DEF RegType
    <3>. QED BY <3>1, <3>3, Kinds
  <2>. QED BY <2>1, <2>2
<1>3. UNCHANGED <<disk, batches, later, op>> BY DEF RegisterResource, RegisterFlat, Govern, calls
<1>. QED BY <1>2, <1>3, SettledStays

LEMMA LeaveRecoveryPointSettled ==
    ASSUME Governed, Settled, BaseKept, NEW r \in Resources, LeaveRecoveryPoint(r) PROVE Settled' /\ BaseKept'
<1>1. /\ r \in Bundles /\ disk' = [disk EXCEPT ![r] = [m \in Members(r) |-> 0]]
      /\ UNCHANGED <<batches, op, reg>> /\ later' = later \ {r}
  BY DEF LeaveRecoveryPoint, Change, calls
<1>2. \A g \in Directories : disk'[g]["tree"] = disk[g]["tree"]
  BY <1>1, Kinds DEF Governed, Typed, DiskTyped
<1>. QED BY <1>1, <1>2, SettledStays

LEMMA DiscoverSettled == ASSUME Governed, Settled, BaseKept, Discover PROVE Settled' /\ BaseKept'
<1>1. /\ op = Idle /\ op' = op /\ UNCHANGED <<disk, batches, later>>
      /\ reg' = [r \in Resources |->
                   IF r \in Directories /\ Unclaimed(r)
                   THEN [Unregistered EXCEPT !.state = "registered",
                             !.used = IF r \in Caches THEN clock ELSE Never]
                   ELSE reg[r]]
  BY DEF Discover, Govern, calls, Between, Governed, OpInv
<1>2. \A r \in Directories :
         \/ reg'[r] = reg[r]
         \/ disk[r]["tree"] = 0 /\ reg[r].state = "none" /\ reg'[r].state = "registered"
  <2>. TAKE r \in Directories
  <2>1. CASE Unclaimed(r) BY <1>1, <2>1, Kinds DEF Unclaimed, Unregistered
  <2>2. CASE ~Unclaimed(r) BY <1>1, <2>2, Kinds
  <2>. QED BY <2>1, <2>2
<1>3. Batches' = Batches BY <1>1 DEF Batches
<1>4. NotYet'
  <2>1. \A q \in later' \cap Directories : disk'[q]["tree"] = Gone /\ reg'[q].state = "none"
    <3>. TAKE q \in later' \cap Directories
    <3>1. disk[q]["tree"] = Gone /\ reg[q].state = "none" BY <1>1 DEF Settled, NotYet
    <3>2. disk[q]["tree"] # 0 BY <3>1 DEF Gone
    <3>3. reg'[q] = reg[q] BY <1>2, <3>2
    <3>. QED BY <1>1, <3>1, <3>3
  <2>2. \A k \in Batches' : \A q \in DOMAIN batches'[k].items \cap Directories : q \notin later'
    BY <1>1, <1>3 DEF Settled, NotYet
  <2>. QED BY <2>1, <2>2 DEF NotYet
<1>5. OwnTree' /\ OneRelease' BY <1>1, <1>3 DEF Settled, OwnTree, OneRelease, Item
<1>6. Releasing' BY <1>1 DEF Releasing, Idle
<1>7. InPlace' BY ZenonT(60), <1>1, <1>2 DEF Settled, InPlace, Pending, Idle
<1>8. BaseKept'
  <2>1. (RunThere' <=> RunThere) /\ (CacheThere' <=> CacheThere) BY <1>1 DEF RunThere, CacheThere
  <2>. QED BY <2>1, BaseMeans, BaseMeansAfter
<1>. QED BY <1>4, <1>5, <1>6, <1>7, <1>8 DEF Settled

\* A run is prepared where the cache is, a cache is built where none is.
LEMMA BuiltSettled ==
    ASSUME Governed, Settled, BaseKept, NEW r \in later \cap Directories, op = Idle, UNCHANGED <<batches, reg, op>>,
           later' = later \ {r}, Move(r, "tree", 0), CacheThere \/ r \in Caches \/ Caches = {}
    PROVE  Settled' /\ BaseKept'
<1>1. \A d \in Directories : disk'[d]["tree"] = IF d = r THEN 0 ELSE disk[d]["tree"]
  <2>1. r \in Resources BY Kinds
  <2>2. \A q \in Resources : \A k \in Members(q) : disk'[q][k] = IF q = r /\ k = "tree" THEN 0 ELSE disk[q][k]
    BY <2>1, MovedTyped
  <2>. QED BY <2>2, Kinds
<1>2. disk[r]["tree"] = Gone /\ reg[r].state = "none" BY DEF Settled, NotYet
<1>3. Batches' = Batches BY DEF Batches
<1>4. NotYet'
  <2>1. \A q \in later' \cap Directories : disk'[q]["tree"] = Gone /\ reg'[q].state = "none"
    BY <1>1 DEF Settled, NotYet
  <2>2. \A k \in Batches' : \A q \in DOMAIN batches'[k].items \cap Directories : q \notin later'
    BY <1>3 DEF Settled, NotYet
  <2>. QED BY <2>1, <2>2 DEF NotYet
<1>5. OwnTree' /\ OneRelease' BY <1>3 DEF Settled, OwnTree, OneRelease, Item
<1>6. Releasing' BY DEF Releasing, Idle
<1>7. InPlace'
  <2>. SUFFICES ASSUME NEW q \in Directories
                PROVE  /\ reg[q].state = "registered" => disk'[q]["tree"] = 0
                       /\ reg[q].state = "quarantined" => reg[q].at = disk'[q]["tree"]
                       /\ disk'[q]["tree"] > 0 <=> reg[q].state = "quarantined"
    BY DEF InPlace
  <2>1. CASE q = r BY <1>1, <1>2, <2>1
  <2>2. CASE q # r
    <3>1. ~Pending(q) BY DEF Pending, Idle
    <3>. QED BY <1>1, <2>2, <3>1 DEF Settled, InPlace
  <2>. QED BY <2>1, <2>2
<1>8. BaseKept'
  <2>1. CASE r \in Caches
    <3>1. CacheThere' BY <1>1, <2>1, Kinds DEF CacheThere
    <3>. QED BY <3>1, BaseMeansAfter
  <2>2. CASE CacheThere
    <3>1. CacheThere' BY <1>1, <2>2, Kinds DEF CacheThere
    <3>. QED BY <3>1, BaseMeansAfter
  <2>3. CASE Caches = {} BY <2>3, BaseMeansAfter
  <2>. QED BY <2>1, <2>2, <2>3
<1>. QED BY <1>4, <1>5, <1>6, <1>7, <1>8 DEF Settled

LEMMA StartRunSettled ==
    ASSUME Governed, Settled, BaseKept, NEW r \in Resources, StartRun(r) PROVE Settled' /\ BaseKept'
<1>1. /\ r \in later \cap Directories /\ op = Idle /\ UNCHANGED <<batches, reg, op>> /\ later' = later \ {r}
      /\ Move(r, "tree", 0)
  BY DEF StartRun, Change, calls, Move, Between, Governed, OpInv, Directories
<1>2. CacheThere \/ Caches = {} BY DEF StartRun, CacheThere
<1>. QED BY <1>1, <1>2, BuiltSettled

LEMMA BuildCacheSettled ==
    ASSUME Governed, Settled, BaseKept, NEW r \in Resources, BuildCache(r) PROVE Settled' /\ BaseKept'
<1>1. /\ r \in later \cap Directories /\ op = Idle /\ UNCHANGED <<batches, reg, op>> /\ later' = later \ {r}
      /\ Move(r, "tree", 0) /\ r \in Caches
  BY Kinds DEF BuildCache, Change, calls, Move, Between, Governed, OpInv
<1>. QED BY <1>1, BuiltSettled

LEMMA ExecuteSettled ==
    ASSUME Governed, Answered, Settled, BaseKept, NEW plan \in plans, Execute(plan) PROVE Settled' /\ BaseKept'
<1>. DEFINE new == Len(batches')
<1>1. /\ Started(plan) /\ plan.items = Executable(plan.asOf) /\ plan.items \subseteq Resources
      /\ op' = [call |-> "execute", n |-> new, at |-> "reconcile", todo |-> plan.items]
  BY ExecuteStarts
<1>2. UNCHANGED <<disk, reg, later>> BY DEF Execute, world
<1>3. op = Idle BY DEF Execute, Between, Governed, OpInv
<1>4. /\ Batches' = Batches \cup {new} /\ new \notin Batches
      /\ \A n \in Batches : batches'[n] = batches[n]
      /\ batches'[new].items = Fresh(plan.items)
  BY <1>1 DEF Started
<1>5. \A r \in plan.items \cap Directories : First(TreesAt(r, 0)) = r /\ r \notin later
  <2>. TAKE r \in plan.items \cap Directories
  <2>1. reg[r].state = "registered" /\ First(TreesAt(r, 0)) \in TreesAt(r, 0) BY <1>1, TreeTaken
  <2>2. disk[r]["tree"] = 0 BY <1>3, <2>1 DEF Settled, InPlace, Pending, Idle
  <2>3. \A d \in TreesAt(r, 0) : d = r
    <3>1. CASE r \in Caches BY <2>2, <3>1 DEF TreesAt, SamePath, Answered, OneTree
    <3>2. CASE r \notin Caches BY <3>2 DEF TreesAt, SamePath
    <3>. QED BY <3>1, <3>2
  <2>4. r \notin later BY <2>1 DEF Settled, NotYet
  <2>. QED BY <2>1, <2>3, <2>4
<1>6. /\ DOMAIN batches'[new].items = plan.items
      /\ \A r \in plan.items : /\ r \in Directories => batches'[new].items[r].tree = r
                              /\ batches'[new].items[r].state = "planned"
  <2>1. /\ DOMAIN Fresh(plan.items) = plan.items
        /\ \A r \in plan.items : /\ r \in Directories => Fresh(plan.items)[r].tree = First(TreesAt(r, 0))
                                /\ Fresh(plan.items)[r].state = "planned"
    BY DEF Fresh
  <2>. QED BY <1>4, <1>5, <2>1
<1>7. NotYet'
  <2>1. \A q \in later' \cap Directories : disk'[q]["tree"] = Gone /\ reg'[q].state = "none"
    BY <1>2 DEF Settled, NotYet
  <2>2. \A k \in Batches' : \A q \in DOMAIN batches'[k].items \cap Directories : q \notin later'
    BY <1>2, <1>4, <1>5, <1>6 DEF Settled, NotYet
  <2>. QED BY <2>1, <2>2 DEF NotYet
<1>8. OwnTree'
  <2>. SUFFICES ASSUME NEW k \in Batches \cup {new}, NEW q \in DOMAIN batches'[k].items \cap Directories
                PROVE  batches'[k].items[q].tree = q
    BY <1>4 DEF OwnTree, Item
  <2>. QED BY <1>4, <1>6 DEF Settled, OwnTree, Item
<1>9. OneRelease'
  <2>. SUFFICES ASSUME NEW k \in Batches \cup {new}, NEW q \in DOMAIN batches'[k].items
                PROVE  batches'[k].items[q].state # "purging"
    BY <1>4 DEF OneRelease, Item
  <2>. QED BY <1>3, <1>4, <1>6 DEF Settled, OneRelease, Item, Idle
<1>10. Releasing' BY <1>1 DEF Releasing
<1>11. InPlace' BY <1>1, <1>2, <1>3 DEF Settled, InPlace, Pending, Idle
<1>12. BaseKept'
  <2>1. (RunThere' <=> RunThere) /\ (CacheThere' <=> CacheThere) BY <1>2 DEF RunThere, CacheThere
  <2>. QED BY <2>1, BaseMeans, BaseMeansAfter
<1>. QED BY <1>7, <1>8, <1>9, <1>10, <1>11, <1>12 DEF Settled

\* The journal of a batch notes something of an item that it keeps in its state.
LEMMA NotedSettled ==
    ASSUME Governed, Settled, BaseKept, UNCHANGED <<disk, reg, later>>, op.call # "none", op.todo # {},
           op.at \notin {"moved", "unlink"}, op'.at \notin {"moved", "unlink"},
           NEW item \in ItemType, Save(op.n, First(op.todo), item),
           item.tree = Item(op.n, First(op.todo)).tree, item.state # "purging"
    PROVE  Settled' /\ BaseKept'
<1>. DEFINE n == op.n
            r == First(op.todo)
<1>1. n \in Batches /\ r \in DOMAIN batches[n].items BY AtHand
<1>2. Keeps(n, r, item) BY <1>1, Saved DEF Governed
<1>3. /\ Batches' = Batches
      /\ \A k \in Batches :
            /\ DOMAIN batches'[k].items = DOMAIN batches[k].items
            /\ \A q \in DOMAIN batches[k].items :
                  batches'[k].items[q] = IF k = n /\ q = r THEN item ELSE Item(k, q)
  BY <1>2 DEF Keeps
<1>4. NotYet'
  <2>1. \A q \in later' \cap Directories : disk'[q]["tree"] = Gone /\ reg'[q].state = "none"
    BY DEF Settled, NotYet
  <2>2. \A k \in Batches' : \A q \in DOMAIN batches'[k].items \cap Directories : q \notin later'
    BY <1>3 DEF Settled, NotYet
  <2>. QED BY <2>1, <2>2 DEF NotYet
<1>5. OwnTree'
  <2>. SUFFICES ASSUME NEW k \in Batches, NEW q \in DOMAIN batches[k].items \cap Directories
                PROVE  batches'[k].items[q].tree = q
    BY <1>3 DEF OwnTree, Item
  <2>1. Item(k, q).tree = q BY DEF Settled, OwnTree
  <2>. QED BY <1>3, <2>1
<1>6. OneRelease'
  <2>. SUFFICES ASSUME NEW k \in Batches, NEW q \in DOMAIN batches[k].items
                PROVE  batches'[k].items[q].state # "purging"
    BY <1>3 DEF OneRelease, Item
  <2>1. Item(k, q).state # "purging" BY DEF Settled, OneRelease
  <2>. QED BY <1>3, <2>1
<1>7. Releasing' BY DEF Releasing
<1>8. InPlace' BY DEF Settled, InPlace, Pending
<1>9. BaseKept'
  <2>1. (RunThere' <=> RunThere) /\ (CacheThere' <=> CacheThere) BY DEF RunThere, CacheThere
  <2>. QED BY <2>1, BaseMeans, BaseMeansAfter
<1>. QED BY <1>4, <1>5, <1>6, <1>7, <1>8, <1>9 DEF Settled

LEMMA ReconcileSettled == ASSUME Governed, Answered, Settled, BaseKept, Reconcile PROVE Settled' /\ BaseKept'
<1>. DEFINE n == op.n
            r == First(op.todo)
<1>1. /\ op.call # "none" /\ op.at = "reconcile" /\ op.todo # {} /\ Still
      /\ \/ Stop
         \/ Skip
         \/ Row("quarantined") /\ SameTree(n, r, n)
         \/ Row("restored") /\ SameTree(n, r, 0)
  BY ReconcileEnds
<1>2. n \in Batches /\ r \in DOMAIN batches[n].items BY <1>1, AtHand
<1>3. CASE Stop BY <1>1, <1>3, SettledStop DEF Still, world
<1>4. CASE Skip
  <2>1. op \in OpType BY DEF Governed, Typed
  <2>2. op'.at = op.at BY <1>4, <2>1 DEF Skip, OpType
  <2>. QED BY <1>1, <1>4, <2>2, SettledStays DEF Skip, Still, world
<1>5. CASE Row("quarantined") /\ SameTree(n, r, n)
  <2>1. r \in Directories => Arrived(r, "quarantined", n) BY <1>2, <1>5, OwnPlace DEF Arrived
  <2>. QED BY <1>1, <1>5, <2>1, SettledRow
<1>6. CASE Row("restored") /\ SameTree(n, r, 0)
  <2>1. r \in Directories => Arrived(r, "restored", n) BY <1>2, <1>6, OwnPlace DEF Arrived
  <2>. QED BY <1>1, <1>6, <2>1, SettledRow
<1>. QED BY <1>1, <1>3, <1>4, <1>5, <1>6

LEMMA GuardBundleSettled == ASSUME Governed, Settled, BaseKept, GuardBundle PROVE Settled' /\ BaseKept'
<1>. DEFINE n == op.n
            r == First(op.todo)
            item == [Item(n, r) EXCEPT !.guard = Evidence(r)]
<1>1. At("execute", "item", Bundles) /\ UNCHANGED <<disk, later>> BY DEF GuardBundle, Still, world
<1>2. op.call = "execute" /\ op.at = "item" /\ op.todo # {} /\ r \in Resources /\ Item(n, r) \in ItemType
  BY <1>1, AtGives
<1>3. \/ Stop
      \/ Goto("mkdir") /\ UNCHANGED <<reg, src, batches>>
      \/ Save(n, r, item) /\ Goto("mkdir") /\ UNCHANGED <<reg, src>>
  BY DEF GuardBundle
<1>4. item \in ItemType /\ item.tree = Item(n, r).tree /\ item.state # "purging"
  <2>1. Evidence(r) \in EvidenceType BY <1>2, EvidenceTyped DEF Governed
  <2>2. Item(n, r).state = "planned" BY <1>2, AtHand DEF ToHandle
  <2>. QED BY <1>2, <2>1, <2>2 DEF ItemType
<1>5. CASE Stop BY <1>1, <1>2, <1>5, SettledStop
<1>6. CASE Goto("mkdir") /\ UNCHANGED <<reg, src, batches>>
  <2>1. op'.at = "mkdir" BY <1>6, GoneTo
  <2>. QED BY <1>1, <1>2, <1>6, <2>1, SettledStays
<1>7. CASE Save(n, r, item) /\ Goto("mkdir") /\ UNCHANGED <<reg, src>>
  <2>1. op'.at = "mkdir" BY <1>7, GoneTo
  <2>. HIDE DEF item
  <2>. QED BY <1>1, <1>2, <1>4, <1>7, <2>1, NotedSettled
<1>. QED BY <1>3, <1>5, <1>6, <1>7

LEMMA SaveDirectorySettled == ASSUME Governed, Settled, BaseKept, SaveDirectory PROVE Settled' /\ BaseKept'
<1>. DEFINE n == op.n
            r == First(op.todo)
            item == [Item(n, r) EXCEPT !.dir = TRUE]
<1>1. At("execute", "identity", Bundles) /\ UNCHANGED <<disk, later, reg>> BY DEF SaveDirectory, Still, world
<1>2. op.call = "execute" /\ op.at = "identity" /\ op.todo # {} /\ r \in Resources /\ Item(n, r) \in ItemType
  BY <1>1, AtGives
<1>3. Save(n, r, item) /\ Goto("move") BY DEF SaveDirectory
<1>4. item \in ItemType /\ item.tree = Item(n, r).tree /\ item.state # "purging"
  <2>1. Item(n, r).state = "planned" BY <1>2, AtHand DEF ToHandle
  <2>. QED BY <1>2, <2>1 DEF ItemType
<1>5. op'.at = "move" BY <1>3, GoneTo
<1>. HIDE DEF item
<1>. QED BY <1>1, <1>2, <1>3, <1>4, <1>5, NotedSettled

\* A member of a bundle is moved.
LEMMA MemberSettled ==
    ASSUME Governed, Settled, BaseKept, UNCHANGED <<batches, reg, later, op>>, NEW b \in Bundles, NEW m,
           NEW to \in {Gone, 0, op.n}, Move(b, m, to)
    PROVE  Settled' /\ BaseKept'
<1>. b \in Resources BY Kinds
<1>1. \A q \in Resources : \A k \in Members(q) : disk'[q][k] = IF q = b /\ k = m THEN to ELSE disk[q][k]
  BY MovedTyped
<1>2. \A g \in Directories : disk'[g]["tree"] = disk[g]["tree"] BY <1>1, Kinds
<1>. QED BY <1>2, SettledStays

LEMMA MoveMemberSettled == ASSUME Governed, Answered, Settled, BaseKept, MoveMember PROVE Settled' /\ BaseKept'
<1>. DEFINE n == op.n
            r == First(op.todo)
<1>1. At("execute", "move", Bundles) /\ UNCHANGED <<world, holders, plans, spent>> BY DEF MoveMember
<1>2. op.call = "execute" /\ op.at = "move" /\ op.todo # {} /\ r \in Bundles BY <1>1, AtGives
<1>3. \/ Stop /\ UNCHANGED disk
      \/ Transition(n, r, "quarantined") /\ NextItem /\ UNCHANGED disk
      \/ Move(r, NextMember(r, 0), n) /\ UNCHANGED <<reg, src, batches, op>>
  BY DEF MoveMember
<1>4. CASE Stop /\ UNCHANGED disk BY <1>1, <1>2, <1>4, SettledStop DEF world
<1>5. CASE Transition(n, r, "quarantined") /\ NextItem /\ UNCHANGED disk
  <2>1. Row("quarantined") BY <1>1, <1>2, <1>5, NextRow DEF Still
  <2>2. r \notin Directories BY <1>2, Kinds
  <2>. QED BY <1>2, <2>1, <2>2, SettledRow
<1>6. CASE Move(r, NextMember(r, 0), n) /\ UNCHANGED <<reg, src, batches, op>>
  BY <1>1, <1>2, <1>6, MemberSettled DEF world
<1>. QED BY <1>3, <1>4, <1>5, <1>6

LEMMA RestoreMemberSettled == ASSUME Governed, Answered, Settled, BaseKept, RestoreMember PROVE Settled' /\ BaseKept'
<1>. DEFINE n == op.n
            r == First(op.todo)
<1>1. At("restore", "item", Restorable \cap Bundles) /\ UNCHANGED <<world, holders, plans, spent>>
  BY DEF RestoreMember
<1>2. op.call = "restore" /\ op.at = "item" /\ op.todo # {} /\ r \in Bundles BY <1>1, AtGives
<1>3. \/ Stop /\ UNCHANGED disk
      \/ Transition(n, r, "restored") /\ NextItem /\ UNCHANGED disk
      \/ Move(r, NextMember(r, n), 0) /\ UNCHANGED <<reg, src, batches, op>>
  BY DEF RestoreMember
<1>4. CASE Stop /\ UNCHANGED disk BY <1>1, <1>2, <1>4, SettledStop DEF world
<1>5. CASE Transition(n, r, "restored") /\ NextItem /\ UNCHANGED disk
  <2>1. Row("restored") BY <1>1, <1>2, <1>5, NextRow DEF Still
  <2>2. r \notin Directories BY <1>2, Kinds
  <2>. QED BY <1>2, <2>1, <2>2, SettledRow
<1>6. CASE Move(r, NextMember(r, n), 0) /\ UNCHANGED <<reg, src, batches, op>>
  BY <1>1, <1>2, <1>6, MemberSettled DEF world
<1>. QED BY <1>3, <1>4, <1>5, <1>6

\* A cache that may be evicted is the only one at the path, and no run is left.
LEMMA NoRunLeft ==
    ASSUME Governed, Answered, Settled, op.at = "item", NEW r \in Caches, disk[r]["tree"] = 0, Eligible(r)
    PROVE  ~RunThere
<1>1. \A q \in Directories : /\ reg[q].state = "registered" => disk[q]["tree"] = 0 /\ reg[q].at = 0
                             /\ reg[q].state = "quarantined" => reg[q].at = disk[q]["tree"]
                             /\ disk[q]["tree"] > 0 <=> reg[q].state = "quarantined"
  BY Kinds DEF Settled, InPlace, Pending, Governed, RegisteredAtPath
<1>2. \A c \in Base : disk[c]["tree"] = 0 /\ c \in Caches
  <2>. TAKE c \in Base
  <2>1. c \in Caches /\ c \in Directories /\ Registered(c) /\ reg[c].at = 0 BY Kinds DEF Base
  <2>. QED BY <1>1, <2>1 DEF Registered
<1>3. Registered(r) /\ ~InUse(r) BY DEF Eligible, Candidate, Valid, Evicted, Evictable
<1>4. r \in Base
  <2>1. r \in Directories BY Kinds
  <2>2. reg[r].at = 0 BY <1>1, <1>3, <2>1 DEF Registered
  <2>. QED BY <1>3, <2>2 DEF Base
<1>5. Base = {r}
  <2>1. \A c \in Base : c = r BY <1>2 DEF Answered, OneTree
  <2>. QED BY <1>4, <2>1
<1>6. First(Base) = r
  <2>1. Base \subseteq Resources /\ Base # {} BY <1>4, Kinds DEF Base
  <2>2. First(Base) \in Base BY <2>1, FirstIn
  <2>. QED BY <1>5, <2>2
<1>7. \A q \in Runs : ~(Registered(q) /\ Whole(q)) BY <1>3, <1>4, <1>6 DEF InUse
<1>8. ASSUME NEW q \in Runs, disk[q]["tree"] # Gone PROVE Registered(q) /\ Whole(q)
  <2>1. q \in Directories /\ q \in Resources /\ q \notin Caches /\ q \notin Bundles
    BY Kinds DEF Directories
  <2>2. SamePath(q) = {q} BY <2>1 DEF SamePath
  <2>3. disk[q]["tree"] = 0 \/ disk[q]["tree"] > 0
    <3>1. disk[q]["tree"] \in Gone..MaxBatches
      BY <2>1, Kinds DEF Governed, Typed, DiskTyped, Locations
    <3>2. MaxBatches \in Nat BY ConstantsAssumption
    <3>. QED BY <1>8, <3>1, <3>2 DEF Gone
  <2>4. CASE disk[q]["tree"] = 0
    <3>1. <<"path", q>> \notin Blockers BY DEF Eligible
    <3>2. \E o \in SamePath(q) : Registered(o) /\ reg[o].at = 0
      BY <2>1, <2>4, <3>1 DEF Blockers
    <3>3. Registered(q) /\ reg[q].at = 0 BY <2>2, <3>2
    <3>4. q \in TreesAt(q, reg[q].at) BY <2>2, <2>4, <3>3 DEF TreesAt
    <3>. QED BY <2>1, <3>3, <3>4 DEF Whole
  <2>5. CASE disk[q]["tree"] > 0
    <3>1. reg[q].state = "quarantined" /\ reg[q].at = disk[q]["tree"] BY <1>1, <2>1, <2>5
    <3>2. q \in TreesAt(q, reg[q].at) BY <2>2, <3>1 DEF TreesAt
    <3>. QED BY <2>1, <3>1, <3>2 DEF Whole, Registered
  <2>. QED BY <2>3, <2>4, <2>5
<1>. QED BY <1>7, <1>8 DEF RunThere

\* Where the trees are after one has been moved.
LEMMA TreesAfter ==
    ASSUME Governed, NEW r \in Directories, NEW to \in {Gone, 0, op.n}, Move(r, "tree", to)
    PROVE  \A d \in Directories : disk'[d]["tree"] = IF d = r THEN to ELSE disk[d]["tree"]
<1>1. r \in Resources BY Kinds
<1>2. \A q \in Resources : \A k \in Members(q) : disk'[q][k] = IF q = r /\ k = "tree" THEN to ELSE disk[q][k]
  BY <1>1, MovedTyped
<1>. QED BY <1>2, Kinds

\* A rename of a tree that was somewhere brings no run back.
LEMMA NoRunBack ==
    ASSUME Governed, NEW r \in Directories, NEW to \in {Gone, 0, op.n}, Move(r, "tree", to), disk[r]["tree"] # Gone
    PROVE  RunThere' => RunThere
<1>1. \A d \in Directories : disk'[d]["tree"] = IF d = r THEN to ELSE disk[d]["tree"] BY TreesAfter
<1>2. Runs \subseteq Directories BY DEF Directories
<1>. QED BY <1>1, <1>2 DEF RunThere

LEMMA MoveDirectorySettled ==
    ASSUME Governed, Answered, Settled, BaseKept, MoveDirectory PROVE Settled' /\ BaseKept'
<1>. DEFINE n == op.n
            r == First(op.todo)
<1>1. At("execute", "item", Directories) /\ UNCHANGED <<world, plans, spent>> BY DEF MoveDirectory
<1>2. /\ op.call = "execute" /\ op.at = "item" /\ op.todo # {} /\ r \in Directories /\ n \in Batches
      /\ r \in DOMAIN batches[n].items
  BY <1>1, AtGives
<1>3. \/ /\ Eligible(r) /\ SameTree(n, r, 0) /\ Move(Item(n, r).tree, "tree", n) /\ Goto("moved")
         /\ UNCHANGED <<reg, src, batches>>
      \/ Stop /\ UNCHANGED disk
  BY DEF MoveDirectory
<1>4. CASE Stop /\ UNCHANGED disk BY <1>1, <1>2, <1>4, SettledStop DEF world
<1>5. CASE /\ Eligible(r) /\ SameTree(n, r, 0) /\ Move(Item(n, r).tree, "tree", n) /\ Goto("moved")
           /\ UNCHANGED <<reg, src, batches>>
  <2>1. disk[r]["tree"] = 0 /\ Item(n, r).tree = r BY <1>2, <1>5, OwnPlace
  <2>2. Move(r, "tree", n) /\ disk[r]["tree"] # Gone BY <1>5, <2>1 DEF Gone
  <2>3. RunThere' => RunThere BY <1>2, <2>2, NoRunBack
  <2>4. RunThere' /\ Caches # {} => CacheThere'
    <3>1. CASE r \in Caches BY <1>2, <1>5, <2>1, <2>3, <3>1, NoRunLeft
    <3>2. CASE r \notin Caches
      <4>1. \A d \in Directories : disk'[d]["tree"] = IF d = r THEN n ELSE disk[d]["tree"]
        BY <1>2, <2>2, TreesAfter
      <4>2. CacheThere => CacheThere' BY <3>2, <4>1, Kinds DEF CacheThere
      <4>. QED BY <2>3, <4>2, BaseMeans
    <3>. QED BY <3>1, <3>2
  <2>5. op'.at = "moved" /\ op'.n = n /\ op'.todo = op.todo BY <1>5, GoneTo
  <2>. QED BY <1>1, <1>2, <1>5, <2>2, <2>4, <2>5, SettledMoved DEF world
<1>. QED BY <1>3, <1>4, <1>5

LEMMA DirectoryMovedSettled ==
    ASSUME Governed, Answered, Settled, BaseKept, DirectoryMoved PROVE Settled' /\ BaseKept'
<1>1. /\ op.call = "execute" /\ op.at = "moved" /\ op.todo # {} /\ First(op.todo) \in Directories
      /\ op.n \in Batches /\ First(op.todo) \in DOMAIN batches[op.n].items
  BY AtGives DEF DirectoryMoved
<1>2. Row("quarantined") BY <1>1, NextRow DEF DirectoryMoved
<1>3. Item(op.n, First(op.todo)).tree = First(op.todo) BY <1>1 DEF Settled, OwnTree
<1>4. Arrived(First(op.todo), "quarantined", op.n) BY <1>1, <1>3 DEF Arrived, Answered, MovedWhole
<1>. QED BY <1>1, <1>2, <1>4, SettledRow

LEMMA RestorePlannedSettled ==
    ASSUME Governed, Answered, Settled, BaseKept, RestorePlanned PROVE Settled' /\ BaseKept'
<1>. DEFINE n == op.n
            r == First(op.todo)
<1>1. At("restore", "item", Unfinished(op.n, {"planned"}) \cap Directories) /\ Still BY DEF RestorePlanned
<1>2. /\ op.call = "restore" /\ op.at = "item" /\ op.todo # {} /\ r \in Directories /\ n \in Batches
      /\ r \in DOMAIN batches[n].items
  BY <1>1, AtGives
<1>3. \/ SameTree(n, r, 0) /\ Transition(n, r, "restored") /\ NextItem
      \/ Stop
  BY DEF RestorePlanned
<1>4. CASE Stop BY <1>1, <1>2, <1>4, SettledStop DEF Still, world
<1>5. CASE SameTree(n, r, 0) /\ Transition(n, r, "restored") /\ NextItem
  <2>1. Row("restored") BY <1>1, <1>2, <1>5, NextRow
  <2>2. Arrived(r, "restored", n) BY <1>2, <1>5, OwnPlace DEF Arrived
  <2>. QED BY <1>2, <2>1, <2>2, SettledRow
<1>. QED BY <1>3, <1>4, <1>5

LEMMA RestoreDirectorySettled ==
    ASSUME Governed, Answered, Settled, BaseKept, RestoreDirectory PROVE Settled' /\ BaseKept'
<1>. DEFINE n == op.n
            r == First(op.todo)
<1>1. /\ At("restore", "item", Unfinished(op.n, {"quarantined"}) \cap Directories)
      /\ UNCHANGED <<world, plans, spent>>
  BY DEF RestoreDirectory
<1>2. /\ op.call = "restore" /\ op.at = "item" /\ op.todo # {} /\ r \in Directories /\ n \in Batches
      /\ r \in DOMAIN batches[n].items /\ n \in 1..MaxBatches
  BY <1>1, AtGives
<1>3. \/ /\ SameTree(n, r, n) /\ Move(Item(n, r).tree, "tree", 0) /\ Goto("moved")
         /\ UNCHANGED <<reg, src, batches>>
      \/ Stop /\ UNCHANGED disk
  BY DEF RestoreDirectory
<1>4. CASE Stop /\ UNCHANGED disk BY <1>1, <1>2, <1>4, SettledStop DEF world
<1>5. CASE /\ SameTree(n, r, n) /\ Move(Item(n, r).tree, "tree", 0) /\ Goto("moved")
           /\ UNCHANGED <<reg, src, batches>>
  <2>1. disk[r]["tree"] = n /\ Item(n, r).tree = r BY <1>2, <1>5, OwnPlace
  <2>2. Move(r, "tree", 0) /\ disk[r]["tree"] # Gone BY <1>2, <1>5, <2>1 DEF Gone
  <2>3. RunThere' => RunThere BY <1>2, <2>2, NoRunBack
  <2>4. \A d \in Directories : disk'[d]["tree"] = IF d = r THEN 0 ELSE disk[d]["tree"]
    BY <1>2, <2>2, TreesAfter
  <2>5. CacheThere => CacheThere' BY <2>4, Kinds DEF CacheThere
  <2>6. RunThere' /\ Caches # {} => CacheThere' BY <2>3, <2>5, BaseMeans
  <2>7. op'.at = "moved" /\ op'.n = n /\ op'.todo = op.todo BY <1>5, GoneTo
  <2>. QED BY <1>1, <1>2, <1>5, <2>2, <2>6, <2>7, SettledMoved DEF world
<1>. QED BY <1>3, <1>4, <1>5

LEMMA DirectoryRestoredSettled ==
    ASSUME Governed, Answered, Settled, BaseKept, DirectoryRestored PROVE Settled' /\ BaseKept'
<1>1. /\ op.call = "restore" /\ op.at = "moved" /\ op.todo # {} /\ First(op.todo) \in Directories
      /\ op.n \in Batches /\ First(op.todo) \in DOMAIN batches[op.n].items
  BY AtGives DEF DirectoryRestored
<1>2. Row("restored") BY <1>1, NextRow DEF DirectoryRestored
<1>3. Item(op.n, First(op.todo)).tree = First(op.todo) BY <1>1 DEF Settled, OwnTree
<1>4. Arrived(First(op.todo), "restored", op.n) BY <1>1, <1>3 DEF Arrived, Answered, MovedWhole
<1>. QED BY <1>1, <1>2, <1>4, SettledRow

LEMMA StartPurgeSettled ==
    ASSUME Governed, Answered, Settled, BaseKept, StartPurge PROVE Settled' /\ BaseKept'
<1>. DEFINE n == op.n
            r == First(op.todo)
            item == [Item(n, r) EXCEPT !.state = "purging", !.purgeGuard = Evidence(r)]
<1>1. At("purge", "item", Unfinished(op.n, {"quarantined"})) /\ UNCHANGED <<disk, later>>
  BY DEF StartPurge, Still, world
<1>2. /\ op.call = "purge" /\ op.at = "item" /\ op.todo # {} /\ r \in Resources /\ Item(n, r) \in ItemType
      /\ n \in Batches /\ r \in DOMAIN batches[n].items
  BY <1>1, AtGives
<1>3. \/ Save(n, r, item) /\ Goto("unlink") /\ UNCHANGED <<reg, src>> /\ SameTree(n, r, n)
      \/ Stop
  BY DEF StartPurge
<1>4. item \in ItemType /\ item.tree = Item(n, r).tree
  <2>1. Evidence(r) \in EvidenceType BY <1>2, EvidenceTyped DEF Governed
  <2>. QED BY <1>2, <2>1 DEF ItemType, ItemStates
<1>. HIDE DEF item
<1>5. CASE Stop BY <1>1, <1>2, <1>5, SettledStop
<1>6. CASE Save(n, r, item) /\ Goto("unlink") /\ UNCHANGED <<reg, src>> /\ SameTree(n, r, n)
  <2>1. op'.at = "unlink" /\ op'.n = n /\ op'.todo = op.todo BY <1>6, GoneTo
  <2>2. /\ Batches' = Batches
        /\ \A k \in Batches :
              /\ DOMAIN batches'[k].items = DOMAIN batches[k].items
              /\ \A q \in DOMAIN batches[k].items :
                    batches'[k].items[q] = IF k = n /\ q = r THEN item ELSE Item(k, q)
    BY <1>2, <1>4, <1>6, Saved DEF Keeps, Governed
  <2>3. NotYet'
    <3>1. \A q \in later' \cap Directories : disk'[q]["tree"] = Gone /\ reg'[q].state = "none"
      BY <1>1, <1>6 DEF Settled, NotYet
    <3>2. \A k \in Batches' : \A q \in DOMAIN batches'[k].items \cap Directories : q \notin later'
      BY <1>1, <2>2 DEF Settled, NotYet
    <3>. QED BY <3>1, <3>2 DEF NotYet
  <2>4. OwnTree'
    <3>. SUFFICES ASSUME NEW k \in Batches, NEW q \in DOMAIN batches[k].items \cap Directories
                  PROVE  batches'[k].items[q].tree = q
      BY <2>2 DEF OwnTree, Item
    <3>1. Item(k, q).tree = q BY DEF Settled, OwnTree
    <3>. QED BY <1>4, <2>2, <3>1
  <2>5. OneRelease'
    <3>. SUFFICES ASSUME NEW k \in Batches, NEW q \in DOMAIN batches[k].items,
                         batches'[k].items[q].state = "purging"
                  PROVE  k = n /\ q = r
      BY <2>1, <2>2 DEF OneRelease, Item
    <3>1. Item(k, q).state # "purging" BY <1>2 DEF Settled, OneRelease
    <3>. QED BY <2>2, <3>1
  <2>6. Releasing'
    <3>1. r \in Directories => disk[r]["tree"] = n BY <1>2, <1>6, OwnPlace
    <3>. QED BY <1>1, <2>1, <3>1 DEF Releasing
  <2>7. InPlace'
    <3>. SUFFICES ASSUME NEW q \in Directories
                  PROVE  /\ reg[q].state = "registered" => disk[q]["tree"] = 0
                         /\ reg[q].state = "quarantined" => reg[q].at = disk[q]["tree"]
                         /\ disk[q]["tree"] > 0 <=> reg[q].state = "quarantined"
      BY <1>1, <1>6 DEF InPlace
    <3>1. ~Pending(q) BY <1>2 DEF Pending
    <3>. QED BY <3>1 DEF Settled, InPlace
  <2>8. BaseKept'
    <3>1. (RunThere' <=> RunThere) /\ (CacheThere' <=> CacheThere) BY <1>1 DEF RunThere, CacheThere
    <3>. QED BY <3>1, BaseMeans, BaseMeansAfter
  <2>. QED BY <2>3, <2>4, <2>5, <2>6, <2>7, <2>8 DEF Settled
<1>. QED BY <1>3, <1>5, <1>6

\* Only a release that was interrupted is resumed.
LEMMA NoneResumed == ASSUME Governed, Settled PROVE ~ResumePurge
<1>. SUFFICES ASSUME ResumePurge PROVE FALSE
  OBVIOUS
<1>1. At("purge", "item", Unfinished(op.n, {"purging"})) BY DEF ResumePurge
<1>2. /\ op.at = "item" /\ op.n \in Batches /\ First(op.todo) \in DOMAIN batches[op.n].items
      /\ First(op.todo) \in Unfinished(op.n, {"purging"})
  BY <1>1, AtGives
<1>3. Item(op.n, First(op.todo)).state = "purging" BY <1>2 DEF Unfinished
<1>. QED BY <1>2, <1>3 DEF Settled, OneRelease

LEMMA UnlinkSettled == ASSUME Governed, Answered, Settled, BaseKept, Unlink PROVE Settled' /\ BaseKept'
<1>. DEFINE n == op.n
            r == First(op.todo)
<1>1. At("purge", "unlink", Resources) /\ UNCHANGED <<world, plans, spent>> BY DEF Unlink
<1>2. /\ op.call # "none" /\ op.at = "unlink" /\ op.todo # {} /\ r \in Resources
      /\ n \in Batches /\ r \in DOMAIN batches[n].items /\ n \in 1..MaxBatches
  BY <1>1, AtGives
<1>3. r \in Directories => disk[r]["tree"] \in {n, Gone} /\ Item(n, r).tree = r /\ r \in SamePath(r)
  <2>1. r \in Directories => disk[r]["tree"] \in {n, Gone} BY <1>2 DEF Settled, Releasing
  <2>2. r \in Directories => Item(n, r).tree = r BY <1>2 DEF Settled, OwnTree
  <2>. QED BY <2>1, <2>2, SamePaths
<1>4. \/ \E m : r \in Bundles /\ Move(r, m, Gone) /\ UNCHANGED <<reg, batches, op>>
      \/ r \notin Bundles /\ Move(Item(n, r).tree, "tree", Gone) /\ UNCHANGED <<reg, batches, op>>
      \/ UNCHANGED <<disk, reg, batches, op>>
      \/ Contents(n, r) = {} /\ Transition(n, r, "purged") /\ NextItem /\ UNCHANGED <<disk, holders>>
  BY DEF Unlink
<1>5. CASE \E m : r \in Bundles /\ Move(r, m, Gone) /\ UNCHANGED <<reg, batches, op>>
  BY <1>1, <1>5, MemberSettled DEF world
<1>6. CASE r \notin Bundles /\ Move(Item(n, r).tree, "tree", Gone) /\ UNCHANGED <<reg, batches, op>>
  <2>1. r \in Directories BY <1>2, <1>6 DEF Resources
  <2>2. Move(r, "tree", Gone) BY <1>3, <1>6, <2>1
  <2>3. \A d \in Directories : disk'[d]["tree"] = IF d = r THEN Gone ELSE disk[d]["tree"]
    BY <2>1, <2>2, TreesAfter
  <2>4. RunThere' => RunThere
    <3>1. Runs \subseteq Directories BY DEF Directories
    <3>. QED BY <2>3, <3>1 DEF RunThere
  <2>5. disk[r]["tree"] # 0 BY <1>2, <1>3, <2>1 DEF Gone
  <2>6. CacheThere => CacheThere' BY <2>3, <2>5, Kinds DEF CacheThere
  <2>7. RunThere' /\ Caches # {} => CacheThere' BY <2>4, <2>6, BaseMeans
  <2>. QED BY <1>1, <1>2, <1>6, <2>1, <2>2, <2>7, SettledMoved DEF world
<1>7. CASE UNCHANGED <<disk, reg, batches, op>> BY <1>1, <1>7, SettledStays DEF world
<1>8. CASE Contents(n, r) = {} /\ Transition(n, r, "purged") /\ NextItem /\ UNCHANGED <<disk, holders>>
  <2>1. Row("purged") BY <1>1, <1>2, <1>8, NextRow DEF Still
  <2>2. r \in Directories => Arrived(r, "purged", n)
    <3>. SUFFICES ASSUME r \in Directories PROVE disk[r]["tree"] = Gone
      BY DEF Arrived
    <3>1. TreesAt(r, n) = {} BY <1>8, Kinds DEF Contents
    <3>2. disk[r]["tree"] # n BY <1>3, <3>1 DEF TreesAt
    <3>. QED BY <1>3, <3>2
  <2>. QED BY <1>2, <2>1, <2>2, SettledRow
<1>. QED BY <1>4, <1>5, <1>6, <1>7, <1>8

\* A fault is never forgotten.
LEMMA FaultsCounted ==
    ASSUME Governed, [Next]_vars, spent'.faults = 0
    PROVE  spent.faults = 0 /\ ~Crash /\ ~IoError
<1>1. spent \in [faults : 0..MaxFaults, changes : 0..MaxChanges] BY DEF Governed, Typed
<1>2. spent.faults \in Nat BY <1>1
<1>3. ~Fault
  <2>1. Fault => spent'.faults = spent.faults + 1 BY <1>1 DEF Fault
  <2>. QED BY <1>2, <2>1
<1>4. ~Crash /\ ~IoError BY <1>3 DEF Crash, IoError
<1>. SUFFICES spent'.faults = spent.faults BY <1>4
<1>5. \A f : Change(f) => spent'.faults = spent.faults BY <1>1 DEF Change
<1>6. Counted => spent'.faults = spent.faults BY <1>1 DEF Counted
<1>7. CASE Environment
  <2>1. CASE Tick \/ Discover BY <2>1 DEF Tick, Discover
  <2>2. CASE \E r \in Resources : RegisterResource(r, TRUE) \/ RegisterResource(r, FALSE)
                               \/ VerifyResource(r) \/ \E verified \in {Never, clock} : RegisterFlat(r, verified)
    BY <1>6, <2>2 DEF RegisterResource, VerifyResource, RegisterFlat
  <2>3. CASE \/ WriteRows
             \/ \E r \in Resources : StartRun(r) \/ Depend(r) \/ BuildCache(r) \/ LeaveRecoveryPoint(r)
                                   \/ \E recovered \in BOOLEAN : FinishRun(r, recovered)
    <3>1. \E f : Change(f)
      BY <2>3, Zenon DEF WriteRows, StartRun, FinishRun, Depend, BuildCache, LeaveRecoveryPoint
    <3>. QED BY <1>5, <3>1
  <2>. QED BY <1>7, <2>1, <2>2, <2>3 DEF Environment
<1>8. CASE Calls
  <2>1. CASE \/ Preview \/ \E plan \in plans : Execute(plan)
             \/ \E call \in {"execute", "restore", "purge"}, n \in Batches : Continue(call, n)
             \/ Reconciled \/ Finish
    BY <2>1 DEF Preview, Execute, Continue, Reconciled, Finish
  <2>2. CASE Reconcile BY <2>2 DEF Reconcile
  <2>3. CASE GuardBundle \/ MakeDirectory \/ SaveDirectory \/ MoveMember \/ MoveDirectory \/ DirectoryMoved
    BY <2>3 DEF GuardBundle, MakeDirectory, SaveDirectory, MoveMember, MoveDirectory, DirectoryMoved, Still
  <2>4. CASE RestoreReleased \/ RestoreMember \/ RestorePlanned \/ RestoreDirectory \/ DirectoryRestored
    BY <2>4 DEF RestoreReleased, RestoreMember, RestorePlanned, RestoreDirectory, DirectoryRestored, Still
  <2>5. CASE PurgePlanned \/ StartPurge \/ ResumePurge \/ Unlink
    BY <2>5 DEF PurgePlanned, StartPurge, ResumePurge, Unlink, Still
  <2>. QED BY <1>8, <2>1, <2>2, <2>3, <2>4, <2>5 DEF Calls
<1>9. CASE UNCHANGED vars BY <1>9 DEF vars
<1>. QED BY <1>4, <1>7, <1>8, <1>9 DEF Next

LEMMA NextSettled ==
    ASSUME Governed, Answered, Settled, BaseKept, [Next]_vars, ~Crash, ~IoError PROVE Settled' /\ BaseKept'
<1>1. CASE Environment
  BY <1>1, SettledQuiet, DiscoverSettled, StartRunSettled, BuildCacheSettled, LeaveRecoveryPointSettled,
     RegisterSettled
  DEF Environment
<1>2. CASE Calls
  BY <1>2, SettledQuiet, ExecuteSettled, ReconcileSettled, GuardBundleSettled, SaveDirectorySettled,
     MoveMemberSettled, MoveDirectorySettled, DirectoryMovedSettled, RestoreMemberSettled,
     RestorePlannedSettled, RestoreDirectorySettled, DirectoryRestoredSettled, StartPurgeSettled,
     NoneResumed, UnlinkSettled
  DEF Calls
<1>3. CASE UNCHANGED vars BY <1>3, SettledStays DEF vars
<1>. QED BY <1>1, <1>2, <1>3 DEF Next

\* What holds as long as no call has been interrupted.
Undisturbed == spent.faults = 0 => Settled /\ BaseKept

LEMMA NextUndisturbed == ASSUME Governed, Answered, Undisturbed, [Next]_vars PROVE Undisturbed'
<1>. SUFFICES ASSUME spent'.faults = 0 PROVE Settled' /\ BaseKept'
  BY DEF Undisturbed
<1>1. spent.faults = 0 /\ ~Crash /\ ~IoError BY FaultsCounted
<1>. QED BY <1>1, NextSettled DEF Undisturbed

\* While no call is interrupted no run that is on disk loses the cache its overlay is based on, whatever is
\* planned, evicted, restored, rebuilt and released (retention-resources.ts).
THEOREM BaseSafe == Spec => []BaseAvailable
<1>1. Init => Undisturbed BY InitSettled DEF Undisturbed
<1>2. Governed /\ Answered /\ Undisturbed /\ [Next]_vars => Undisturbed' BY NextUndisturbed
<1>3. Undisturbed => BaseAvailable BY DEF Undisturbed, BaseAvailable
<1>. QED BY <1>1, <1>2, <1>3, GovernedAlways, PTL DEF Spec

-----------------------------------------------------------------------------
(* What is released.                                                       *)

\* The cache that the overlays of a registry name, and what evidence says of a release at the instant t.
BaseOf(register) == {c \in Caches : register[c].state \in {"registered", "quarantined"} /\ register[c].at = 0}
Dispensable(r, e, t) ==
    /\ ~e.reg[r].pinned /\ r \notin e.facts.needed
    /\ ~(r \in BaseOf(e.reg) /\ r = First(BaseOf(e.reg)) /\ Runs \cap e.others # {})
    /\ r \in Runs => LET window == IF r \in e.facts.recovered THEN RecoveredWindow ELSE FinishedWindow
                     IN e.facts.done[r] # Never /\ e.facts.done[r] + window <= t
    /\ r \in Backups \cup Bundles =>
          Cardinality({q \in (Kind(r) \cap e.others) \ {r} : e.reg[q].verified # Never}) >= Keep

\* The evidence recorded when a release began said that its resource may go, and so does the evidence of
\* the moment while files are unlinked.
GuardInv == \A n \in Batches : \A r \in DOMAIN batches[n].items :
    Item(n, r).state = "purging" =>
        Item(n, r).purgeGuard \in EvidenceType /\ Dispensable(r, Item(n, r).purgeGuard, clock)
ReleaseInv == op.at = "unlink" => Dispensable(First(op.todo), Evidence(First(op.todo)), clock)
Vetted == GuardInv /\ ReleaseInv

\* Time only makes more dispensable.
LEMMA DispensableLater ==
    ASSUME NEW r \in Resources, NEW e \in EvidenceType, NEW t \in Int, NEW u \in Int, t <= u, Dispensable(r, e, t)
    PROVE  Dispensable(r, e, u)
<1>1. ASSUME r \in Runs, NEW w \in Nat, e.facts.done[r] + w <= t PROVE e.facts.done[r] + w <= u
  <2>1. e.facts.done[r] \in Int BY <1>1 DEF EvidenceType, FactsType, Never
  <2>. QED BY <1>1, <2>1
<1>2. FinishedWindow \in Nat /\ RecoveredWindow \in Nat BY ConstantsAssumption
<1>. QED BY <1>1, <1>2 DEF Dispensable

\* It does not depend on other generations of a cache, nor on what only names the state of the journal.
LEMMA DispensableAgain ==
    ASSUME NEW r \in Resources, NEW e, NEW f, NEW t, e.reg = f.reg, e.facts = f.facts,
           \A q \in Resources \ Caches : q # r => (q \in e.others <=> q \in f.others), Dispensable(r, e, t)
    PROVE  Dispensable(r, f, t)
<1>1. r \in Caches => (Runs \cap e.others # {} <=> Runs \cap f.others # {})
  <2>1. \A q \in Runs : q \in Resources \ Caches BY Kinds DEF Directories
  <2>. QED BY <2>1, Kinds
<1>2. r \in Backups \cup Bundles => (Kind(r) \cap e.others) \ {r} = (Kind(r) \cap f.others) \ {r}
  <2>1. \A q \in Backups \cup Bundles : q \in Resources \ Caches
    BY ConstantsAssumption DEF Directories, Resources
  <2>2. r \in Backups \cup Bundles => Kind(r) \subseteq Backups \cup Bundles BY DEF Kind
  <2>. QED BY <2>1, <2>2
<1>3. BaseOf(e.reg) = BaseOf(f.reg) /\ BaseOf(e.reg) \subseteq Caches BY DEF BaseOf
<1>4. ~(r \in BaseOf(f.reg) /\ r = First(BaseOf(f.reg)) /\ Runs \cap f.others # {})
  BY <1>1, <1>3 DEF Dispensable
<1>5. r \in Backups \cup Bundles =>
         Cardinality({q \in (Kind(r) \cap f.others) \ {r} : f.reg[q].verified # Never}) >= Keep
  BY <1>2 DEF Dispensable
<1>. QED BY <1>4, <1>5 DEF Dispensable

\* What the plan lets go is dispensable.
LEMMA EligibleIsDispensable ==
    ASSUME Governed, NEW r \in Resources, Eligible(r) PROVE Dispensable(r, Evidence(r), clock)
<1>. DEFINE e == Evidence(r)
            others == {q \in Resources \ {r} : Registered(q) /\ Whole(q)}
<1>1. e.reg = reg /\ e.facts = facts /\ e.others = others BY DEF Evidence
<1>2. Candidate(r, clock) BY DEF Eligible
<1>. HIDE DEF e
<1>3. ~e.reg[r].pinned /\ r \notin e.facts.needed BY <1>1, <1>2 DEF Candidate
<1>4. ~(r \in BaseOf(e.reg) /\ r = First(BaseOf(e.reg)) /\ Runs \cap e.others # {})
  <2>. SUFFICES ASSUME r \in BaseOf(reg), r = First(BaseOf(reg)), NEW q \in Runs \cap others
                PROVE  FALSE
    BY <1>1
  <2>1. BaseOf(reg) = Base BY DEF BaseOf, Base, Registered
  <2>2. r \in Caches BY <2>1 DEF Base
  <2>3. InUse(r) BY <2>1 DEF InUse
  <2>4. ~InUse(r) BY <1>2, <2>2 DEF Candidate, Evicted, Evictable
  <2>. QED BY <2>3, <2>4
<1>5. r \in Runs => LET window == IF r \in e.facts.recovered THEN RecoveredWindow ELSE FinishedWindow
                   IN e.facts.done[r] # Never /\ e.facts.done[r] + window <= clock
  BY <1>1, <1>2 DEF Candidate, Due
<1>6. r \in Backups \cup Bundles =>
         Cardinality({q \in (Kind(r) \cap e.others) \ {r} : e.reg[q].verified # Never}) >= Keep
  <2>. SUFFICES ASSUME r \in Backups \cup Bundles
                PROVE  Cardinality({q \in (Kind(r) \cap others) \ {r} : reg[q].verified # Never}) >= Keep
    BY <1>1
  <2>. DEFINE left == {q \in (Kind(r) \cap others) \ {r} : reg[q].verified # Never}
              newer == {q \in Automatic(r) : Newer(q, r)}
  <2>1. Kind(r) \subseteq Backups \cup Bundles /\ Kind(r) \subseteq Resources /\ r \in Kind(r)
    BY DEF Kind, Resources, Directories
  <2>2. CompletedAt(r) \in Int
    <3>1. CompletedAt(r) \in 0..clock BY <1>2 DEF Candidate
    <3>. QED BY <3>1
  <2>3. r \in Nat BY Kinds
  <2>4. newer \subseteq left
    <3>. SUFFICES ASSUME NEW q \in Automatic(r), Newer(q, r) PROVE q \in left
      OBVIOUS
    <3>1. q \in Kind(r) /\ Valid(q) BY DEF Automatic
    <3>2. Registered(q) /\ Whole(q) /\ reg[q].verified # Never BY <2>1, <3>1 DEF Valid
    <3>3. q # r BY <2>2, <2>3 DEF Newer
    <3>. QED BY <2>1, <3>1, <3>2, <3>3
  <2>5. r \in Automatic(r)
    <3>1. Valid(r) /\ ~reg[r].pinned /\ CompletedAt(r) \in 0..clock BY <1>2 DEF Candidate
    <3>2. CompletedAt(r) # Never BY <3>1 DEF Never
    <3>. QED BY <2>1, <3>1, <3>2 DEF Automatic
  <2>6. ~(Cardinality(newer) < Keep) BY <1>2, <2>5 DEF Candidate, Newest
  <2>7. IsFiniteSet(left) /\ IsFiniteSet(newer)
    <3>1. left \in SUBSET Resources /\ newer \in SUBSET Resources BY <2>1, <2>4
    <3>. QED BY <3>1, ConstantsAssumption, FS_Subset
  <2>8. Cardinality(newer) <= Cardinality(left) BY <2>4, <2>7, FS_Subset
  <2>9. Cardinality(newer) \in Nat /\ Cardinality(left) \in Nat /\ Keep \in Nat
    BY <2>7, FS_CardinalityType, ConstantsAssumption
  <2>. HIDE DEF left, newer
  <2>10. Cardinality(left) >= Keep BY <2>6, <2>8, <2>9
  <2>. QED BY <2>10 DEF left
<1>7. Dispensable(r, e, clock) BY <1>3, <1>4, <1>5, <1>6 DEF Dispensable
<1>. QED BY <1>7 DEF e

\* No call moves the clock.
LEMMA ClockKept == ASSUME Calls PROVE clock' = clock
<1>1. CASE \/ Preview \/ \E plan \in plans : Execute(plan)
           \/ \E call \in {"execute", "restore", "purge"}, n \in Batches : Continue(call, n)
           \/ Reconciled \/ Finish
  BY <1>1 DEF Preview, Execute, Continue, Reconciled, Finish, world
<1>2. CASE Reconcile BY <1>2 DEF Reconcile, world
<1>3. CASE GuardBundle \/ MakeDirectory \/ SaveDirectory \/ MoveMember \/ MoveDirectory \/ DirectoryMoved
  BY <1>3 DEF GuardBundle, MakeDirectory, SaveDirectory, MoveMember, MoveDirectory, DirectoryMoved, Still, world
<1>4. CASE RestoreReleased \/ RestoreMember \/ RestorePlanned \/ RestoreDirectory \/ DirectoryRestored
  BY <1>4 DEF RestoreReleased, RestoreMember, RestorePlanned, RestoreDirectory, DirectoryRestored, Still, world
<1>5. CASE PurgePlanned \/ StartPurge \/ ResumePurge \/ Unlink
  BY <1>5 DEF PurgePlanned, StartPurge, ResumePurge, Unlink, Still, world
<1>. QED BY <1>1, <1>2, <1>3, <1>4, <1>5 DEF Calls

\* Only the clock moves forward, and only by itself.
LEMMA ClockForward == ASSUME Governed, [Next]_vars PROVE clock \in Int /\ clock' \in Int /\ clock <= clock'
<1>1. clock \in Int /\ clock + 1 \in Int BY DEF Governed, Typed
<1>. SUFFICES clock' = clock \/ clock' = clock + 1 BY <1>1
<1>2. CASE Environment
  <2>1. CASE Tick BY <2>1 DEF Tick
  <2>2. CASE \/ Discover
             \/ \E r \in Resources :
                   \/ \E pin \in BOOLEAN : RegisterResource(r, pin)
                   \/ VerifyResource(r)
                   \/ \E verified \in {Never, clock} : RegisterFlat(r, verified)
    BY <2>2 DEF Discover, RegisterResource, VerifyResource, RegisterFlat, Govern
  <2>3. CASE \/ WriteRows
             \/ \E r \in Resources : StartRun(r) \/ Depend(r) \/ BuildCache(r) \/ LeaveRecoveryPoint(r)
                                   \/ \E recovered \in BOOLEAN : FinishRun(r, recovered)
    BY <2>3 DEF WriteRows, StartRun, FinishRun, Depend, BuildCache, LeaveRecoveryPoint, Change
  <2>. QED BY <1>2, <2>1, <2>2, <2>3 DEF Environment
<1>3. CASE Calls BY <1>3, ClockKept
<1>4. CASE Crash \/ IoError BY <1>4 DEF Crash, IoError, Fault, world
<1>5. CASE UNCHANGED vars BY <1>5 DEF vars
<1>. QED BY <1>2, <1>3, <1>4, <1>5 DEF Next

\* The guards in the journal hold on.
LEMMA GuardsStay ==
    ASSUME Governed, GuardInv, clock' \in Int, clock <= clock', UNCHANGED batches
    PROVE  GuardInv'
<1>1. Batches' = Batches BY DEF Batches
<1>. SUFFICES ASSUME NEW n \in Batches, NEW r \in DOMAIN batches[n].items, Item(n, r).state = "purging"
              PROVE  Item(n, r).purgeGuard \in EvidenceType /\ Dispensable(r, Item(n, r).purgeGuard, clock')
  BY <1>1 DEF GuardInv, Item
<1>2. Item(n, r).purgeGuard \in EvidenceType /\ Dispensable(r, Item(n, r).purgeGuard, clock) BY DEF GuardInv
<1>3. r \in Resources /\ clock \in Int BY ItemTyped DEF Governed, Typed
<1>. QED BY <1>2, <1>3, DispensableLater

\* One item is written, and it is no release, or a release of what may go.
LEMMA GuardsWritten ==
    ASSUME Governed, GuardInv, UNCHANGED clock, NEW n \in Batches, NEW r \in DOMAIN batches[n].items,
           NEW item, Keeps(n, r, item),
           item.state = "purging" => item.purgeGuard \in EvidenceType /\ Dispensable(r, item.purgeGuard, clock)
    PROVE  GuardInv'
<1>1. /\ Batches' = Batches
      /\ \A k \in Batches :
            /\ DOMAIN batches'[k].items = DOMAIN batches[k].items
            /\ \A q \in DOMAIN batches[k].items :
                  batches'[k].items[q] = IF k = n /\ q = r THEN item ELSE Item(k, q)
  BY DEF Keeps
<1>. SUFFICES ASSUME NEW k \in Batches, NEW q \in DOMAIN batches[k].items, batches'[k].items[q].state = "purging"
              PROVE  /\ batches'[k].items[q].purgeGuard \in EvidenceType
                     /\ Dispensable(q, batches'[k].items[q].purgeGuard, clock)
  BY <1>1 DEF GuardInv, Item
<1>2. CASE k = n /\ q = r
  <2>1. batches'[k].items[q] = item BY <1>1, <1>2
  <2>. QED BY <1>2, <2>1
<1>3. CASE ~(k = n /\ q = r)
  <2>1. batches'[k].items[q] = Item(k, q) BY <1>1, <1>3
  <2>. QED BY <2>1 DEF GuardInv
<1>. QED BY <1>2, <1>3

LEMMA RowVetted ==
    ASSUME Governed, Vetted, op.call # "none", op.todo # {},
           NEW state \in {"quarantined", "restored", "purged"}, Row(state)
    PROVE  Vetted'
<1>. DEFINE item == [Item(op.n, First(op.todo)) EXCEPT !.state = state]
<1>1. /\ op.n \in Batches /\ First(op.todo) \in DOMAIN batches[op.n].items
      /\ Item(op.n, First(op.todo)) \in ItemType
  BY AtHand
<1>2. Keeps(op.n, First(op.todo), item) BY RowWrites
<1>3. item.state # "purging" BY <1>1 DEF ItemType
<1>4. clock' = clock BY DEF Row, Still, world
<1>5. op'.at # "unlink"
  <2>1. op \in OpType BY DEF Governed, Typed
  <2>. QED BY <2>1 DEF Row, OpType
<1>6. GuardInv'
  <2>. HIDE DEF item
  <2>. QED BY <1>1, <1>2, <1>3, <1>4, GuardsWritten DEF Vetted
<1>. QED BY <1>5, <1>6 DEF Vetted, ReleaseInv

\* Nothing is written and no release is under way afterwards.
LEMMA QuietVetted ==
    ASSUME Governed, Vetted, UNCHANGED batches, clock' \in Int, clock <= clock', op'.at # "unlink" PROVE Vetted'
<1>. QED BY GuardsStay DEF Vetted, ReleaseInv

LEMMA EnvironmentVetted ==
    ASSUME Governed, Vetted, Environment, clock' \in Int, clock <= clock' PROVE Vetted'
<1>1. CASE Tick
  <2>1. UNCHANGED <<disk, reg, src, batches, op, facts>> BY <1>1 DEF Tick
  <2>2. GuardInv' BY <2>1, GuardsStay DEF Vetted
  <2>3. ASSUME op.at = "unlink" PROVE Dispensable(First(op.todo), Evidence(First(op.todo)), clock')
    <3>1. op.call # "none" BY <2>3 DEF Governed, OpInv, Idle
    <3>2. op.todo # {} BY <2>3, <3>1 DEF Governed, OpInv, Working
    <3>3. First(op.todo) \in Resources BY <3>1, <3>2, AtHand
    <3>4. Evidence(First(op.todo)) \in EvidenceType BY <3>3, EvidenceTyped DEF Governed
    <3>5. clock \in Int BY DEF Governed, Typed
    <3>. QED BY <2>3, <3>3, <3>4, <3>5, DispensableLater DEF Vetted, ReleaseInv
  <2>4. \A r : (Evidence(r))' = Evidence(r)
    BY <2>1 DEF Evidence, SourceRead, Journalled, Batches, Item, Registered, Whole, AllAt, TreesAt
  <2>5. ReleaseInv' BY <2>1, <2>3, <2>4 DEF ReleaseInv
  <2>. QED BY <2>2, <2>5 DEF Vetted
<1>2. CASE ~Tick
  <2>1. UNCHANGED batches /\ op' = op /\ op.call = "none"
    <3>1. CASE \/ Discover
               \/ \E r \in Resources :
                     \/ \E pin \in BOOLEAN : RegisterResource(r, pin)
                     \/ VerifyResource(r)
                     \/ \E verified \in {Never, clock} : RegisterFlat(r, verified)
      BY <3>1 DEF Discover, RegisterResource, VerifyResource, RegisterFlat, Govern, calls, Between
    <3>2. CASE \/ WriteRows
               \/ \E r \in Resources : StartRun(r) \/ Depend(r) \/ BuildCache(r) \/ LeaveRecoveryPoint(r)
                                     \/ \E recovered \in BOOLEAN : FinishRun(r, recovered)
      BY <3>2 DEF WriteRows, StartRun, FinishRun, Depend, BuildCache, LeaveRecoveryPoint, Change, calls, Between
    <3>. QED BY <1>2, <3>1, <3>2 DEF Environment
  <2>2. op'.at # "unlink" BY <2>1 DEF Governed, OpInv, Idle
  <2>. QED BY <2>1, <2>2, QuietVetted
<1>. QED BY <1>1, <1>2

LEMMA QuietCallVetted ==
    ASSUME Governed, Vetted, clock' = clock,
           \/ Preview \/ Reconciled \/ Finish \/ MakeDirectory \/ MoveDirectory
           \/ RestoreReleased \/ RestoreDirectory \/ PurgePlanned \/ Crash \/ IoError
           \/ \E call \in {"execute", "restore", "purge"}, n \in Batches : Continue(call, n)
    PROVE  Vetted'
<1>1. op \in OpType /\ (op.call = "none" => op.at = "none") BY DEF Governed, Typed, OpInv, Idle
<1>2. UNCHANGED batches /\ op'.at # "unlink"
  <2>1. CASE Preview BY <1>1, <2>1 DEF Preview, Between
  <2>2. CASE Reconciled
    <3>1. op'.at = "item" BY <1>1, <2>2 DEF Reconciled, ToLoop, OpType
    <3>. QED BY <2>2, <3>1 DEF Reconciled
  <2>3. CASE Finish BY <2>3 DEF Finish, Idle
  <2>4. CASE RestoreReleased \/ PurgePlanned
    BY <2>4 DEF RestoreReleased, PurgePlanned, Stop, Still, Idle
  <2>5. CASE MakeDirectory \/ MoveDirectory
    BY <1>1, <2>5 DEF MakeDirectory, MoveDirectory, Stop, Idle, Goto, OpType
  <2>6. CASE RestoreDirectory BY <1>1, <2>6 DEF RestoreDirectory, Stop, Idle, Goto, OpType
  <2>7. CASE Crash \/ IoError BY <2>7 DEF Crash, IoError, Fault, Idle
  <2>8. CASE \E call \in {"execute", "restore", "purge"}, n \in Batches : Continue(call, n)
    BY <2>8 DEF Continue, Begin
  <2>. QED BY <2>1, <2>2, <2>3, <2>4, <2>5, <2>6, <2>7, <2>8
<1>3. clock' \in Int /\ clock <= clock' BY DEF Governed, Typed
<1>. QED BY <1>2, <1>3, QuietVetted

\* A call stops, or notes something of an item it does not release.
LEMMA StopVetted == ASSUME Governed, Vetted, Stop, clock' = clock PROVE Vetted'
<1>1. clock' \in Int /\ clock <= clock' BY DEF Governed, Typed
<1>. QED BY <1>1, QuietVetted DEF Stop, Idle

LEMMA NotedVetted ==
    ASSUME Governed, Vetted, clock' = clock, op.call # "none", op.todo # {}, op'.at # "unlink",
           NEW item \in ItemType, Save(op.n, First(op.todo), item), item.state # "purging"
    PROVE  Vetted'
<1>1. op.n \in Batches /\ First(op.todo) \in DOMAIN batches[op.n].items BY AtHand
<1>2. Keeps(op.n, First(op.todo), item) BY <1>1, Saved DEF Governed
<1>. QED BY <1>1, <1>2, GuardsWritten DEF Vetted, ReleaseInv

LEMMA ExecuteVetted ==
    ASSUME Governed, Vetted, clock' = clock, NEW plan \in plans, Execute(plan) PROVE Vetted'
<1>. DEFINE new == Len(batches')
<1>1. Started(plan) /\ op'.at = "reconcile" BY ExecuteStarts
<1>2. /\ Batches' = Batches \cup {new} /\ \A n \in Batches : batches'[n] = batches[n]
      /\ \A r \in DOMAIN batches'[new].items : batches'[new].items[r].state = "planned"
  BY <1>1 DEF Started, Fresh
<1>3. GuardInv'
  <2>. SUFFICES ASSUME NEW n \in Batches \cup {new}, NEW r \in DOMAIN batches'[n].items,
                       batches'[n].items[r].state = "purging"
                PROVE  /\ batches'[n].items[r].purgeGuard \in EvidenceType
                       /\ Dispensable(r, batches'[n].items[r].purgeGuard, clock)
    BY <1>2 DEF GuardInv, Item
  <2>. QED BY <1>2 DEF Vetted, GuardInv, Item
<1>. QED BY <1>1, <1>3 DEF Vetted, ReleaseInv

LEMMA ReconcileVetted == ASSUME Governed, Vetted, clock' = clock, Reconcile PROVE Vetted'
<1>1. /\ op.call # "none" /\ op.at = "reconcile" /\ op.todo # {} /\ Still
      /\ Stop \/ Skip \/ Row("quarantined") \/ Row("restored")
  BY ReconcileEnds
<1>2. CASE Skip
  <2>1. op \in OpType BY DEF Governed, Typed
  <2>2. op'.at = op.at BY <1>2, <2>1 DEF Skip, OpType
  <2>3. clock' \in Int /\ clock <= clock' BY DEF Governed, Typed
  <2>. QED BY <1>1, <1>2, <2>2, <2>3, QuietVetted DEF Skip
<1>. QED BY <1>1, <1>2, StopVetted, RowVetted

LEMMA GuardBundleVetted == ASSUME Governed, Vetted, clock' = clock, GuardBundle PROVE Vetted'
<1>. DEFINE n == op.n
            r == First(op.todo)
            item == [Item(n, r) EXCEPT !.guard = Evidence(r)]
<1>1. At("execute", "item", Bundles) BY DEF GuardBundle
<1>2. op.call = "execute" /\ op.todo # {} /\ r \in Resources /\ Item(n, r) \in ItemType /\ op.at = "item"
  BY <1>1, AtGives
<1>3. \/ Stop
      \/ Goto("mkdir") /\ UNCHANGED <<reg, src, batches>>
      \/ Save(n, r, item) /\ Goto("mkdir") /\ UNCHANGED <<reg, src>>
  BY DEF GuardBundle
<1>4. item \in ItemType /\ item.state # "purging"
  <2>1. Evidence(r) \in EvidenceType BY <1>2, EvidenceTyped DEF Governed
  <2>2. Item(n, r).state = "planned" BY <1>2, AtHand DEF ToHandle
  <2>. QED BY <1>2, <2>1, <2>2 DEF ItemType
<1>5. Goto("mkdir") => op'.at = "mkdir" BY GoneTo
<1>6. clock' \in Int /\ clock <= clock' BY DEF Governed, Typed
<1>. HIDE DEF item
<1>. QED BY <1>2, <1>3, <1>4, <1>5, <1>6, StopVetted, QuietVetted, NotedVetted

LEMMA SaveDirectoryVetted == ASSUME Governed, Vetted, clock' = clock, SaveDirectory PROVE Vetted'
<1>. DEFINE n == op.n
            r == First(op.todo)
            item == [Item(n, r) EXCEPT !.dir = TRUE]
<1>1. At("execute", "identity", Bundles) BY DEF SaveDirectory
<1>2. op.call = "execute" /\ op.todo # {} /\ r \in Resources /\ Item(n, r) \in ItemType /\ op.at = "identity"
  BY <1>1, AtGives
<1>3. Save(n, r, item) /\ Goto("move") BY DEF SaveDirectory
<1>4. item \in ItemType /\ item.state # "purging"
  <2>1. Item(n, r).state = "planned" BY <1>2, AtHand DEF ToHandle
  <2>. QED BY <1>2, <2>1 DEF ItemType
<1>5. op'.at = "move" BY <1>3, GoneTo
<1>. HIDE DEF item
<1>. QED BY <1>2, <1>3, <1>4, <1>5, NotedVetted

LEMMA MemberVetted == ASSUME Governed, Vetted, clock' = clock, MoveMember \/ RestoreMember PROVE Vetted'
<1>1. op.call # "none" /\ op.todo # {} /\ op.at \in {"move", "item"} BY AtGives DEF MoveMember, RestoreMember
<1>2. \/ Stop
      \/ Row("quarantined") \/ Row("restored")
      \/ UNCHANGED <<batches, op>>
  BY <1>1, NextRow DEF MoveMember, RestoreMember, Still
<1>3. clock' \in Int /\ clock <= clock' BY DEF Governed, Typed
<1>. QED BY <1>1, <1>2, <1>3, StopVetted, RowVetted, QuietVetted

LEMMA DirectoryVetted ==
    ASSUME Governed, Vetted, clock' = clock, DirectoryMoved \/ RestorePlanned \/ DirectoryRestored
    PROVE  Vetted'
<1>1. op.call # "none" /\ op.todo # {} /\ op.at \in {"moved", "item"}
  BY AtGives DEF DirectoryMoved, RestorePlanned, DirectoryRestored
<1>2. Stop \/ Row("quarantined") \/ Row("restored")
  BY <1>1, NextRow DEF DirectoryMoved, RestorePlanned, DirectoryRestored
<1>. QED BY <1>1, <1>2, StopVetted, RowVetted

\* A release goes on for the same item: of what its evidence reads nothing has changed.
LEMMA ReleaseGoesOn ==
    ASSUME Governed, UNCHANGED <<clock, reg, facts>>, op'.todo = op.todo, First(op.todo) \in Resources,
           Dispensable(First(op.todo), Evidence(First(op.todo)), clock),
           \A q \in Resources \ Caches : q # First(op.todo) => \A m \in Members(q) : disk'[q][m] = disk[q][m]
    PROVE  ReleaseInv'
<1>. SUFFICES ASSUME NEW r \in Resources, r = First(op.todo)
              PROVE  Dispensable(r, (Evidence(r))', clock)
  BY DEF ReleaseInv
<1>1. (Evidence(r))'.reg = Evidence(r).reg /\ (Evidence(r))'.facts = Evidence(r).facts BY DEF Evidence
<1>2. \A q \in Resources \ Caches : q # r => (q \in Evidence(r).others <=> q \in (Evidence(r))'.others)
  <2>. SUFFICES ASSUME NEW q \in Resources \ Caches, q # r
                PROVE  (Registered(q) /\ Whole(q)) <=> (Registered(q) /\ Whole(q))'
    BY DEF Evidence
  <2>1. \A m \in Members(q) : disk'[q][m] = disk[q][m] OBVIOUS
  <2>2. CASE q \in Bundles BY <2>1, <2>2 DEF Registered, Whole, AllAt
  <2>3. CASE q \notin Bundles
    <3>1. SamePath(q) = {q} /\ "tree" \in Members(q) BY <2>3 DEF SamePath, Members
    <3>2. \A l : TreesAt(q, l) = {} <=> disk[q]["tree"] # l BY <3>1 DEF TreesAt
    <3>3. \A l : (TreesAt(q, l))' = {} <=> disk'[q]["tree"] # l BY <3>1 DEF TreesAt
    <3>. QED BY <2>1, <2>3, <3>1, <3>2, <3>3 DEF Registered, Whole
  <2>. QED BY <2>2, <2>3
<1>. QED BY <1>1, <1>2, DispensableAgain

LEMMA StartPurgeVetted == ASSUME Governed, Vetted, clock' = clock, StartPurge PROVE Vetted'
<1>. DEFINE n == op.n
            r == First(op.todo)
            item == [Item(n, r) EXCEPT !.state = "purging", !.purgeGuard = Evidence(r)]
<1>1. At("purge", "item", Unfinished(op.n, {"quarantined"})) /\ UNCHANGED <<disk, facts>>
  BY DEF StartPurge, Still, world
<1>2. /\ op.call = "purge" /\ op.at = "item" /\ op.todo # {} /\ r \in Resources /\ Item(n, r) \in ItemType
      /\ n \in Batches /\ r \in DOMAIN batches[n].items
  BY <1>1, AtGives
<1>3. \/ Save(n, r, item) /\ Goto("unlink") /\ UNCHANGED <<reg, src>> /\ Eligible(r)
      \/ Stop
  BY DEF StartPurge
<1>4. item \in ItemType /\ item.purgeGuard = Evidence(r) /\ Evidence(r) \in EvidenceType
  <2>1. Evidence(r) \in EvidenceType BY <1>2, EvidenceTyped DEF Governed
  <2>. QED BY <1>2, <2>1 DEF ItemType, ItemStates
<1>. HIDE DEF item
<1>5. CASE Stop BY <1>5, StopVetted
<1>6. CASE Save(n, r, item) /\ Goto("unlink") /\ UNCHANGED <<reg, src>> /\ Eligible(r)
  <2>1. op'.todo = op.todo BY <1>6, GoneTo
  <2>2. Keeps(n, r, item) BY <1>2, <1>4, <1>6, Saved DEF Governed
  <2>3. Dispensable(r, Evidence(r), clock) BY <1>2, <1>6, EligibleIsDispensable
  <2>4. GuardInv' BY <1>2, <1>4, <2>2, <2>3, GuardsWritten DEF Vetted
  <2>5. ReleaseInv' BY <1>1, <1>2, <1>6, <2>1, <2>3, ReleaseGoesOn
  <2>. QED BY <2>4, <2>5 DEF Vetted
<1>. QED BY <1>3, <1>5, <1>6

LEMMA ResumePurgeVetted == ASSUME Governed, Vetted, clock' = clock, ResumePurge PROVE Vetted'
<1>. DEFINE n == op.n
            r == First(op.todo)
<1>1. At("purge", "item", Unfinished(op.n, {"purging"})) /\ UNCHANGED <<disk, facts>>
  BY DEF ResumePurge, Still, world
<1>2. /\ op.todo # {} /\ r \in Resources /\ n \in Batches /\ r \in DOMAIN batches[n].items
      /\ Item(n, r).state = "purging"
  BY <1>1, AtGives DEF Unfinished
<1>3. \/ Goto("unlink") /\ UNCHANGED <<reg, src, batches>> /\ GuardHolds(r, Item(n, r).purgeGuard)
      \/ Stop
  BY DEF ResumePurge
<1>4. CASE Stop BY <1>4, StopVetted
<1>5. CASE Goto("unlink") /\ UNCHANGED <<reg, src, batches>> /\ GuardHolds(r, Item(n, r).purgeGuard)
  <2>1. op'.todo = op.todo BY <1>5, GoneTo
  <2>2. Evidence(r) = Item(n, r).purgeGuard BY <1>5 DEF GuardHolds
  <2>3. Dispensable(r, Evidence(r), clock) BY <1>2, <2>2 DEF Vetted, GuardInv
  <2>4. clock' \in Int /\ clock <= clock' BY DEF Governed, Typed
  <2>5. GuardInv' BY <1>5, <2>4, GuardsStay DEF Vetted
  <2>6. ReleaseInv' BY <1>1, <1>2, <1>5, <2>1, <2>3, ReleaseGoesOn
  <2>. QED BY <2>5, <2>6 DEF Vetted
<1>. QED BY <1>3, <1>4, <1>5

\* What an unlink takes is of the resource at hand, or another generation at its path.
LEMMA Unlinks ==
    ASSUME Governed, Answered, Unlink
    PROVE  /\ op.call = "purge" /\ op.at = "unlink" /\ op.todo # {} /\ First(op.todo) \in Resources
           /\ UNCHANGED <<clock, facts>>
           /\ \/ Row("purged") /\ UNCHANGED disk
              \/ /\ UNCHANGED <<reg, batches, op>>
                 /\ \A q \in Resources \ Caches : q # First(op.todo) => \A m \in Members(q) : disk'[q][m] = disk[q][m]
                 /\ First(op.todo) \notin Caches =>
                       \A q \in Caches : \A m \in Members(q) : disk'[q][m] = disk[q][m]
<1>. DEFINE n == op.n
            r == First(op.todo)
            g == Item(n, r).tree
<1>1. At("purge", "unlink", Resources) /\ UNCHANGED <<world, plans, spent>> BY DEF Unlink
<1>2. /\ op.call = "purge" /\ op.at = "unlink" /\ op.todo # {} /\ r \in Resources
      /\ n \in Batches /\ r \in DOMAIN batches[n].items
  BY <1>1, AtGives
<1>3. \/ \E m : r \in Bundles /\ Move(r, m, Gone) /\ UNCHANGED <<reg, batches, op>>
      \/ r \notin Bundles /\ Move(g, "tree", Gone) /\ UNCHANGED <<reg, batches, op>>
      \/ UNCHANGED <<disk, reg, batches, op>>
      \/ Transition(n, r, "purged") /\ NextItem /\ UNCHANGED <<disk, holders>>
  BY DEF Unlink
<1>4. CASE \E m : r \in Bundles /\ Move(r, m, Gone) /\ UNCHANGED <<reg, batches, op>>
  <2>1. PICK m : r \in Bundles /\ Move(r, m, Gone) BY <1>4
  <2>2. \A q \in Resources : \A k \in Members(q) : disk'[q][k] = IF q = r /\ k = m THEN Gone ELSE disk[q][k]
    BY <1>2, <2>1, MovedTyped
  <2>3. Caches \subseteq Resources BY Kinds
  <2>. QED BY <1>1, <1>2, <1>4, <2>2, <2>3, Kinds DEF world
<1>5. CASE r \notin Bundles /\ Move(g, "tree", Gone) /\ UNCHANGED <<reg, batches, op>>
  <2>1. r \in Directories BY <1>2, <1>5 DEF Resources
  <2>2. g \in SamePath(r) BY <1>2, <2>1 DEF Answered, TreesNamed
  <2>3. g \in Resources
    <3>1. g \in Directories BY <2>1, <2>2, SamePaths
    <3>. QED BY <3>1, Kinds
  <2>4. \A q \in Resources : \A k \in Members(q) : disk'[q][k] = IF q = g /\ k = "tree" THEN Gone ELSE disk[q][k]
    BY <1>5, <2>3, MovedTyped
  <2>5. (r \in Caches /\ g \in Caches) \/ (r \notin Caches /\ g = r) BY <2>2 DEF SamePath
  <2>6. Caches \subseteq Resources BY Kinds
  <2>. QED BY <1>1, <1>2, <1>5, <2>4, <2>5, <2>6 DEF world
<1>6. CASE UNCHANGED <<disk, reg, batches, op>> BY <1>1, <1>2, <1>6 DEF world
<1>7. CASE Transition(n, r, "purged") /\ NextItem /\ UNCHANGED <<disk, holders>>
  <2>1. Row("purged") BY <1>1, <1>2, <1>7, NextRow DEF Still
  <2>. QED BY <1>1, <1>2, <1>7, <2>1 DEF world
<1>. QED BY <1>3, <1>4, <1>5, <1>6, <1>7

LEMMA UnlinkVetted == ASSUME Governed, Answered, Vetted, Unlink PROVE Vetted'
<1>1. op.call = "purge" /\ op.at = "unlink" /\ op.todo # {} /\ First(op.todo) \in Resources
      /\ UNCHANGED <<clock, facts>>
  BY Unlinks
<1>2. CASE Row("purged") BY <1>1, <1>2, RowVetted
<1>3. CASE /\ UNCHANGED <<reg, batches, op>>
           /\ \A q \in Resources \ Caches : q # First(op.todo) => \A m \in Members(q) : disk'[q][m] = disk[q][m]
  <2>1. clock' \in Int /\ clock <= clock' BY <1>1 DEF Governed, Typed
  <2>2. GuardInv' BY <1>3, <2>1, GuardsStay DEF Vetted
  <2>3. Dispensable(First(op.todo), Evidence(First(op.todo)), clock) BY <1>1 DEF Vetted, ReleaseInv
  <2>4. ReleaseInv' BY <1>1, <1>3, <2>3, ReleaseGoesOn
  <2>. QED BY <2>2, <2>4 DEF Vetted
<1>. QED BY <1>2, <1>3, Unlinks

LEMMA NextVetted == ASSUME Governed, Answered, Vetted, [Next]_vars PROVE Vetted'
<1>1. clock' \in Int /\ clock <= clock' BY ClockForward
<1>2. CASE Environment BY <1>1, <1>2, EnvironmentVetted
<1>3. CASE Calls
  <2>1. clock' = clock BY <1>3, ClockKept
  <2>. QED BY <1>3, <2>1, QuietCallVetted, ExecuteVetted, ReconcileVetted, GuardBundleVetted, SaveDirectoryVetted,
         MemberVetted, DirectoryVetted, StartPurgeVetted, ResumePurgeVetted, UnlinkVetted
       DEF Calls
<1>4. CASE Crash \/ IoError
  <2>1. clock' = clock BY <1>4 DEF Crash, IoError, Fault, world
  <2>. QED BY <1>4, <2>1, QuietCallVetted
<1>5. CASE UNCHANGED vars
  <2>1. GuardInv' BY <1>1, <1>5, GuardsStay DEF vars, Vetted
  <2>2. UNCHANGED <<clock, disk, reg, src, batches, op, facts>> BY <1>5 DEF vars
  <2>3. \A r : (Evidence(r))' = Evidence(r)
    BY <2>2 DEF Evidence, SourceRead, Journalled, Batches, Item, Registered, Whole, AllAt, TreesAt
  <2>4. ReleaseInv' BY <2>2, <2>3 DEF Vetted, ReleaseInv
  <2>. QED BY <2>1, <2>4 DEF Vetted
<1>. QED BY <1>2, <1>3, <1>4, <1>5 DEF Next

\* Files go only by an unlink.
LEMMA OnlyUnlinks ==
    ASSUME Governed, Answered, [Next]_vars, NEW g \in Resources, Removed(g) PROVE Unlink
<1>1. PICK m \in Members(g) : disk[g][m] # Gone /\ disk'[g][m] = Gone BY DEF Removed
<1>2. disk' # disk BY <1>1
<1>3. \A r : \A k : \A to : (r \in Resources /\ to \in {0, op.n} /\ Move(r, k, to)) => FALSE
  <2>. SUFFICES ASSUME NEW r \in Resources, NEW k, NEW to \in {0, op.n}, Move(r, k, to) PROVE FALSE
    OBVIOUS
  <2>1. \A q \in Resources : \A j \in Members(q) : disk'[q][j] = IF q = r /\ j = k THEN to ELSE disk[q][j]
    BY MovedTyped
  <2>2. to \in Nat BY DEF Governed, Typed, OpType
  <2>. QED BY <1>1, <2>1, <2>2 DEF Gone
<1>4. CASE Environment
  <2>1. CASE Tick \/ Discover \/ WriteRows
             \/ \E r \in Resources :
                   \/ \E pin \in BOOLEAN : RegisterResource(r, pin)
                   \/ VerifyResource(r) \/ Depend(r)
                   \/ \E verified \in {Never, clock} : RegisterFlat(r, verified)
                   \/ \E recovered \in BOOLEAN : FinishRun(r, recovered)
    BY <1>2, <2>1 DEF Tick, Discover, WriteRows, RegisterResource, VerifyResource, RegisterFlat, Depend, FinishRun,
                      Govern
  <2>2. CASE \E r \in Resources : StartRun(r) \/ BuildCache(r)
    BY <1>3, <2>2 DEF StartRun, BuildCache, Move
  <2>3. CASE \E r \in Resources : LeaveRecoveryPoint(r)
    <3>1. PICK r \in Bundles : disk' = [disk EXCEPT ![r] = [k \in Members(r) |-> 0]]
      BY <2>3 DEF LeaveRecoveryPoint
    <3>. QED BY <1>1, <3>1 DEF Governed, Typed, DiskTyped, Gone
  <2>. QED BY <1>4, <2>1, <2>2, <2>3 DEF Environment
<1>5. CASE Calls
  <2>1. CASE \/ Preview \/ \E plan \in plans : Execute(plan)
             \/ \E call \in {"execute", "restore", "purge"}, n \in Batches : Continue(call, n)
             \/ Reconciled \/ Finish
    BY <1>2, <2>1 DEF Preview, Execute, Continue, Reconciled, Finish
  <2>2. CASE Reconcile BY <1>2, <2>2 DEF Reconcile
  <2>3. CASE GuardBundle \/ MakeDirectory \/ SaveDirectory \/ DirectoryMoved
    BY <1>2, <2>3 DEF GuardBundle, MakeDirectory, SaveDirectory, DirectoryMoved, Still
  <2>4. CASE RestoreReleased \/ RestorePlanned \/ DirectoryRestored
    BY <1>2, <2>4 DEF RestoreReleased, RestorePlanned, DirectoryRestored, Still
  <2>5. CASE PurgePlanned \/ StartPurge \/ ResumePurge
    BY <1>2, <2>5 DEF PurgePlanned, StartPurge, ResumePurge, Still
  <2>6. CASE MoveMember \/ RestoreMember
    <3>1. First(op.todo) \in Resources BY <2>6, AtGives DEF MoveMember, RestoreMember
    <3>2. \E k : Move(First(op.todo), k, op.n) \/ Move(First(op.todo), k, 0)
      BY <1>2, <2>6 DEF MoveMember, RestoreMember
    <3>. QED BY <1>3, <3>1, <3>2
  <2>7. CASE MoveDirectory \/ RestoreDirectory
    <3>1. Item(op.n, First(op.todo)) \in ItemType BY <2>7, AtGives DEF MoveDirectory, RestoreDirectory
    <3>2. Item(op.n, First(op.todo)).tree \in Resources BY <3>1 DEF ItemType
    <3>3. \/ Move(Item(op.n, First(op.todo)).tree, "tree", op.n)
          \/ Move(Item(op.n, First(op.todo)).tree, "tree", 0)
      BY <1>2, <2>7 DEF MoveDirectory, RestoreDirectory
    <3>. QED BY <1>3, <3>2, <3>3
  <2>8. CASE Unlink BY <2>8
  <2>. QED BY <1>5, <2>1, <2>2, <2>3, <2>4, <2>5, <2>6, <2>7, <2>8 DEF Calls
<1>6. CASE Crash \/ IoError BY <1>2, <1>6 DEF Crash, IoError, Fault
<1>7. CASE UNCHANGED vars BY <1>2, <1>7 DEF vars
<1>. QED BY <1>4, <1>5, <1>6, <1>7 DEF Next

\* Of a resource that is no cache, only the one at hand loses files.
LEMMA OnlyAtHand ==
    ASSUME Governed, Answered, Unlink, NEW g \in Resources \ Caches, Removed(g) PROVE g = First(op.todo)
<1>1. PICK m \in Members(g) : disk[g][m] # Gone /\ disk'[g][m] = Gone BY DEF Removed
<1>2. disk' # disk BY <1>1
<1>. QED BY <1>1, <1>2, Unlinks

LEMMA ReleaseStep ==
    ASSUME Governed, Answered, Vetted, [Next]_vars PROVE [NoneNeeded /\ NewestKept]_vars
<1>1. NoneNeeded
  <2>. SUFFICES ASSUME NEW g \in Resources, Removed(g), NEW r, r = First(op.todo)
                PROVE  /\ clock >= batches[op.n].purgeAfter
                       /\ ~reg[r].pinned /\ r \notin facts.needed /\ ~InUse(r)
                       /\ r \in Runs => Due(r, clock)
    BY Zenon DEF NoneNeeded
  <2>1. Unlink BY OnlyUnlinks
  <2>2. op.call = "purge" /\ op.at = "unlink" /\ r \in Resources BY <2>1, Unlinks
  <2>3. Dispensable(r, Evidence(r), clock) BY <2>2 DEF Vetted, ReleaseInv
  <2>4. clock >= batches[op.n].purgeAfter BY <2>2 DEF Governed, OpInv, Working
  <2>5. ~reg[r].pinned /\ r \notin facts.needed BY <2>3 DEF Dispensable, Evidence
  <2>6. r \in Runs => Due(r, clock) BY <2>3 DEF Dispensable, Evidence, Due
  <2>7. ~InUse(r)
    <3>. SUFFICES ASSUME InUse(r) PROVE FALSE
      OBVIOUS
    <3>1. r \in Base /\ r = First(Base) BY DEF InUse
    <3>2. BaseOf(reg) = Base BY DEF BaseOf, Base, Registered
    <3>3. PICK q \in Runs : Registered(q) /\ Whole(q) BY DEF InUse
    <3>4. q \in Resources /\ q # r BY <3>1, Kinds DEF Base, Directories
    <3>5. q \in Evidence(r).others BY <3>3, <3>4 DEF Evidence
    <3>6. Evidence(r).reg = reg BY DEF Evidence
    <3>. QED BY <2>3, <3>1, <3>2, <3>5, <3>6 DEF Dispensable
  <2>. QED BY <2>4, <2>5, <2>6, <2>7
<1>2. NewestKept
  <2>. SUFFICES ASSUME NEW r \in Backups \cup Bundles, Removed(r)
                PROVE  Cardinality({q \in Kind(r) \ {r} : /\ Registered(q) /\ AllAt(q, reg[q].at)
                                                           /\ reg[q].verified # Never}) >= Keep
    BY DEF NewestKept
  <2>. DEFINE kept == {q \in Kind(r) \ {r} : Registered(q) /\ AllAt(q, reg[q].at) /\ reg[q].verified # Never}
              left == {q \in (Kind(r) \cap Evidence(r).others) \ {r} : Evidence(r).reg[q].verified # Never}
  <2>1. r \in Resources \ Caches BY ConstantsAssumption DEF Directories, Resources
  <2>2. Unlink BY <2>1, OnlyUnlinks
  <2>3. r = First(op.todo) BY <2>1, <2>2, OnlyAtHand
  <2>4. op.at = "unlink" BY <2>2, Unlinks
  <2>5. Dispensable(r, Evidence(r), clock) BY <2>3, <2>4 DEF Vetted, ReleaseInv
  <2>6. Cardinality(left) >= Keep BY <2>5 DEF Dispensable
  <2>7. left \subseteq kept
    <3>. SUFFICES ASSUME NEW q \in left PROVE q \in kept
      OBVIOUS
    <3>1. q \in Kind(r) /\ q # r /\ reg[q].verified # Never /\ Registered(q) /\ Whole(q) BY DEF Evidence
    <3>2. AllAt(q, reg[q].at)
      <4>1. CASE q \in Bundles BY <3>1, <4>1 DEF Whole
      <4>2. CASE q \notin Bundles
        <5>1. q \in Backups BY <3>1, <4>2 DEF Kind
        <5>2. q \notin Caches BY <5>1, ConstantsAssumption
        <5>3. SamePath(q) = {q} /\ Members(q) = {"tree"} BY <4>2, <5>2 DEF SamePath, Members
        <5>4. TreesAt(q, reg[q].at) # {} BY <3>1, <4>2 DEF Whole
        <5>. QED BY <5>3, <5>4 DEF TreesAt, AllAt
      <4>. QED BY <4>1, <4>2
    <3>. QED BY <3>1, <3>2
  <2>8. IsFiniteSet(kept) /\ IsFiniteSet(left)
    <3>1. Kind(r) \subseteq Resources BY DEF Kind, Resources, Directories
    <3>2. kept \in SUBSET Resources /\ left \in SUBSET Resources BY <3>1
    <3>. QED BY <3>2, ConstantsAssumption, FS_Subset
  <2>9. Cardinality(left) <= Cardinality(kept) BY <2>7, <2>8, FS_Subset
  <2>10. Cardinality(left) \in Nat /\ Cardinality(kept) \in Nat /\ Keep \in Nat
    BY <2>8, FS_CardinalityType, ConstantsAssumption
  <2>. HIDE DEF left, kept
  <2>11. Cardinality(kept) >= Keep BY <2>6, <2>9, <2>10
  <2>. QED BY <2>11 DEF kept
<1>. QED BY <1>1, <1>2

\* What is released was not needed and leaves what the policy keeps: neither what is registered, pinned, finished
\* and referred to between the preview and the release, nor a death in the middle of it, makes a file go that the
\* policy would not let go at that moment (retention-executor.ts, retention-policy.ts).
THEOREM ReleasesSafe == Spec => ReleaseIsSafe
<1>1. Init => Vetted
  <2>. SUFFICES ASSUME Init PROVE Vetted
    OBVIOUS
  <2>1. batches = <<>> /\ op = Idle BY DEF Init
  <2>2. Batches = {} BY <2>1 DEF Batches
  <2>. QED BY <2>1, <2>2 DEF Vetted, GuardInv, ReleaseInv, Idle
<1>2. Governed /\ Answered /\ Vetted /\ [Next]_vars => Vetted' BY NextVetted
<1>3. Governed /\ Answered /\ Vetted /\ [Next]_vars => [NoneNeeded /\ NewestKept]_vars BY ReleaseStep
<1>. QED BY <1>1, <1>2, <1>3, GovernedAlways, PTL DEF Spec, ReleaseIsSafe

-----------------------------------------------------------------------------
(* The mirrored projects (ProjectMapping).                                 *)

\* What the row of a session and the user's last word on it say of each other.
RowFits(R, w) ==
    /\ ~R.there => ~R.dead /\ R.tombstone = "none" /\ w = "none"
    /\ ~R.dead => R.tombstone # "active"
    /\ R.tombstone = "none" => R.marker = "none"
    /\ w = "deleted" => R.dead /\ (R.tombstone = "active" => R.marker # "current")
    /\ w = "restored" => ~R.dead
    /\ R.dead /\ w # "deleted" => R.tombstone = "active" /\ R.marker = "current"

\* An import was begun under a list that was saved, for a project of it.
PassFits ==
    pass = <<>> \/ \E q \in [thread : Threads, scope : 0..Len(saved), project : M!Homes] :
                      pass = <<q>> /\ (q.scope # 0 => q.project \in saved[q.scope])

\* The transaction of an activation has taken mirrors in, and changed nothing else.
TakenIn(rows) ==
    \A s \in M!Sessions :
       /\ rows[s].dead = session[s].dead /\ rows[s].tombstone = session[s].tombstone
       /\ rows[s].marker = session[s].marker /\ (session[s].there => rows[s].there)
       /\ s \notin Threads => rows[s] = session[s]

Activations == [session : [M!Sessions -> M!Row], shown : SUBSET M!Logical, admitted : [Threads -> M!Homes]]
ActivationFits == activation = <<>> \/ \E a \in Activations : activation = <<a>> /\ TakenIn(a.session)

RowsFit == \A s \in M!Sessions : RowFits(session[s], wish[s])

MappingTyped ==
    /\ home \in [Threads -> M!Homes]
    /\ policy \in [keys : SUBSET Projects, active : 0..MaxSaves, activeKeys : SUBSET Projects]
    /\ saved \in Seq(SUBSET Projects) /\ Len(saved) <= MaxSaves
    /\ session \in [M!Sessions -> M!Row] /\ shown \subseteq M!Logical
    /\ up \in BOOLEAN /\ wish \in [M!Sessions -> {"none", "deleted", "restored"}]
    /\ admitted \in [Threads -> M!Homes]
    /\ moves \in 0..MaxMoves /\ orders \in 0..MaxOrders

MappingIInv ==
    /\ MappingTyped /\ PassFits /\ ActivationFits /\ policy.active <= Len(saved)
    /\ M!SavedIsKept /\ RowsFit /\ M!LiveIsInScope /\ M!LocalIsKept /\ M!LiveIsShown

LEMMA MappingHolds ==
    ASSUME MappingIInv
    PROVE  /\ M!TypeOK /\ M!SavedIsKept /\ M!DeletedStaysDeleted /\ M!RemovalIsReversible
           /\ M!LiveIsInScope /\ M!LocalIsKept /\ M!LiveIsShown
<1>1. M!DeletedStaysDeleted /\ M!RemovalIsReversible
  BY DEF MappingIInv, RowsFit, RowFits, M!DeletedStaysDeleted, M!RemovalIsReversible
<1>2. M!TypeOK
  <2>1. saved \in UNION {[1..n -> SUBSET Projects] : n \in 0..MaxSaves}
    <3>1. saved \in [1..Len(saved) -> SUBSET Projects] /\ Len(saved) \in 0..MaxSaves
      BY MappingAssumption DEF MappingIInv, MappingTyped, MappingAssumption
    <3> QED BY <3>1
  <2>2. \A i \in DOMAIN pass : pass[i] \in [thread : Threads, scope : 0..MaxSaves, project : M!Homes]
    <3>1. CASE pass = <<>>
      BY <3>1
    <3>2. CASE pass # <<>>
      <4>1. PICK q \in [thread : Threads, scope : 0..Len(saved), project : M!Homes] : pass = <<q>>
        BY <3>2 DEF MappingIInv, PassFits
      <4>2. q \in [thread : Threads, scope : 0..MaxSaves, project : M!Homes]
        <5>1. 0..Len(saved) \subseteq 0..MaxSaves
          BY MappingAssumption DEF MappingIInv, MappingTyped, MappingAssumption
        <5> QED BY <4>1, <5>1
      <4>3. DOMAIN pass = {1} /\ pass[1] = q
        BY <4>1
      <4> QED BY <4>2, <4>3
    <3> QED BY <3>1, <3>2
  <2>3. \A i \in DOMAIN activation : activation[i] \in Activations
    <3>1. CASE activation = <<>>
      BY <3>1
    <3>2. CASE activation # <<>>
      <4>1. PICK a \in Activations : activation = <<a>>
        BY <3>2 DEF MappingIInv, ActivationFits
      <4>2. DOMAIN activation = {1} /\ activation[1] = a
        BY <4>1
      <4> QED BY <4>2
    <3> QED BY <3>1, <3>2
  <2> QED BY <2>1, <2>2, <2>3 DEF MappingIInv, MappingTyped, Activations, M!TypeOK
<1> QED BY <1>1, <1>2 DEF MappingIInv

LEMMA MappingInit == ASSUME M!Init PROVE MappingIInv
<1> USE DEF M!Init
<1>1. PICK old \in SUBSET Natives :
         session = [s \in M!Sessions |-> IF s \in old THEN [M!NoRow EXCEPT !.there = TRUE, !.project = "server"] ELSE M!NoRow]
  OBVIOUS
<1>2. \A s \in M!Sessions :
         /\ session[s] \in M!Row /\ ~session[s].dead /\ session[s].tombstone = "none" /\ session[s].marker = "none"
         /\ wish[s] = "none" /\ session[s].project \in {"server", "outside"} /\ (session[s].there => s \in Natives)
  BY <1>1 DEF M!NoRow, M!Row, M!Logical, M!Homes
<1>3. MappingTyped
  <2>1. session \in [M!Sessions -> M!Row]
    BY <1>1, <1>2
  <2>2. shown \subseteq M!Logical
    BY <1>2 DEF M!Logical, M!Sessions, M!Homes
  <2>3. 0 \in 0..MaxMoves /\ 0 \in 0..MaxSaves /\ 0 \in 0..MaxOrders
    BY MappingAssumption DEF MappingAssumption
  <2>4. saved \in Seq(SUBSET Projects) /\ Len(saved) <= MaxSaves
    BY <2>3
  <2>5. policy \in [keys : SUBSET Projects, active : 0..MaxSaves, activeKeys : SUBSET Projects]
    BY <2>3
  <2>6. admitted \in [Threads -> M!Homes] /\ wish \in [M!Sessions -> {"none", "deleted", "restored"}]
    BY DEF M!Homes
  <2> QED BY <2>1, <2>2, <2>3, <2>4, <2>5, <2>6 DEF MappingTyped
<1>4. RowsFit
  BY <1>2 DEF RowsFit, RowFits
<1>5. PassFits /\ ActivationFits
  BY DEF PassFits, ActivationFits
<1>6. policy.active <= Len(saved) /\ M!SavedIsKept /\ M!LiveIsInScope
  BY DEF M!SavedIsKept, M!LiveIsInScope
<1>7. M!LocalIsKept
  BY <1>2 DEF M!LocalIsKept, M!Sessions
<1>8. M!LiveIsShown
  BY <1>2 DEF M!LiveIsShown, M!Live, M!Sessions
<1> QED BY <1>3, <1>4, <1>5, <1>6, <1>7, <1>8 DEF MappingIInv

\* One row changes, and with it the user's word, what is shown and what its mirror was taken in for.
LEMMA RowChanges ==
    ASSUME MappingIInv, NEW s \in M!Sessions, M!QueueIsFree, activation' = <<>>, pass' \in {pass, <<>>},
           UNCHANGED <<home, policy, saved, moves>>, orders' \in 0..MaxOrders, up' \in BOOLEAN,
           session' \in [M!Sessions -> M!Row], wish' \in [M!Sessions -> {"none", "deleted", "restored"}],
           admitted' \in [Threads -> M!Homes], shown \subseteq shown', shown' \subseteq M!Logical,
           \A o \in M!Sessions \ {s} : session'[o] = session[o] /\ wish'[o] = wish[o],
           \A t \in Threads \ {s} : admitted'[t] = admitted[t],
           RowFits(session'[s], wish'[s]),
           M!Live(session', s) => session'[s].project \in shown',
           s \in Natives /\ session'[s].project = "local" /\ session'[s].dead => wish'[s] = "deleted",
           s \in Threads /\ policy.active # 0 /\ M!Live(session', s) =>
               admitted'[s] \in policy.activeKeys \/ wish'[s] = "restored"
    PROVE  MappingIInv'
<1>1. MappingTyped'
  BY DEF MappingIInv, MappingTyped
<1>2. RowsFit'
  BY DEF MappingIInv, RowsFit
<1>3. PassFits' /\ ActivationFits'
  BY DEF MappingIInv, PassFits, ActivationFits
<1>4. (policy.active <= Len(saved))' /\ M!SavedIsKept'
  BY DEF MappingIInv, M!SavedIsKept
<1>5. M!LiveIsInScope'
  BY DEF MappingIInv, M!LiveIsInScope, M!Live, M!Sessions
<1>6. M!LocalIsKept'
  BY DEF MappingIInv, M!LocalIsKept, M!Sessions
<1>7. M!LiveIsShown'
  BY DEF MappingIInv, M!LiveIsShown, M!Live
<1> QED BY <1>1, <1>2, <1>3, <1>4, <1>5, <1>6, <1>7 DEF MappingIInv

\* No row changes, and no list.
LEMMA RowsRest ==
    ASSUME MappingIInv, UNCHANGED <<policy, saved, session, shown, wish, admitted, orders>>,
           home' \in [Threads -> M!Homes], moves' \in 0..MaxMoves, up' \in BOOLEAN, PassFits', ActivationFits'
    PROVE  MappingIInv'
<1>1. MappingTyped'
  BY DEF MappingIInv, MappingTyped
<1>2. RowsFit' /\ (policy.active <= Len(saved))' /\ M!SavedIsKept' /\ M!LiveIsInScope' /\ M!LocalIsKept' /\ M!LiveIsShown'
  BY DEF MappingIInv, RowsFit, M!SavedIsKept, M!LiveIsInScope, M!LocalIsKept, M!LiveIsShown, M!Live
<1> QED BY <1>1, <1>2 DEF MappingIInv

LEMMA PassRests == ASSUME MappingIInv, UNCHANGED <<pass, saved>> PROVE PassFits'
  BY DEF MappingIInv, PassFits

LEMMA ActivationRests == ASSUME MappingIInv, UNCHANGED <<activation, session>> PROVE ActivationFits'
  BY DEF MappingIInv, ActivationFits, TakenIn

LEMMA MoveKeeps == ASSUME MappingIInv, NEW t \in Threads, NEW p \in M!Homes, M!Move(t, p) PROVE MappingIInv'
<1> USE DEF M!Move
<1>1. home' \in [Threads -> M!Homes] /\ up' \in BOOLEAN
  BY DEF MappingIInv, MappingTyped
<1>2. moves' \in 0..MaxMoves
  BY MappingAssumption DEF MappingIInv, MappingTyped, MappingAssumption
<1> QED BY <1>1, <1>2, PassRests, ActivationRests, RowsRest

LEMMA SelectKeeps == ASSUME MappingIInv, NEW t \in Threads, M!Select(t) PROVE MappingIInv'
<1> DEFINE q == [thread |-> t, scope |-> policy.active, project |-> home[t]]
<1> USE DEF M!Select
<1>1. home' \in [Threads -> M!Homes] /\ up' \in BOOLEAN /\ moves' \in 0..MaxMoves
  BY DEF MappingIInv, MappingTyped
<1>2. PassFits'
  <2>1. policy.active \in 0..Len(saved) /\ Len(saved) \in Nat
    BY MappingAssumption DEF MappingIInv, MappingTyped, MappingAssumption
  <2>2. q \in [thread : Threads, scope : 0..Len(saved), project : M!Homes]
    BY <2>1 DEF MappingIInv, MappingTyped
  <2>3. q.scope # 0 => q.project \in saved[q.scope]
    BY DEF MappingIInv, M!SavedIsKept, M!InScope
  <2>4. pass' = <<q>> /\ saved' = saved
    OBVIOUS
  <2> HIDE DEF q, M!Select
  <2> QED BY <2>2, <2>3, <2>4 DEF PassFits
<1> QED BY <1>1, <1>2, ActivationRests, RowsRest

\* A list is saved behind the others.
LEMMA SaveKeeps == ASSUME MappingIInv, NEW keys \in SUBSET Projects, M!Save(keys) PROVE MappingIInv'
<1>1. /\ activation = <<>> /\ Len(saved) < MaxSaves /\ saved' = Append(saved, keys)
      /\ policy' = [policy EXCEPT !.keys = keys]
      /\ UNCHANGED <<home, session, shown, pass, activation, up, wish, admitted, moves, orders>>
  BY DEF M!Save, M!QueueIsFree
<1>2. saved \in Seq(SUBSET Projects) /\ Len(saved) \in Nat /\ policy.active \in 0..MaxSaves /\ policy.active <= Len(saved)
  BY DEF MappingIInv, MappingTyped
<1>3. /\ saved' \in Seq(SUBSET Projects) /\ Len(saved') = Len(saved) + 1 /\ saved'[Len(saved')] = keys
      /\ \A i \in 1..Len(saved) : saved'[i] = saved[i]
  BY <1>1, <1>2
<1>4. policy' \in [keys : SUBSET Projects, active : 0..MaxSaves, activeKeys : SUBSET Projects]
      /\ policy'.keys = keys /\ policy'.active = policy.active /\ policy'.activeKeys = policy.activeKeys
  BY <1>1 DEF MappingIInv, MappingTyped
<1>5. MappingTyped'
  <2>1. Len(saved') <= MaxSaves
    BY <1>1, <1>2, <1>3, MappingAssumption DEF MappingAssumption
  <2> QED BY <1>1, <1>3, <1>4, <2>1 DEF MappingIInv, MappingTyped
<1>6. PassFits'
  <2>1. CASE pass = <<>>
    BY <1>1, <2>1 DEF PassFits
  <2>2. CASE pass # <<>>
    <3>1. PICK q \in [thread : Threads, scope : 0..Len(saved), project : M!Homes] :
             pass = <<q>> /\ (q.scope # 0 => q.project \in saved[q.scope])
      BY <2>2 DEF MappingIInv, PassFits
    <3>2. q.scope \in 0..Len(saved)
      BY <3>1
    <3>3. q.scope \in 0..Len(saved') /\ (q.scope # 0 => q.scope \in 1..Len(saved))
      BY <1>2, <1>3, <3>2
    <3>4. q \in [thread : Threads, scope : 0..Len(saved'), project : M!Homes]
      BY <3>1, <3>3
    <3>5. q.scope # 0 => q.project \in saved'[q.scope]
      BY <1>3, <3>1, <3>3
    <3> QED BY <1>1, <3>1, <3>4, <3>5 DEF PassFits
  <2> QED BY <2>1, <2>2
<1>7. ActivationFits'
  BY <1>1, ActivationRests
<1>8. M!SavedIsKept'
  <2>1. saved' # <<>> /\ policy'.keys = saved'[Len(saved')]
    BY <1>2, <1>3, <1>4
  <2>2. policy'.activeKeys = (IF policy'.active = 0 THEN {} ELSE saved'[policy'.active])
    <3>1. policy.active # 0 => policy.active \in 1..Len(saved)
      BY <1>2
    <3> QED BY <1>3, <1>4, <3>1 DEF MappingIInv, M!SavedIsKept
  <2> QED BY <2>1, <2>2 DEF M!SavedIsKept
<1>9. (policy.active <= Len(saved))'
  BY <1>2, <1>3, <1>4
<1>10. RowsFit' /\ M!LiveIsInScope' /\ M!LocalIsKept' /\ M!LiveIsShown'
  BY <1>1, <1>4 DEF MappingIInv, RowsFit, M!LiveIsInScope, M!LocalIsKept, M!LiveIsShown, M!Live
<1> QED BY <1>5, <1>6, <1>7, <1>8, <1>9, <1>10 DEF MappingIInv

\* What is known of a session.
LEMMA RowKnown ==
    ASSUME MappingIInv, NEW s \in M!Sessions
    PROVE  /\ session[s] \in M!Row /\ RowFits(session[s], wish[s]) /\ wish[s] \in {"none", "deleted", "restored"}
           /\ M!Live(session, s) => session[s].project \in shown
           /\ s \in Natives /\ session[s].project = "local" /\ session[s].dead => wish[s] = "deleted"
           /\ s \in Threads /\ policy.active # 0 /\ M!Live(session, s) =>
                 admitted[s] \in policy.activeKeys \/ wish[s] = "restored"
           /\ shown \subseteq M!Logical /\ up \in BOOLEAN /\ orders \in 0..MaxOrders
  BY DEF MappingIInv, MappingTyped, RowsFit, M!LiveIsShown, M!LocalIsKept, M!LiveIsInScope

\* A mirror is committed, or its import ends with another list or another project.
LEMMA CommitKeeps == ASSUME MappingIInv, M!Commit PROVE MappingIInv'
<1>1. PICK q \in [thread : Threads, scope : 0..Len(saved), project : M!Homes] :
         pass = <<q>> /\ (q.scope # 0 => q.project \in saved[q.scope])
  BY DEF MappingIInv, PassFits, M!Commit
<1>2. /\ activation = <<>> /\ activation' = <<>> /\ pass' = <<>> /\ pass[1] = q
      /\ UNCHANGED <<home, policy, saved, up, wish, moves, orders>>
  BY <1>1 DEF M!Commit, M!QueueIsFree
<1>3. CASE q.scope = policy.active /\ (policy.active # 0 => home[q.thread] = q.project)
  <2> DEFINE t == q.thread
  <2>1. /\ session' = [session EXCEPT ![t].there = TRUE, ![t].project = q.project]
        /\ shown' = shown \cup {q.project} /\ admitted' = [admitted EXCEPT ![t] = q.project]
    BY <1>2, <1>3 DEF M!Commit, M!Mirrored
  <2>2. t \in Threads /\ t \in M!Sessions /\ t \notin Natives /\ q.project \in M!Homes /\ q.project \in M!Logical
    BY <1>1, MappingAssumption DEF MappingAssumption, M!Sessions, M!Logical
  <2>3. session[t] \in M!Row /\ RowFits(session[t], wish[t]) /\ shown \subseteq M!Logical
    BY <2>2, RowKnown
  <2> DEFINE R == [session[t] EXCEPT !.there = TRUE, !.project = q.project]
  <2>4. R \in M!Row /\ R.dead = session[t].dead /\ R.tombstone = session[t].tombstone /\ R.marker = session[t].marker
        /\ R.project = q.project /\ R.there
    BY <2>2, <2>3 DEF M!Row
  <2>5. session' \in [M!Sessions -> M!Row] /\ session'[t] = R /\ \A o \in M!Sessions \ {t} : session'[o] = session[o]
    BY <2>1, <2>2, <2>4 DEF MappingIInv, MappingTyped
  <2>6. admitted' \in [Threads -> M!Homes] /\ admitted'[t] = q.project /\ \A o \in Threads \ {t} : admitted'[o] = admitted[o]
    BY <2>1, <2>2 DEF MappingIInv, MappingTyped
  <2>7. RowFits(session'[t], wish'[t])
    BY <1>2, <2>3, <2>4, <2>5 DEF RowFits
  <2>8. policy.active # 0 => admitted'[t] \in policy.activeKeys
    BY <1>1, <1>3, <2>6 DEF MappingIInv, M!SavedIsKept
  <2>9. wish' \in [M!Sessions -> {"none", "deleted", "restored"}] /\ orders' \in 0..MaxOrders /\ up' \in BOOLEAN
    BY <1>2 DEF MappingIInv, MappingTyped
  <2>10. M!Live(session', t) => session'[t].project \in shown'
    BY <2>1, <2>4, <2>5
  <2>11. shown \subseteq shown' /\ shown' \subseteq M!Logical
    BY <2>1, <2>2, <2>3
  <2> HIDE DEF t, R
  <2> QED BY <1>2, <2>2, <2>5, <2>6, <2>7, <2>8, <2>9, <2>10, <2>11, RowChanges DEF M!QueueIsFree
<1>4. CASE ~(q.scope = policy.active /\ (policy.active # 0 => home[q.thread] = q.project))
  <2>1. UNCHANGED <<session, shown, admitted>>
    BY <1>2, <1>4 DEF M!Commit
  <2>2. PassFits'
    BY <1>2 DEF PassFits
  <2>3. ActivationFits'
    BY <1>2 DEF ActivationFits
  <2>4. home' \in [Threads -> M!Homes] /\ moves' \in 0..MaxMoves /\ up' \in BOOLEAN
    BY <1>2 DEF MappingIInv, MappingTyped
  <2> QED BY <1>2, <2>1, <2>2, <2>3, <2>4, RowsRest
<1> QED BY <1>3, <1>4

\* A run starts without a list, or ends.
LEMMA UpKeeps == ASSUME MappingIInv, M!Start \/ M!End PROVE MappingIInv'
<1>1. up' \in BOOLEAN /\ UNCHANGED <<home, policy, saved, session, shown, pass, activation, wish, admitted, moves, orders>>
  BY DEF M!Start, M!End
<1>2. home' \in [Threads -> M!Homes] /\ moves' \in 0..MaxMoves
  BY <1>1 DEF MappingIInv, MappingTyped
<1> QED BY <1>1, <1>2, PassRests, ActivationRests, RowsRest

LEMMA AbandonKeeps == ASSUME MappingIInv, M!AbandonActivation PROVE MappingIInv'
<1>1. activation' = <<>> /\ UNCHANGED <<home, policy, saved, session, shown, pass, up, wish, admitted, moves, orders>>
  BY DEF M!AbandonActivation
<1>2. home' \in [Threads -> M!Homes] /\ moves' \in 0..MaxMoves /\ up' \in BOOLEAN
  BY <1>1 DEF MappingIInv, MappingTyped
<1>3. ActivationFits'
  BY <1>1 DEF ActivationFits
<1> QED BY <1>1, <1>2, <1>3, PassRests, RowsRest

\* An activation takes the listed mirrors in.
LEMMA BeginActivationKeeps == ASSUME MappingIInv, M!BeginActivation PROVE MappingIInv'
<1> DEFINE taken == {t \in Threads : home[t] \in policy.keys}
           rows  == [s \in M!Sessions |-> IF s \in taken THEN M!Mirrored(session, s, home[s])[s] ELSE session[s]]
           a     == [session |-> rows, shown |-> shown \cup {home[t] : t \in taken},
                     admitted |-> [t \in Threads |-> IF t \in taken THEN home[t] ELSE admitted[t]]]
<1>1. activation' = <<a>> /\ UNCHANGED <<home, policy, saved, session, shown, pass, up, wish, admitted, moves, orders>>
  BY DEF M!BeginActivation
<1>2. ASSUME NEW s \in M!Sessions
      PROVE  /\ rows[s] \in M!Row
             /\ rows[s].dead = session[s].dead /\ rows[s].tombstone = session[s].tombstone
             /\ rows[s].marker = session[s].marker /\ (session[s].there => rows[s].there)
             /\ s \notin Threads => rows[s] = session[s]
  <2>1. session[s] \in M!Row
    BY DEF MappingIInv, MappingTyped
  <2>2. CASE s \in taken
    <3>1. home[s] \in M!Logical
      BY <2>2 DEF MappingIInv, MappingTyped, M!Logical
    <3>2. rows[s] = [session[s] EXCEPT !.there = TRUE, !.project = home[s]]
      BY <2>2 DEF M!Mirrored, MappingIInv, MappingTyped
    <3> HIDE DEF rows, taken
    <3> QED BY <2>1, <2>2, <3>1, <3>2 DEF M!Row, taken
  <2>3. CASE s \notin taken
    BY <2>1, <2>3
  <2> QED BY <2>2, <2>3
<1>3. a \in Activations
  <2>1. rows \in [M!Sessions -> M!Row]
    BY <1>2
  <2>2. shown \cup {home[t] : t \in taken} \in SUBSET M!Logical
    BY DEF MappingIInv, MappingTyped, M!Logical
  <2>3. [t \in Threads |-> IF t \in taken THEN home[t] ELSE admitted[t]] \in [Threads -> M!Homes]
    BY DEF MappingIInv, MappingTyped
  <2> HIDE DEF rows, taken
  <2> QED BY <2>1, <2>2, <2>3 DEF Activations
<1>4. TakenIn(a.session)
  BY <1>2 DEF TakenIn
<1> HIDE DEF a
<1>5. ActivationFits'
  <2>1. TakenIn(a.session)'
    <3>1. ASSUME NEW b, b = a.session, TakenIn(b) PROVE TakenIn(b)'
      BY <1>1, <3>1 DEF TakenIn
    <3> QED BY <1>1, <1>4, <3>1 DEF a, TakenIn
  <2> QED BY <1>1, <1>3, <1>4 DEF ActivationFits, TakenIn
<1>6. home' \in [Threads -> M!Homes] /\ moves' \in 0..MaxMoves /\ up' \in BOOLEAN
  BY <1>1 DEF MappingIInv, MappingTyped
<1> QED BY <1>1, <1>5, <1>6, PassRests, RowsRest

\* A list takes effect on one row: first what went in with the activation, then the project's identity,
\* what the list takes out, what it takes in again and where the derived sessions belong.
LEMMA ActivatedRow ==
    ASSUME MappingIInv, NEW a \in Activations, TakenIn(a.session), NEW s \in M!Sessions,
           NEW rows, rows = M!Aliased(a.session), NEW gone, gone = M!RemovedFrom(rows),
           NEW back, back = M!Revived(gone, M!Restorable(rows)),
           NEW done, done = M!Regrouped(back, M!Kept(rows)),
           NEW w, w = (IF wish[s] = "restored" THEN "none" ELSE wish[s])
    PROVE  /\ done[s] \in M!Row /\ RowFits(done[s], w)
           /\ s \in Threads /\ home[s] \notin policy.keys => ~M!Live(done, s)
           /\ s \in Natives /\ done[s].project = "local" /\ done[s].dead => w = "deleted"
<1>1. /\ session[s] \in M!Row /\ RowFits(session[s], wish[s])
      /\ s \in Natives /\ session[s].project = "local" /\ session[s].dead => wish[s] = "deleted"
  BY RowKnown
<1>2. /\ a.session[s].dead = session[s].dead /\ a.session[s].tombstone = session[s].tombstone
      /\ a.session[s].marker = session[s].marker /\ (session[s].there => a.session[s].there)
      /\ s \notin Threads => a.session[s] = session[s]
  BY DEF TakenIn
<1>3. \A o \in M!Sessions : a.session[o] \in M!Row
  BY DEF Activations
<1>4. \A o \in M!Sessions : rows[o] \in M!Row
  <2>1. Renamed \in M!Logical
    BY MappingAssumption DEF MappingAssumption, M!Logical, M!Homes
  <2> QED BY <1>3, <2>1 DEF M!Aliased, M!Row
<1>5. /\ rows[s].there = a.session[s].there /\ rows[s].dead = session[s].dead
      /\ rows[s].tombstone = session[s].tombstone /\ rows[s].marker = session[s].marker
      /\ rows[s].project = "local" => a.session[s].project = "local"
  BY <1>2, <1>3, MappingAssumption DEF M!Aliased, M!Row, MappingAssumption
<1>6. ASSUME NEW o \in M!Sessions
      PROVE  /\ gone[o] \in M!Row /\ gone[o].there = rows[o].there /\ gone[o].project = rows[o].project
             /\ IF M!Live(rows, o) /\ o \notin M!Kept(rows)
                THEN gone[o].dead /\ gone[o].tombstone = "active" /\ gone[o].marker = "current" ELSE gone[o] = rows[o]
  <2> DEFINE R == [rows[o] EXCEPT !.dead = TRUE, !.tombstone = "active", !.marker = "current"]
  <2>1. rows[o] \in M!Row
    BY <1>4
  <2>2. gone[o] = IF M!Live(rows, o) /\ o \notin M!Kept(rows) THEN R ELSE rows[o]
    BY DEF M!RemovedFrom
  <2>3. /\ R \in M!Row /\ R.there = rows[o].there /\ R.project = rows[o].project
        /\ R.dead /\ R.tombstone = "active" /\ R.marker = "current"
    BY <2>1 DEF M!Row
  <2> HIDE DEF R
  <2> QED BY <2>1, <2>2, <2>3
<1>7. IF M!Live(rows, s) /\ s \notin M!Kept(rows)
      THEN gone[s].dead /\ gone[s].tombstone = "active" /\ gone[s].marker = "current" ELSE gone[s] = rows[s]
  BY <1>6
<1>8. ASSUME NEW o \in M!Sessions
      PROVE  /\ back[o] \in M!Row /\ back[o].there = gone[o].there /\ back[o].project = gone[o].project
             /\ IF gone[o].dead /\ gone[o].tombstone = "active" /\ gone[o].marker = "current" /\ o \in M!Restorable(rows)
                THEN ~back[o].dead /\ back[o].tombstone = "restored" /\ back[o].marker = "none" ELSE back[o] = gone[o]
  <2> DEFINE R == [gone[o] EXCEPT !.dead = FALSE, !.tombstone = "restored", !.marker = "none"]
  <2>1. gone[o] \in M!Row
    BY <1>6
  <2>2. back[o] = IF gone[o].dead /\ gone[o].tombstone = "active" /\ gone[o].marker = "current" /\ o \in M!Restorable(rows)
                  THEN R ELSE gone[o]
    BY DEF M!Revived
  <2>3. /\ R \in M!Row /\ R.there = gone[o].there /\ R.project = gone[o].project
        /\ ~R.dead /\ R.tombstone = "restored" /\ R.marker = "none"
    BY <2>1 DEF M!Row
  <2> HIDE DEF R
  <2> QED BY <2>1, <2>2, <2>3
<1>9. IF gone[s].dead /\ gone[s].tombstone = "active" /\ gone[s].marker = "current" /\ s \in M!Restorable(rows)
      THEN ~back[s].dead /\ back[s].tombstone = "restored" /\ back[s].marker = "none" ELSE back[s] = gone[s]
  BY <1>8
<1>10. /\ done[s] \in M!Row /\ done[s].there = back[s].there /\ done[s].dead = back[s].dead
       /\ done[s].tombstone = back[s].tombstone /\ done[s].marker = back[s].marker
       /\ s \notin Children => done[s] = back[s]
  <2>1. s \in Children => M!Parent[s] \in M!Sessions
    BY MappingAssumption DEF MappingAssumption, M!Parent, M!Sessions
  <2> QED BY <1>8, <2>1 DEF M!Regrouped, M!Row
<1>11. RowFits(done[s], w)
  <2>1. RowFits(rows[s], wish[s])
    BY <1>1, <1>2, <1>5 DEF RowFits
  <2>2. RowFits(gone[s], w) /\ (wish[s] = "deleted" => gone[s] = rows[s])
    <3>1. CASE M!Live(rows, s) /\ s \notin M!Kept(rows)
      <4>1. gone[s].dead /\ gone[s].tombstone = "active" /\ gone[s].marker = "current" /\ gone[s].there
        BY <1>6, <1>7, <3>1 DEF M!Live
      <4>2. wish[s] # "deleted" /\ w # "deleted" /\ w # "restored"
        BY <2>1, <3>1 DEF RowFits, M!Live
      <4> QED BY <4>1, <4>2 DEF RowFits
    <3>2. CASE ~(M!Live(rows, s) /\ s \notin M!Kept(rows))
      BY <1>7, <2>1, <3>2 DEF RowFits
    <3> QED BY <3>1, <3>2
  <2>3. RowFits(back[s], w)
    <3>1. CASE gone[s].dead /\ gone[s].tombstone = "active" /\ gone[s].marker = "current" /\ s \in M!Restorable(rows)
      <4>1. ~back[s].dead /\ back[s].tombstone = "restored" /\ back[s].marker = "none" /\ back[s].there
        BY <1>8, <1>9, <2>2, <3>1 DEF RowFits
      <4>2. w # "deleted"
        BY <2>2, <3>1 DEF RowFits
      <4> QED BY <4>1, <4>2 DEF RowFits
    <3>2. CASE ~(gone[s].dead /\ gone[s].tombstone = "active" /\ gone[s].marker = "current" /\ s \in M!Restorable(rows))
      BY <1>9, <2>2, <3>2
    <3> QED BY <3>1, <3>2
  <2> QED BY <1>10, <2>3 DEF RowFits
<1>12. ASSUME s \in Threads, home[s] \notin policy.keys PROVE ~M!Live(done, s)
  <2>1. s \notin M!Restorable(rows) /\ s \notin M!Kept(rows)
    BY <1>12, MappingAssumption DEF MappingAssumption, M!Restorable, M!WithChildren, M!Kept
  <2> QED BY <1>6, <1>7, <1>8, <1>9, <1>10, <2>1 DEF M!Live
<1>13. ASSUME s \in Natives, done[s].project = "local", done[s].dead PROVE w = "deleted"
  <2>1. s \notin Threads /\ s \notin Children
    BY <1>13, MappingAssumption DEF MappingAssumption
  <2>2. back[s].project = "local" /\ back[s].dead /\ rows[s].project = "local"
    BY <1>6, <1>8, <1>10, <1>13, <2>1
  <2>3. back[s] = gone[s]
    BY <1>9, <2>2
  <2>4. gone[s] = rows[s]
    <3>1. M!Live(rows, s) => s \in M!Kept(rows)
      BY <1>13, <2>2 DEF M!Kept
    <3> QED BY <1>7, <3>1
  <2>5. session[s].dead /\ session[s].project = "local"
    BY <1>2, <1>5, <2>1, <2>2, <2>3, <2>4
  <2> QED BY <1>1, <1>13, <2>5
<1> QED BY <1>10, <1>11, <1>12, <1>13

LEMMA ActivateKeeps == ASSUME MappingIInv, M!Activate PROVE MappingIInv'
<1>1. PICK a \in Activations : activation = <<a>> /\ TakenIn(a.session)
  BY DEF MappingIInv, ActivationFits, M!Activate
<1>2. PICK rows : rows = M!Aliased(a.session)
  OBVIOUS
<1>3. PICK gone : gone = M!RemovedFrom(rows)
  OBVIOUS
<1>4. PICK back : back = M!Revived(gone, M!Restorable(rows))
  OBVIOUS
<1>5. PICK done : done = M!Regrouped(back, M!Kept(rows))
  OBVIOUS
<1>6. /\ session' = done
      /\ shown' = {p \in M!Logical : \E s \in M!Sessions : M!Live(done, s) /\ done[s].project = p}
      /\ admitted' = [t \in Threads |-> IF home[t] \in policy.keys THEN home[t] ELSE a.admitted[t]]
      /\ policy' = [policy EXCEPT !.active = Len(saved), !.activeKeys = policy.keys]
      /\ wish' = [s \in M!Sessions |-> IF wish[s] = "restored" THEN "none" ELSE wish[s]]
      /\ activation' = <<>> /\ up' = TRUE /\ UNCHANGED <<home, saved, pass, moves, orders>>
  <2>1. activation[1] = a
    BY <1>1
  <2> QED BY <1>2, <1>3, <1>4, <1>5, <2>1 DEF M!Activate
<1>7. ASSUME NEW s \in M!Sessions
      PROVE  /\ done[s] \in M!Row /\ RowFits(done[s], wish'[s])
             /\ s \in Threads /\ home[s] \notin policy.keys => ~M!Live(done, s)
             /\ s \in Natives /\ done[s].project = "local" /\ done[s].dead => wish'[s] = "deleted"
  <2>1. wish'[s] = (IF wish[s] = "restored" THEN "none" ELSE wish[s])
    BY <1>6
  <2>2. \A w : w = (IF wish[s] = "restored" THEN "none" ELSE wish[s]) =>
           /\ done[s] \in M!Row /\ RowFits(done[s], w)
           /\ s \in Threads /\ home[s] \notin policy.keys => ~M!Live(done, s)
           /\ s \in Natives /\ done[s].project = "local" /\ done[s].dead => w = "deleted"
    BY <1>1, <1>2, <1>3, <1>4, <1>5, ActivatedRow
  <2> QED BY <2>1, <2>2
<1>8. /\ policy' \in [keys : SUBSET Projects, active : 0..MaxSaves, activeKeys : SUBSET Projects]
      /\ policy'.keys = policy.keys /\ policy'.active = Len(saved) /\ policy'.activeKeys = policy.keys
      /\ Len(saved) \in Nat
  <2>1. Len(saved) \in 0..MaxSaves /\ policy.keys \in SUBSET Projects
    BY MappingAssumption DEF MappingIInv, MappingTyped, MappingAssumption
  <2>2. policy \in [keys : SUBSET Projects, active : 0..MaxSaves, activeKeys : SUBSET Projects]
    BY DEF MappingIInv, MappingTyped
  <2>3. /\ policy'.keys = policy.keys /\ policy'.active = Len(saved) /\ policy'.activeKeys = policy.keys
        /\ policy' = [keys |-> policy.keys, active |-> Len(saved), activeKeys |-> policy.keys]
    BY <1>6, <2>2
  <2> QED BY <2>1, <2>3
<1>9. MappingTyped'
  <2>1. done \in [M!Sessions -> M!Row]
    BY <1>5, <1>7 DEF M!Regrouped
  <2>2. wish' \in [M!Sessions -> {"none", "deleted", "restored"}]
    BY <1>6 DEF MappingIInv, MappingTyped
  <2>3. admitted' \in [Threads -> M!Homes]
    BY <1>6 DEF MappingIInv, MappingTyped, Activations
  <2>4. shown' \subseteq M!Logical /\ up' \in BOOLEAN
    BY <1>6
  <2> QED BY <1>6, <1>8, <2>1, <2>2, <2>3, <2>4 DEF MappingIInv, MappingTyped
<1>10. PassFits' /\ ActivationFits'
  BY <1>6, PassRests DEF ActivationFits
<1>11. (policy.active <= Len(saved))' /\ M!SavedIsKept'
  <2>1. saved = <<>> <=> Len(saved) = 0
    BY DEF MappingIInv, MappingTyped
  <2> QED BY <1>6, <1>8, <2>1 DEF MappingIInv, M!SavedIsKept
<1>12. RowsFit'
  BY <1>6, <1>7 DEF RowsFit
<1>13. M!LiveIsInScope'
  BY <1>6, <1>7, <1>8 DEF M!LiveIsInScope, M!Live, M!Sessions
<1>14. M!LocalIsKept'
  BY <1>6, <1>7 DEF M!LocalIsKept, M!Sessions
<1>15. M!LiveIsShown'
  BY <1>6, <1>7 DEF M!LiveIsShown, M!Live, M!Row
<1> QED BY <1>9, <1>10, <1>11, <1>12, <1>13, <1>14, <1>15 DEF MappingIInv

\* The first write to a mirror makes a session of DSH's own beside it.
LEMMA DeriveKeeps == ASSUME MappingIInv, NEW c \in Children, M!Derive(c) PROVE MappingIInv'
<1>1. /\ activation = <<>> /\ activation' = <<>> /\ ~session[c].there /\ M!Live(session, M!Parent[c])
      /\ session' = [session EXCEPT ![c].there = TRUE, ![c].project = session[M!Parent[c]].project]
      /\ UNCHANGED <<home, policy, saved, shown, pass, up, wish, admitted, moves, orders>>
  BY DEF M!Derive, M!QueueIsFree
<1>2. c \in M!Sessions /\ c \notin Natives /\ c \notin Threads /\ M!Parent[c] \in M!Sessions
  BY MappingAssumption DEF MappingAssumption, M!Parent, M!Sessions
<1>3. session[c] \in M!Row /\ RowFits(session[c], wish[c])
  BY <1>2, RowKnown
<1>4. session[M!Parent[c]] \in M!Row /\ session[M!Parent[c]].project \in shown /\ shown \subseteq M!Logical
  BY <1>1, <1>2, RowKnown
<1>5. session' \in [M!Sessions -> M!Row] /\ session'[c] = [session[c] EXCEPT !.there = TRUE, !.project = session[M!Parent[c]].project]
      /\ \A o \in M!Sessions \ {c} : session'[o] = session[o]
  <2>1. [session[c] EXCEPT !.there = TRUE, !.project = session[M!Parent[c]].project] \in M!Row
    BY <1>3, <1>4 DEF M!Row
  <2> QED BY <1>1, <1>2, <2>1 DEF MappingIInv, MappingTyped
<1>6. /\ session'[c].dead = session[c].dead /\ session'[c].tombstone = session[c].tombstone
      /\ session'[c].marker = session[c].marker /\ session'[c].there /\ session'[c].project \in shown
  BY <1>3, <1>4, <1>5 DEF M!Row
<1>7. RowFits(session'[c], wish'[c])
  BY <1>1, <1>3, <1>6 DEF RowFits
<1>8. /\ wish' \in [M!Sessions -> {"none", "deleted", "restored"}] /\ orders' \in 0..MaxOrders /\ up' \in BOOLEAN
      /\ admitted' \in [Threads -> M!Homes]
  BY <1>1 DEF MappingIInv, MappingTyped
<1> QED BY <1>1, <1>2, <1>4, <1>5, <1>6, <1>7, <1>8, RowChanges DEF M!QueueIsFree

\* A session is begun in the project's directory.
LEMMA CreateKeeps == ASSUME MappingIInv, NEW n \in Natives, M!Create(n) PROVE MappingIInv'
<1>1. PICK p \in {Renamed, "local"} :
         session' = [session EXCEPT ![n].there = TRUE, ![n].project = p] /\ shown' = shown \cup {p}
  BY DEF M!Create
<1>2. /\ activation = <<>> /\ activation' = <<>> /\ ~session[n].there
      /\ UNCHANGED <<home, policy, saved, pass, up, wish, admitted, moves, orders>>
  BY DEF M!Create, M!QueueIsFree
<1>3. n \in M!Sessions /\ n \notin Threads /\ p \in M!Logical
  BY <1>1, MappingAssumption DEF MappingAssumption, M!Sessions, M!Logical, M!Homes
<1>4. session[n] \in M!Row /\ RowFits(session[n], wish[n]) /\ shown \subseteq M!Logical
  BY <1>3, RowKnown
<1>5. session' \in [M!Sessions -> M!Row] /\ session'[n] = [session[n] EXCEPT !.there = TRUE, !.project = p]
      /\ \A o \in M!Sessions \ {n} : session'[o] = session[o]
  <2>1. [session[n] EXCEPT !.there = TRUE, !.project = p] \in M!Row
    BY <1>3, <1>4 DEF M!Row
  <2> QED BY <1>1, <1>3, <2>1 DEF MappingIInv, MappingTyped
<1>6. /\ session'[n].dead = session[n].dead /\ session'[n].tombstone = session[n].tombstone
      /\ session'[n].marker = session[n].marker /\ session'[n].there /\ session'[n].project = p
  BY <1>4, <1>5 DEF M!Row
<1>7. RowFits(session'[n], wish'[n]) /\ ~session'[n].dead
  BY <1>2, <1>4, <1>6 DEF RowFits
<1>8. /\ wish' \in [M!Sessions -> {"none", "deleted", "restored"}] /\ orders' \in 0..MaxOrders /\ up' \in BOOLEAN
      /\ admitted' \in [Threads -> M!Homes]
  BY <1>2 DEF MappingIInv, MappingTyped
<1>9. shown \subseteq shown' /\ shown' \subseteq M!Logical /\ session'[n].project \in shown'
  BY <1>1, <1>3, <1>4, <1>6
<1> QED BY <1>2, <1>3, <1>5, <1>6, <1>7, <1>8, <1>9, RowChanges DEF M!QueueIsFree

\* A command of the user: one row, and the user's word on it.
LEMMA CommandKeeps ==
    ASSUME MappingIInv, M!Command, NEW s \in M!Sessions, NEW R \in M!Row, NEW w \in {"none", "deleted", "restored"},
           session' = [session EXCEPT ![s] = R], wish' = [wish EXCEPT ![s] = w], RowFits(R, w),
           shown \subseteq shown', shown' \subseteq M!Logical, R.dead => w = "deleted",
           ~R.dead /\ R.there => w = "restored" /\ R.project \in shown'
    PROVE  MappingIInv'
<1>1. /\ activation = <<>> /\ activation' = <<>> /\ orders < MaxOrders /\ orders' = orders + 1
      /\ UNCHANGED <<home, policy, saved, pass, up, admitted, moves>>
  BY DEF M!Command, M!QueueIsFree
<1>2. orders' \in 0..MaxOrders /\ up' \in BOOLEAN /\ admitted' \in [Threads -> M!Homes]
  BY <1>1, MappingAssumption DEF MappingIInv, MappingTyped, MappingAssumption
<1>3. session' \in [M!Sessions -> M!Row] /\ session'[s] = R /\ \A o \in M!Sessions \ {s} : session'[o] = session[o]
  BY DEF MappingIInv, MappingTyped
<1>4. /\ wish' \in [M!Sessions -> {"none", "deleted", "restored"}] /\ wish'[s] = w
      /\ \A o \in M!Sessions \ {s} : wish'[o] = wish[o]
  BY DEF MappingIInv, MappingTyped
<1>5. M!Live(session', s) <=> ~R.dead /\ R.there
  BY <1>3 DEF M!Live
<1> QED BY <1>1, <1>2, <1>3, <1>4, <1>5, RowChanges DEF M!QueueIsFree

LEMMA DeletePendingKeeps == ASSUME MappingIInv, NEW s \in M!Sessions, M!DeletePending(s) PROVE MappingIInv'
<1> DEFINE R == [session[s] EXCEPT !.dead = TRUE]
<1>1. /\ M!Command /\ M!Live(session, s) /\ shown' = shown
      /\ session' = [session EXCEPT ![s] = R] /\ wish' = [wish EXCEPT ![s] = "deleted"]
  BY DEF M!DeletePending
<1>2. session[s] \in M!Row /\ RowFits(session[s], wish[s]) /\ shown \subseteq M!Logical
  BY RowKnown
<1>3. /\ R \in M!Row /\ R.there = session[s].there /\ R.dead
      /\ R.tombstone = session[s].tombstone /\ R.marker = session[s].marker
  BY <1>2 DEF M!Row
<1> HIDE DEF R
<1>4. RowFits(R, "deleted")
  BY <1>1, <1>2, <1>3 DEF RowFits, M!Live
<1> QED BY <1>1, <1>2, <1>3, <1>4, CommandKeeps

LEMMA DeleteKeeps == ASSUME MappingIInv, NEW s \in M!Sessions, M!Delete(s) PROVE MappingIInv'
<1> DEFINE R == [session[s] EXCEPT !.dead = TRUE, !.tombstone = "active", !.marker = IF @ = "none" THEN "none" ELSE "stale"]
<1>1. /\ M!Command /\ session[s].there /\ session[s].tombstone # "active" /\ shown' = shown
      /\ session' = [session EXCEPT ![s] = R] /\ wish' = [wish EXCEPT ![s] = "deleted"]
  BY DEF M!Delete
<1>2. session[s] \in M!Row /\ RowFits(session[s], wish[s]) /\ shown \subseteq M!Logical
  BY RowKnown
<1>3. R \in M!Row /\ R.there = session[s].there /\ R.dead /\ R.tombstone = "active" /\ R.marker # "current"
  BY <1>2 DEF M!Row
<1> HIDE DEF R
<1>4. RowFits(R, "deleted")
  BY <1>1, <1>2, <1>3 DEF RowFits
<1> QED BY <1>1, <1>2, <1>3, <1>4, CommandKeeps

LEMMA RestoreKeeps == ASSUME MappingIInv, NEW s \in M!Sessions, M!Restore(s) PROVE MappingIInv'
<1> DEFINE R == [session[s] EXCEPT !.dead = FALSE, !.tombstone = IF @ = "none" THEN "none" ELSE "restored"]
<1>1. /\ M!Command /\ session[s].dead /\ shown' = shown \cup {session[s].project}
      /\ session' = [session EXCEPT ![s] = R] /\ wish' = [wish EXCEPT ![s] = "restored"]
  BY DEF M!Restore
<1>2. session[s] \in M!Row /\ RowFits(session[s], wish[s]) /\ shown \subseteq M!Logical
  BY RowKnown
<1>3. /\ R \in M!Row /\ R.there = session[s].there /\ ~R.dead /\ R.project = session[s].project /\ R.marker = session[s].marker
      /\ R.tombstone = IF session[s].tombstone = "none" THEN "none" ELSE "restored"
  BY <1>2 DEF M!Row
<1>4. session[s].project \in M!Logical
  BY <1>2 DEF M!Row
<1> HIDE DEF R
<1>5. RowFits(R, "restored")
  BY <1>1, <1>2, <1>3 DEF RowFits
<1>6. R.project \in shown' /\ shown \subseteq shown' /\ shown' \subseteq M!Logical
  BY <1>1, <1>2, <1>3, <1>4
<1> QED BY <1>1, <1>3, <1>5, <1>6, CommandKeeps

LEMMA ReconcileInternalKeeps == ASSUME MappingIInv, NEW t \in Threads, M!ReconcileInternal(t) PROVE MappingIInv'
<1> DEFINE R == [session[t] EXCEPT !.dead = TRUE, !.tombstone = "active"]
<1>1. /\ M!Command /\ M!Live(session, t) /\ session[t].tombstone = "none" /\ shown' = shown
      /\ session' = [session EXCEPT ![t] = R] /\ wish' = [wish EXCEPT ![t] = "deleted"]
  BY DEF M!ReconcileInternal
<1>2. t \in M!Sessions
  BY DEF M!Sessions
<1>3. session[t] \in M!Row /\ RowFits(session[t], wish[t]) /\ shown \subseteq M!Logical
  BY <1>2, RowKnown
<1>4. R \in M!Row /\ R.there = session[t].there /\ R.dead /\ R.tombstone = "active" /\ R.marker = session[t].marker
  BY <1>3 DEF M!Row
<1> HIDE DEF R
<1>5. RowFits(R, "deleted")
  BY <1>1, <1>3, <1>4 DEF RowFits, M!Live
<1> QED BY <1>1, <1>2, <1>3, <1>4, <1>5, CommandKeeps

LEMMA MappingStep == ASSUME MappingIInv, M!Next PROVE MappingIInv'
<1>1. CASE \E t \in Threads : M!Select(t)
  BY <1>1, SelectKeeps
<1>2. CASE \E t \in Threads : M!ReconcileInternal(t)
  BY <1>2, ReconcileInternalKeeps
<1>3. CASE \E t \in Threads, p \in M!Homes : M!Move(t, p)
  BY <1>3, MoveKeeps
<1>4. CASE \E keys \in SUBSET Projects : M!Save(keys)
  BY <1>4, SaveKeeps
<1>5. CASE M!Commit
  BY <1>5, CommitKeeps
<1>6. CASE M!BeginActivation \/ M!AbandonActivation
  BY <1>6, BeginActivationKeeps, AbandonKeeps
<1>7. CASE M!Activate
  BY <1>7, ActivateKeeps
<1>8. CASE M!Start \/ M!End
  BY <1>8, UpKeeps
<1>9. CASE \E c \in Children : M!Derive(c)
  BY <1>9, DeriveKeeps
<1>10. CASE \E n \in Natives : M!Create(n)
  BY <1>10, CreateKeeps
<1>11. CASE \E s \in M!Sessions : M!DeletePending(s) \/ M!Delete(s) \/ M!Restore(s)
  BY <1>11, DeletePendingKeeps, DeleteKeeps, RestoreKeeps
<1> QED BY <1>1, <1>2, <1>3, <1>4, <1>5, <1>6, <1>7, <1>8, <1>9, <1>10, <1>11 DEF M!Next

LEMMA MappingRests == ASSUME MappingIInv, UNCHANGED projects PROVE MappingIInv'
<1>1. /\ UNCHANGED <<home, policy, saved, session, shown, pass, activation, up, wish, admitted, moves, orders>>
  BY DEF projects
<1>2. home' \in [Threads -> M!Homes] /\ moves' \in 0..MaxMoves /\ up' \in BOOLEAN
  BY <1>1 DEF MappingIInv, MappingTyped
<1> QED BY <1>1, <1>2, PassRests, ActivationRests, RowsRest

\* Lists, users and imports leave each other's word standing: what a user deleted stays deleted, what
\* a list took out can come back, mirrors keep to the active list and local sessions to themselves
\* (codex-project-mapping.ts, codex-project-mapping-reconcile.ts, codex-canonical-import.ts).
THEOREM MappingSafe == FocusSpec => []MappingInv
<1> DEFINE FocusIInv == focus = "mapping" => MappingIInv
<1>1. FocusInit => FocusIInv
  BY MappingInit DEF FocusInit
<1>2. FocusIInv /\ [FocusNext]_<<focus, vars, projects>> => FocusIInv'
  <2>1. ASSUME FocusIInv, FocusNext PROVE FocusIInv'
    BY <2>1, MappingStep, MappingRests DEF FocusNext
  <2>2. ASSUME FocusIInv, UNCHANGED <<focus, vars, projects>> PROVE FocusIInv'
    BY <2>2, MappingRests
  <2> QED BY <2>1, <2>2
<1>3. FocusIInv => MappingInv
  BY MappingHolds DEF MappingInv
<1> QED BY <1>1, <1>2, <1>3, PTL DEF FocusSpec
=============================================================================
