--------------------------- MODULE Library_proofs ---------------------------
(***************************************************************************)
(* What holds of the canonical library (Library) for any growth of the     *)
(* thread, any number of titles, edits and versions, and any imports and   *)
(* runs under way at once: what somebody wrote is neither lost nor undone, *)
(* and rows, versions, references and the observer's memory agree.         *)
(***************************************************************************)
EXTENDS MCLibrary, TLAPS

-----------------------------------------------------------------------------
(* The inductive invariant.                                                *)

VersionRow == [of : Ids, parent : Nat, body : 0..(2 * MaxBody), title : 0..MaxTitles]
SessionRow == [there : BOOLEAN, head : Nat, title : 0..MaxTitles, ws : Places, dead : BOOLEAN,
               tombstone : BOOLEAN, previous : Places]
ReaderRow  == [at : {"idle", "stamped", "head", "seen", "applied"}, stamp : Sources, expected : Nat, seen : Sources]
RunRow     == [up : BOOLEAN, base : Nat, title : 0..MaxTitles, ws : Places, parent : Nat]

LibraryTyped ==
    /\ thread \in Sources /\ titles \in 0..MaxTitles /\ edits \in 0..MaxEdits
    /\ versions \in Seq(VersionRow) /\ library \in [Ids -> SessionRow]
    /\ ref \in [version : Nat, body : 0..MaxBody] /\ space \in BOOLEAN
    /\ reader \in [Readers -> ReaderRow] /\ cached \in Sources /\ sync \in 0..NotSyncing /\ run \in RunRow

\* A parent is older than its version, and a body is as long as its session may be.
VersionsFit == \A v \in 1..Len(versions) :
    /\ versions[v].parent < v
    /\ versions[v].of \in {"mirror", "native"} => versions[v].body <= MaxBody

\* A row's head is a version of its own; a session that is not there has none, and is not deleted.
HeadsFit == \A i \in Ids :
    IF library[i].there THEN library[i].head \in 1..Len(versions) /\ HeadOf(i).of = i
    ELSE library[i].head = None /\ ~library[i].dead /\ ~library[i].tombstone

\* The thread is not empty, the mirror is no longer than it, and a reference is of the mirror.
MirrorFits ==
    /\ thread.body > 0 /\ ref.version <= Len(versions)
    /\ library["mirror"].there => Body("mirror") <= thread.body /\ ref.version > 0

\* What an import has read is what the thread was; as long as the head it expects is there, what it
\* saw is no older than that head; what it applied is there.
ReaderFits(r) ==
    LET i == reader[r]
    IN  /\ i.expected <= Len(versions) /\ i.stamp.body <= thread.body /\ i.seen.body <= thread.body
        /\ i.at = "seen" /\ library["mirror"].there /\ library["mirror"].head = i.expected =>
              Body("mirror") <= i.seen.body
        /\ r = "observer" =>
              /\ i.at # "idle" => i.stamp.body > 0
              /\ i.at = "seen" => i.stamp.body <= i.seen.body
              /\ i.at = "applied" => library["mirror"].there /\ i.stamp.body <= Body("mirror")

\* What the observer remembers is in the mirror.
CacheFits == cached.body > 0 => library["mirror"].there /\ cached.body <= Body("mirror")

\* What a run was lent are versions of the sessions, and the title is that of the version as long as
\* it is the head.
RunFits ==
    /\ run.base # None => run.base \in 1..Len(versions) /\ versions[run.base].of = "native"
    /\ run.parent # None => run.parent \in 1..Len(versions) /\ versions[run.parent].of = "mirror"
    /\ run.base # None /\ run.base = library["native"].head => run.title = library["native"].title

LibraryIInv ==
    /\ LibraryTyped /\ VersionsFit /\ HeadsFit /\ MirrorFits /\ (\A r \in Readers : ReaderFits(r)) /\ CacheFits
    /\ RunFits /\ RefIsMirror /\ TombstoneHolds

-----------------------------------------------------------------------------
(* What a write leaves behind.                                             *)

\* The bounds are numbers.
LEMMA Bounds == MaxBody \in Nat /\ MaxBody > 0 /\ MaxTitles \in Nat /\ MaxEdits \in Nat /\ MaxVersions \in Nat
BY LibraryAssumption DEF LibraryAssumption

\* A body is a number.
LEMMA Bodies ==
    /\ \A s \in Sources : s.body \in Nat /\ s.body <= MaxBody /\ s.title \in 0..MaxTitles
    /\ \A row \in VersionRow : row.body \in Nat
<1>1. \A s \in Sources : s.body \in 0..MaxBody /\ s.title \in 0..MaxTitles
  BY DEF Sources
<1>2. \A row \in VersionRow : row.body \in 0..(2 * MaxBody)
  BY DEF VersionRow
<1>3. \A b \in 0..MaxBody : b \in Nat /\ b <= MaxBody
  BY Bounds
<1>4. \A b \in 0..(2 * MaxBody) : b \in Nat
  BY Bounds
<1> QED  BY <1>1, <1>2, <1>3, <1>4

\* Versions are immutable.
Older == Len(versions') >= Len(versions) /\ \A v \in 1..Len(versions) : versions'[v] = versions[v]

\* Rows and versions fit each other after a step.
StoreFits == versions' \in Seq(VersionRow) /\ library' \in [Ids -> SessionRow] /\ VersionsFit' /\ HeadsFit'

\* A step writes a version of i with this parent, body and title, and the row of i alone.
Made(i, parent, body, title, ws) ==
    /\ Older /\ Len(versions') = Len(versions) + 1
    /\ versions'[Len(versions) + 1] = [of |-> i, parent |-> parent, body |-> body, title |-> title]
    /\ \A j \in Ids \ {i} : library'[j] = library[j]
    /\ library'[i].there /\ library'[i].head = Len(versions) + 1 /\ library'[i].title = title
    /\ library'[i].ws = ws
    /\ library'[i].tombstone = library[i].tombstone
    /\ library[i].tombstone => library'[i].dead = library[i].dead

\* A commit is one version and one row.
LEMMA CommitMakes ==
    ASSUME LibraryTyped, VersionsFit, HeadsFit, NEW i \in Ids, NEW parent \in 0..Len(versions),
           NEW body \in 0..(2 * MaxBody), NEW title \in 0..MaxTitles, NEW ws \in Places,
           NEW dead \in BOOLEAN, library[i].tombstone => dead = library[i].dead,
           i \in {"mirror", "native"} => body <= MaxBody, Commit(i, parent, body, title, ws, dead)
    PROVE  Made(i, parent, body, title, ws) /\ StoreFits
<1> DEFINE row == [of |-> i, parent |-> parent, body |-> body, title |-> title]
<1>1. PICK h \in Nat : h = Len(versions) + 1
  BY DEF LibraryTyped
<1>2. row \in VersionRow
  BY <1>1 DEF VersionRow
<1>3. versions' = Append(versions, row) /\ versions \in Seq(VersionRow)
  BY DEF Commit, LibraryTyped
<1>4. /\ versions' \in Seq(VersionRow) /\ Len(versions') = h /\ versions'[h] = row
      /\ \A v \in 1..Len(versions) : versions'[v] = versions[v]
  <2> HIDE DEF row
  <2> QED  BY <1>1, <1>2, <1>3
<1>5. Older
  BY <1>1, <1>4, <1>3 DEF Older
<1>6. library' = [library EXCEPT ![i].there = TRUE, ![i].head = h, ![i].title = title, ![i].ws = ws,
                                   ![i].dead = dead]
  BY <1>1 DEF Commit
<1>7. library \in [Ids -> SessionRow]
  BY DEF LibraryTyped
<1>8. \A j \in Ids \ {i} : library'[j] = library[j]
  BY <1>6, <1>7
<1>9. /\ library'[i].there /\ library'[i].head = h /\ library'[i].title = title /\ library'[i].ws = ws
      /\ library'[i].dead = dead /\ library'[i].tombstone = library[i].tombstone
  BY <1>6, <1>7 DEF SessionRow
<1>10. library' \in [Ids -> SessionRow]
  <2> DEFINE now == [library[i] EXCEPT !.there = TRUE, !.head = h, !.title = title, !.ws = ws, !.dead = dead]
  <2>1. now \in SessionRow
    BY <1>7 DEF SessionRow
  <2>2. library' = [library EXCEPT ![i] = now]
    BY <1>6, <1>7 DEF SessionRow
  <2> HIDE DEF now
  <2> QED  BY <2>1, <2>2, <1>7
<1>11. Made(i, parent, body, title, ws)
  BY <1>1, <1>4, <1>5, <1>8, <1>9 DEF Made
<1>12. VersionsFit'
  <2> SUFFICES ASSUME NEW v \in 1..h
               PROVE  /\ versions'[v].parent < v
                      /\ versions'[v].of \in {"mirror", "native"} => versions'[v].body <= MaxBody
    BY <1>4 DEF VersionsFit
  <2>1. CASE v = h
    BY <2>1, <1>1, <1>4, <1>3
  <2>2. CASE v # h
    <3>1. v \in 1..Len(versions)
      BY <2>2, <1>1, <1>3
    <3> QED  BY <3>1, <1>4 DEF VersionsFit
  <2> QED  BY <2>1, <2>2
<1>13. HeadsFit'
  <2> SUFFICES ASSUME NEW j \in Ids
               PROVE  IF library'[j].there
                      THEN library'[j].head \in 1..Len(versions') /\ versions'[library'[j].head].of = j
                      ELSE library'[j].head = None /\ ~library'[j].dead /\ ~library'[j].tombstone
    BY DEF HeadsFit, HeadOf
  <2>1. CASE j = i
    BY <2>1, <1>1, <1>3, <1>4, <1>9
  <2>2. CASE j # i
    <3>1. library'[j] = library[j]
      BY <2>2, <1>8
    <3>2. IF library[j].there
          THEN library[j].head \in 1..Len(versions) /\ versions[library[j].head].of = j
          ELSE library[j].head = None /\ ~library[j].dead /\ ~library[j].tombstone
      BY DEF HeadsFit, HeadOf
    <3> QED  BY <3>1, <3>2, <1>1, <1>3, <1>4
  <2> QED  BY <2>1, <2>2
<1> QED  BY <1>4, <1>10, <1>11, <1>12, <1>13 DEF StoreFits

\* A step that writes neither versions nor heads.
LEMMA RowsAlone ==
    ASSUME LibraryTyped, VersionsFit, HeadsFit, UNCHANGED versions, library' \in [Ids -> SessionRow],
           \A j \in Ids : /\ library'[j].there = library[j].there /\ library'[j].head = library[j].head
                          /\ ~library[j].there => ~library'[j].dead /\ ~library'[j].tombstone
    PROVE  StoreFits /\ Older
<1>1. Older
  BY DEF Older, LibraryTyped
<1>2. VersionsFit'
  BY DEF VersionsFit
<1>3. HeadsFit'
  <2> SUFFICES ASSUME NEW j \in Ids
               PROVE  IF library'[j].there
                      THEN library'[j].head \in 1..Len(versions') /\ versions'[library'[j].head].of = j
                      ELSE library'[j].head = None /\ ~library'[j].dead /\ ~library'[j].tombstone
    BY DEF HeadsFit, HeadOf
  <2> QED  BY DEF HeadsFit, HeadOf
<1> QED  BY <1>1, <1>2, <1>3 DEF StoreFits, LibraryTyped

\* Nothing written.
LEMMA NothingMade ==
    ASSUME LibraryTyped, VersionsFit, HeadsFit, UNCHANGED <<versions, library>>
    PROVE  StoreFits /\ Older
<1>1. \A j \in Ids : ~library[j].there => ~library[j].dead /\ ~library[j].tombstone
  BY DEF HeadsFit
<1> QED  BY <1>1, RowsAlone DEF LibraryTyped

\* The head of a session that is there.
LEMMA HeadThere ==
    ASSUME LibraryTyped, VersionsFit, HeadsFit, NEW i \in Ids, library[i].there
    PROVE  /\ library[i].head \in 1..Len(versions) /\ HeadOf(i) \in VersionRow /\ HeadOf(i).of = i
           /\ Body(i) \in 0..(2 * MaxBody) /\ (i \in {"mirror", "native"} => Body(i) <= MaxBody)
<1>1. library[i].head \in 1..Len(versions) /\ HeadOf(i).of = i
  BY DEF HeadsFit
<1>2. HeadOf(i) \in VersionRow
  BY <1>1 DEF HeadOf, LibraryTyped
<1>3. Body(i) \in 0..(2 * MaxBody)
  BY <1>2 DEF Body, VersionRow
<1>4. i \in {"mirror", "native"} => Body(i) <= MaxBody
  BY <1>1 DEF VersionsFit, HeadOf, Body
<1> QED  BY <1>1, <1>2, <1>3, <1>4

\* A title that changes is a version with the head's body; one that does not is nothing.
LEMMA RetitleMakes ==
    ASSUME LibraryTyped, VersionsFit, HeadsFit, NEW i \in Ids, library[i].there, NEW title \in 0..MaxTitles,
           Retitle(i, title)
    PROVE  /\ StoreFits
           /\ \/ UNCHANGED <<versions, library>> /\ library[i].title = title
              \/ Made(i, library[i].head, Body(i), title, library[i].ws)
<1>1. CASE library[i].title = title
  BY <1>1, NothingMade DEF Retitle
<1>2. CASE library[i].title # title
  <2>1. PICK h \in 1..Len(versions) : h = library[i].head
    BY HeadThere
  <2>2. PICK b \in 0..(2 * MaxBody) : b = Body(i)
    BY HeadThere
  <2>3. PICK ws \in Places : ws = library[i].ws
    BY DEF LibraryTyped, SessionRow
  <2>4. i \in {"mirror", "native"} => b <= MaxBody
    BY <2>2, HeadThere
  <2>8. PICK dead \in BOOLEAN : dead = library[i].dead
    BY DEF LibraryTyped, SessionRow
  <2>5. Commit(i, h, b, title, ws, dead)
    BY <1>2, <2>1, <2>2, <2>3, <2>8 DEF Retitle
  <2>6. h \in 0..Len(versions)
    BY DEF LibraryTyped
  <2>7. Made(i, h, b, title, ws) /\ StoreFits
    BY <2>4, <2>5, <2>6, <2>8, CommitMakes
  <2> QED  BY <2>7, <2>1, <2>2, <2>3
<1> QED  BY <1>1, <1>2

-----------------------------------------------------------------------------
(* What a write leaves of the rest.                                        *)

\* The mirror is never taken back, nor beyond the thread, and a head it is given is new.
MirrorFollows ==
    /\ library["mirror"].there => library'["mirror"].there /\ Body("mirror") <= Body("mirror")'
    /\ library'["mirror"].there =>
          /\ Body("mirror")' <= thread.body
          /\ \/ /\ library["mirror"].there /\ library'["mirror"].head = library["mirror"].head
                /\ Body("mirror")' = Body("mirror")
             \/ library'["mirror"].head > Len(versions)

\* A session's head and title stay together, or its head is new.
NativeFollows ==
    \/ library'["native"].head = library["native"].head /\ library'["native"].title = library["native"].title
    \/ library'["native"].head > Len(versions)

\* A row that keeps its head keeps its body.
LEMMA BodyStays ==
    ASSUME LibraryTyped, VersionsFit, HeadsFit, Older, NEW i \in Ids, library[i].there,
           library'[i].head = library[i].head
    PROVE  HeadOf(i)' = HeadOf(i) /\ Body(i)' = Body(i)
<1>1. library[i].head \in 1..Len(versions)
  BY HeadThere
<1>2. versions'[library[i].head] = versions[library[i].head]
  BY <1>1 DEF Older
<1> QED  BY <1>2 DEF HeadOf, Body

\* The mirror's row where another's is written.
LEMMA MirrorAlone ==
    ASSUME LibraryIInv, Older, library'["mirror"].there = library["mirror"].there,
           library'["mirror"].head = library["mirror"].head
    PROVE  MirrorFollows
<1> USE DEF LibraryIInv
<1>1. CASE library["mirror"].there
  <2>1. Body("mirror")' = Body("mirror")
    BY <1>1, BodyStays DEF Ids
  <2>2. Body("mirror") \in 0..(2 * MaxBody) /\ Body("mirror") <= thread.body
    BY <1>1, HeadThere DEF Ids, MirrorFits
  <2>3. PICK b \in 0..(2 * MaxBody) : b = Body("mirror")
    BY <2>2
  <2> QED  BY <1>1, <2>1, <2>2, <2>3 DEF MirrorFollows
<1>2. CASE ~library["mirror"].there
  BY <1>2 DEF MirrorFollows
<1> QED  BY <1>1, <1>2

\* What an import has read still holds where the mirror follows.
LEMMA ReaderStays ==
    ASSUME LibraryIInv, StoreFits, Older, MirrorFollows, thread.body <= thread'.body, thread' \in Sources,
           NEW r \in Readers, reader'[r] = reader[r]
    PROVE  ReaderFits(r)'
<1> DEFINE i == reader[r]
<1>1. i \in ReaderRow /\ i.stamp \in Sources /\ i.seen \in Sources /\ i.expected \in Nat
  BY DEF LibraryIInv, LibraryTyped, ReaderRow
<1>2. i.stamp.body \in Nat /\ i.seen.body \in Nat /\ thread.body \in Nat /\ thread'.body \in Nat
  BY <1>1, Bodies DEF LibraryIInv, LibraryTyped
<1>3. Len(versions) \in Nat /\ Len(versions') \in Nat /\ Len(versions) <= Len(versions')
  BY DEF LibraryIInv, LibraryTyped, Older, StoreFits
<1>4. ReaderFits(r)
  BY DEF LibraryIInv
<1>5. i.expected <= Len(versions') /\ i.stamp.body <= thread'.body /\ i.seen.body <= thread'.body
  BY <1>1, <1>2, <1>3, <1>4 DEF ReaderFits
<1>6. ASSUME i.at = "seen", library'["mirror"].there, library'["mirror"].head = i.expected
      PROVE  Body("mirror")' <= i.seen.body
  <2>1. library["mirror"].there /\ library'["mirror"].head = library["mirror"].head /\ Body("mirror")' = Body("mirror")
    BY <1>6, <1>1, <1>3, <1>4 DEF MirrorFollows, ReaderFits
  <2> QED  BY <2>1, <1>6, <1>4 DEF ReaderFits
<1>7. r = "observer" =>
         /\ i.at # "idle" => i.stamp.body > 0
         /\ i.at = "seen" => i.stamp.body <= i.seen.body
  BY <1>4 DEF ReaderFits
<1>8. ASSUME r = "observer", i.at = "applied"
      PROVE  library'["mirror"].there /\ i.stamp.body <= Body("mirror")'
  <2>1. library["mirror"].there /\ i.stamp.body <= Body("mirror")
    BY <1>8, <1>4 DEF ReaderFits
  <2>2. library'["mirror"].there /\ Body("mirror") <= Body("mirror")'
    BY <2>1 DEF MirrorFollows
  <2>3. Body("mirror") \in Nat
    BY <2>1, HeadThere DEF LibraryIInv, Ids
  <2>4. Body("mirror")' \in Nat
    <3>1. library'["mirror"].head \in 1..Len(versions')
      BY <2>2 DEF StoreFits, HeadsFit, Ids
    <3> QED  BY <3>1, Bodies DEF StoreFits, Body, HeadOf
  <2> QED  BY <2>1, <2>2, <2>3, <2>4, <1>2
<1> QED  BY <1>5, <1>6, <1>7, <1>8 DEF ReaderFits

\* The row of the mirror after a step.
LEMMA MirrorAfter ==
    ASSUME StoreFits, library'["mirror"].there
    PROVE  library'["mirror"].head \in 1..Len(versions') /\ Body("mirror")' \in Nat
<1>1. library'["mirror"].head \in 1..Len(versions')
  BY DEF StoreFits, HeadsFit, Ids
<1> QED  BY <1>1, Bodies DEF StoreFits, Body, HeadOf

\* What the observer remembers still is in the mirror.
LEMMA CacheStays ==
    ASSUME LibraryIInv, StoreFits, MirrorFollows, cached' = cached
    PROVE  CacheFits'
<1>1. CASE cached.body > 0
  <2>1. library["mirror"].there /\ cached.body <= Body("mirror")
    BY <1>1 DEF LibraryIInv, CacheFits
  <2>2. library'["mirror"].there /\ Body("mirror") <= Body("mirror")'
    BY <2>1 DEF MirrorFollows
  <2>3. Body("mirror") \in Nat /\ Body("mirror")' \in Nat /\ cached.body \in Nat
    BY <2>1, <2>2, HeadThere, MirrorAfter DEF LibraryIInv, LibraryTyped, Sources, Ids
  <2> QED  BY <2>1, <2>2, <2>3 DEF CacheFits
<1>2. CASE ~(cached.body > 0)
  BY <1>2 DEF CacheFits
<1> QED  BY <1>1, <1>2

\* The mirror's reference where its body stays.
LEMMA RefStays ==
    ASSUME LibraryIInv, StoreFits, Older, MirrorFollows, thread.body <= thread'.body, thread' \in Sources, ref' = ref,
           library'["mirror"].there => library["mirror"].there /\ Body("mirror")' = Body("mirror")
    PROVE  MirrorFits' /\ RefIsMirror'
<1>1. Len(versions) \in Nat /\ Len(versions') \in Nat /\ Len(versions) <= Len(versions')
      /\ thread.body \in Nat /\ thread'.body \in Nat /\ ref.version \in Nat
  BY DEF LibraryIInv, LibraryTyped, Older, StoreFits, Sources
<1>2. thread'.body > 0 /\ ref'.version <= Len(versions')
  BY <1>1 DEF LibraryIInv, MirrorFits
<1>3. CASE library'["mirror"].there
  <2>1. library["mirror"].there /\ Body("mirror")' = Body("mirror") /\ ref.version > 0
    BY <1>3 DEF LibraryIInv, MirrorFits
  <2>2. Body("mirror")' <= thread.body
    BY <1>3 DEF MirrorFollows
  <2>3. versions'[ref.version] = versions[ref.version]
    <3>1. ref.version \in 1..Len(versions)
      BY <1>1, <2>1 DEF LibraryIInv, MirrorFits
    <3> QED  BY <3>1 DEF Older
  <2>4. versions[ref.version].of = "mirror" /\ versions[ref.version].body = Body("mirror") /\ ref.body = Body("mirror")
    BY <2>1 DEF LibraryIInv, RefIsMirror
  <2>5. RefIsMirror'
    BY <2>1, <2>3, <2>4 DEF RefIsMirror
  <2>6. Body("mirror")' \in Nat
    BY <1>3, MirrorAfter
  <2> QED  BY <1>1, <1>2, <2>1, <2>2, <2>5, <2>6 DEF MirrorFits
<1>4. CASE ~library'["mirror"].there
  BY <1>2, <1>4 DEF MirrorFits, RefIsMirror
<1> QED  BY <1>3, <1>4

\* What the run was lent still is a version of the sessions.
LEMMA RunStays ==
    ASSUME LibraryIInv, Older, StoreFits, NativeFollows, run' = run
    PROVE  RunFits'
<1>1. Len(versions) \in Nat /\ Len(versions') \in Nat /\ Len(versions) <= Len(versions')
      /\ run.base \in Nat /\ run.parent \in Nat
  BY DEF LibraryIInv, LibraryTyped, Older, StoreFits, RunRow
<1>2. run.base # None => run.base \in 1..Len(versions') /\ versions'[run.base].of = "native"
  BY <1>1 DEF LibraryIInv, RunFits, Older
<1>3. run.parent # None => run.parent \in 1..Len(versions') /\ versions'[run.parent].of = "mirror"
  BY <1>1 DEF LibraryIInv, RunFits, Older
<1>4. ASSUME run.base # None, run.base = library'["native"].head
      PROVE  run.title = library'["native"].title
  <2>1. run.base <= Len(versions)
    BY <1>4 DEF LibraryIInv, RunFits
  <2>2. library'["native"].head = library["native"].head /\ library'["native"].title = library["native"].title
    BY <2>1, <1>4, <1>1 DEF NativeFollows
  <2> QED  BY <2>2, <1>4 DEF LibraryIInv, RunFits
<1> QED  BY <1>2, <1>3, <1>4 DEF RunFits

-----------------------------------------------------------------------------
(* The steps that write no row.                                            *)

\* What every step preserves and what none may do.
StepIsSafe == LibraryIInv' /\ Chained /\ TitleStays /\ Forward

\* The mirror goes forward and not beyond the thread.
LEMMA FollowsForward ==
    ASSUME MirrorFollows
    PROVE  Forward
BY DEF MirrorFollows, Forward, Body, HeadOf

\* Nothing is written.
LEMMA Quiet ==
    ASSUME LibraryIInv, UNCHANGED <<versions, library>>
    PROVE  /\ StoreFits /\ Older /\ MirrorFollows /\ NativeFollows
           /\ Chained /\ TitleStays /\ Forward /\ TombstoneHolds'
           /\ (library'["mirror"].there => library["mirror"].there /\ Body("mirror")' = Body("mirror"))
<1>1. StoreFits /\ Older
  BY NothingMade DEF LibraryIInv
<1>2. MirrorFollows
  BY <1>1, MirrorAlone
<1>3. NativeFollows /\ Chained /\ TitleStays
  BY DEF NativeFollows, Chained, TitleStays
<1>4. TombstoneHolds'
  BY DEF LibraryIInv, TombstoneHolds
<1> QED  BY <1>1, <1>2, <1>3, <1>4, FollowsForward DEF Body, HeadOf

\* The thread grows, and its title changes.
LEMMA ThreadStep ==
    ASSUME LibraryIInv, Grow \/ Rename
    PROVE  StepIsSafe
<1>1. UNCHANGED <<versions, library, ref, space, reader, cached, sync, run, edits>>
  BY DEF Grow, Rename
<1>2. /\ StoreFits /\ Older /\ MirrorFollows /\ NativeFollows
      /\ Chained /\ TitleStays /\ Forward /\ TombstoneHolds'
      /\ (library'["mirror"].there => library["mirror"].there /\ Body("mirror")' = Body("mirror"))
  BY <1>1, Quiet
<1>3. thread' \in Sources /\ titles' \in 0..MaxTitles /\ thread.body <= thread'.body
  <2>1. CASE Grow
    <3>1. PICK b \in 0..MaxBody : b = thread.body + 1
      BY <2>1, Bounds, Bodies DEF Grow, LibraryIInv, LibraryTyped
    <3>2. thread' = [thread EXCEPT !.body = b] /\ titles' = titles
      BY <2>1, <3>1 DEF Grow, LibraryIInv, LibraryTyped, Sources
    <3>3. thread' \in Sources /\ thread'.body = b
      BY <3>2 DEF LibraryIInv, LibraryTyped, Sources
    <3> QED  BY <3>1, <3>2, <3>3, Bodies DEF LibraryIInv, LibraryTyped
  <2>2. CASE Rename
    <3>1. PICK t \in 0..MaxTitles : t = titles + 1
      BY <2>2, Bounds DEF Rename, LibraryIInv, LibraryTyped
    <3>2. thread' = [thread EXCEPT !.title = t] /\ titles' = t
      BY <2>2, <3>1 DEF Rename
    <3>3. thread' \in Sources /\ thread'.body = thread.body
      BY <3>2 DEF LibraryIInv, LibraryTyped, Sources
    <3> QED  BY <3>2, <3>3, Bodies DEF LibraryIInv, LibraryTyped
  <2> QED  BY <2>1, <2>2
<1>4. LibraryTyped'
  BY <1>1, <1>2, <1>3 DEF LibraryIInv, LibraryTyped, StoreFits
<1>5. \A r \in Readers : ReaderFits(r)'
  BY <1>1, <1>2, <1>3, ReaderStays
<1>6. CacheFits' /\ RunFits'
  BY <1>1, <1>2, CacheStays, RunStays
<1>7. MirrorFits' /\ RefIsMirror'
  BY <1>1, <1>2, <1>3, RefStays
<1> QED  BY <1>2, <1>4, <1>5, <1>6, <1>7 DEF StepIsSafe, LibraryIInv, StoreFits

\* A step that neither writes nor is of the thread leaves everything but what it changes.
LEMMA StillFits ==
    ASSUME LibraryIInv, UNCHANGED <<thread, titles, edits, versions, library, ref, space>>
    PROVE  /\ StoreFits /\ Older /\ MirrorFollows /\ NativeFollows
           /\ Chained /\ TitleStays /\ Forward /\ TombstoneHolds' /\ MirrorFits' /\ RefIsMirror'
           /\ (cached' = cached => CacheFits') /\ (run' = run => RunFits')
           /\ \A r \in Readers : reader'[r] = reader[r] => ReaderFits(r)'
           /\ (reader' \in [Readers -> ReaderRow] /\ cached' \in Sources /\ sync' \in 0..NotSyncing /\ run' \in RunRow
                 => LibraryTyped')
<1>1. /\ StoreFits /\ Older /\ MirrorFollows /\ NativeFollows
      /\ Chained /\ TitleStays /\ Forward /\ TombstoneHolds'
      /\ (library'["mirror"].there => library["mirror"].there /\ Body("mirror")' = Body("mirror"))
  BY Quiet
<1>2. thread' \in Sources /\ thread.body <= thread'.body
  BY Bodies DEF LibraryIInv, LibraryTyped
<1>3. \A r \in Readers : reader'[r] = reader[r] => ReaderFits(r)'
  BY <1>1, <1>2, ReaderStays
<1>4. (cached' = cached => CacheFits') /\ (run' = run => RunFits')
  BY <1>1, CacheStays, RunStays
<1>5. MirrorFits' /\ RefIsMirror'
  BY <1>1, <1>2, RefStays
<1>6. reader' \in [Readers -> ReaderRow] /\ cached' \in Sources /\ sync' \in 0..NotSyncing /\ run' \in RunRow
        => LibraryTyped'
  BY <1>1 DEF LibraryIInv, LibraryTyped, StoreFits
<1> QED  BY <1>1, <1>3, <1>4, <1>5, <1>6

\* The other import is as it was.
LEMMA OneReads ==
    ASSUME LibraryIInv, UNCHANGED <<thread, titles, edits, versions, library, ref, space, cached, sync, run>>,
           NEW r \in Readers, NEW row \in ReaderRow, reader' = [reader EXCEPT ![r] = row], ReaderFits(r)'
    PROVE  StepIsSafe
<1>1. reader \in [Readers -> ReaderRow]
  BY DEF LibraryIInv, LibraryTyped
<1>2. reader' \in [Readers -> ReaderRow] /\ reader'[r] = row
      /\ \A q \in Readers \ {r} : reader'[q] = reader[q]
  BY <1>1
<1>3. \A q \in Readers : ReaderFits(q)'
  BY <1>2, StillFits
<1>4. cached' \in Sources /\ sync' \in 0..NotSyncing /\ run' \in RunRow
  BY DEF LibraryIInv, LibraryTyped
<1> QED  BY <1>2, <1>3, <1>4, StillFits DEF StepIsSafe, LibraryIInv, StoreFits

\* An import that is not under way says nothing.
LEMMA RestingFits ==
    ASSUME LibraryIInv, NEW r \in Readers, reader'[r] = Resting, thread' = thread, StoreFits
    PROVE  Resting \in ReaderRow /\ ReaderFits(r)'
<1>1. Resting.at = "idle" /\ Resting.expected = 0 /\ Resting.stamp.body = 0 /\ Resting.seen.body = 0
  BY DEF Resting, Unseen, None
<1>2. Resting \in ReaderRow
  BY Bounds DEF Resting, Unseen, None, ReaderRow, Sources
<1>3. thread.body \in Nat /\ Len(versions') \in Nat
  BY Bodies DEF LibraryIInv, LibraryTyped, StoreFits
<1> QED  BY <1>1, <1>2, <1>3 DEF ReaderFits

LEMMA StampStep ==
    ASSUME LibraryIInv, Stamp
    PROVE  StepIsSafe
<1> DEFINE row == [Resting EXCEPT !.at = "stamped", !.stamp = thread]
<1>1. thread \in Sources /\ thread.body > 0 /\ reader \in [Readers -> ReaderRow]
  BY DEF LibraryIInv, LibraryTyped, MirrorFits
<1>2. row \in ReaderRow /\ row.at = "stamped" /\ row.stamp = thread /\ row.expected = 0 /\ row.seen.body = 0
  <2>1. Resting \in ReaderRow /\ Resting.expected = 0 /\ Resting.seen.body = 0
    BY Bounds DEF Resting, Unseen, None, ReaderRow, Sources
  <2> QED  BY <1>1, <2>1 DEF ReaderRow
<1> HIDE DEF row
<1>3. reader' = [reader EXCEPT !["observer"] = row] /\ UNCHANGED <<thread, versions, library>>
  BY DEF Stamp, Reading, row
<1>4. reader'["observer"] = row
  BY <1>1, <1>3 DEF Readers
<1>5. Len(versions') \in Nat /\ thread.body \in Nat
  BY <1>3, Bodies DEF LibraryIInv, LibraryTyped
<1>6. ReaderFits("observer")'
  BY <1>1, <1>2, <1>3, <1>4, <1>5 DEF ReaderFits
<1> QED  BY <1>2, <1>3, <1>6, OneReads DEF Stamp, Reading, Readers

LEMMA ReadHeadStep ==
    ASSUME LibraryIInv, NEW r \in Readers, ReadHead(r)
    PROVE  StepIsSafe
<1> DEFINE row == [reader[r] EXCEPT !.at = "head", !.expected = library["mirror"].head]
<1>1. reader \in [Readers -> ReaderRow] /\ reader[r] \in ReaderRow /\ library["mirror"].head \in Nat
      /\ library["mirror"].head <= Len(versions)
  <2>1. library["mirror"].head \in Nat /\ Len(versions) \in Nat
    BY DEF LibraryIInv, LibraryTyped, SessionRow, Ids
  <2>2. library["mirror"].head = 0 \/ library["mirror"].head \in 1..Len(versions)
    BY DEF LibraryIInv, HeadsFit, Ids, None
  <2> QED  BY <2>1, <2>2 DEF LibraryIInv, LibraryTyped
<1>2. row \in ReaderRow /\ row.at = "head" /\ row.stamp = reader[r].stamp /\ row.seen = reader[r].seen
      /\ row.expected = library["mirror"].head
  BY <1>1 DEF ReaderRow
<1> HIDE DEF row
<1>3. reader' = [reader EXCEPT ![r] = row] /\ UNCHANGED <<thread, versions, library>>
  BY <1>1 DEF ReadHead, Reading, row
<1>4. reader'[r] = row
  BY <1>1, <1>3
<1>5. ReaderFits(r) /\ reader[r].at = (IF r = "job" THEN "idle" ELSE "stamped")
  BY DEF LibraryIInv, ReadHead
<1>6. ReaderFits(r)'
  BY <1>1, <1>2, <1>3, <1>4, <1>5 DEF ReaderFits
<1> QED  BY <1>2, <1>3, <1>6, OneReads DEF ReadHead, Reading

LEMMA ObserveStep ==
    ASSUME LibraryIInv, NEW r \in Readers, Observe(r)
    PROVE  StepIsSafe
<1> DEFINE row == [reader[r] EXCEPT !.at = "seen", !.seen = thread]
<1>1. reader \in [Readers -> ReaderRow] /\ reader[r] \in ReaderRow /\ thread \in Sources
  BY DEF LibraryIInv, LibraryTyped
<1>2. row \in ReaderRow /\ row.at = "seen" /\ row.stamp = reader[r].stamp /\ row.seen = thread
      /\ row.expected = reader[r].expected
  BY <1>1 DEF ReaderRow
<1> HIDE DEF row
<1>3. reader' = [reader EXCEPT ![r] = row] /\ UNCHANGED <<thread, versions, library>>
  BY <1>1 DEF Observe, Reading, row
<1>4. reader'[r] = row
  BY <1>1, <1>3
<1>5. ReaderFits(r) /\ reader[r].at = "head" /\ thread.body \in Nat /\ reader[r].stamp.body \in Nat
  BY <1>1, Bodies DEF LibraryIInv, Observe, ReaderRow
<1>6. library["mirror"].there => Body("mirror") <= thread.body
  BY DEF LibraryIInv, MirrorFits
<1>7. ReaderFits(r)'
  BY <1>1, <1>2, <1>3, <1>4, <1>5, <1>6 DEF ReaderFits, Body, HeadOf
<1> QED  BY <1>2, <1>3, <1>7, OneReads DEF Observe, Reading

LEMMA GiveUpStep ==
    ASSUME LibraryIInv, NEW r \in Readers, GiveUp(r)
    PROVE  StepIsSafe
<1>1. reader' = [reader EXCEPT ![r] = Resting] /\ UNCHANGED <<thread, versions, library>>
  BY DEF GiveUp, Reading
<1>2. reader'[r] = Resting
  BY <1>1 DEF LibraryIInv, LibraryTyped
<1>3. StoreFits
  BY <1>1, Quiet
<1>4. Resting \in ReaderRow /\ ReaderFits(r)'
  BY <1>1, <1>2, <1>3, RestingFits
<1> QED  BY <1>1, <1>4, OneReads DEF GiveUp, Reading

LEMMA RememberStep ==
    ASSUME LibraryIInv, Remember
    PROVE  StepIsSafe
<1>1. reader' = [reader EXCEPT !["observer"] = Resting] /\ reader["observer"].at = "applied"
      /\ UNCHANGED <<thread, titles, edits, versions, library, ref, space, sync, run>>
      /\ reader \in [Readers -> ReaderRow]
  BY DEF Remember, Reading, LibraryIInv, LibraryTyped
<1>2. reader'["observer"] = Resting /\ "observer" \in Readers
  BY <1>1 DEF Readers
<1>3. StoreFits
  BY <1>1, Quiet
<1>4. Resting \in ReaderRow /\ ReaderFits("observer")'
  BY <1>1, <1>2, <1>3, RestingFits
<1>5. reader' \in [Readers -> ReaderRow]
  BY <1>1, <1>4
<1>6. \A r \in Readers : ReaderFits(r)'
  <2>1. \A r \in Readers \ {"observer"} : reader'[r] = reader[r]
    BY <1>1
  <2> QED  BY <1>1, <1>4, <2>1, StillFits
<1>7. cached' \in Sources /\ CacheFits'
  <2>1. CASE thread = reader["observer"].stamp
    <3>1. cached' = reader["observer"].stamp /\ cached' \in Sources
      BY <2>1 DEF Remember, LibraryIInv, LibraryTyped
    <3>2. library["mirror"].there /\ reader["observer"].stamp.body <= Body("mirror")
      BY <1>1, <1>2 DEF LibraryIInv, ReaderFits
    <3> QED  BY <3>1, <3>2, <1>1 DEF CacheFits, Body, HeadOf
  <2>2. CASE thread # reader["observer"].stamp
    <3>1. cached' = Unseen
      BY <2>2 DEF Remember
    <3> QED  BY <3>1, Bounds DEF Unseen, Sources, CacheFits
  <2> QED  BY <2>1, <2>2
<1>8. sync' \in 0..NotSyncing /\ run' \in RunRow
  BY <1>1 DEF LibraryIInv, LibraryTyped
<1> QED  BY <1>1, <1>5, <1>6, <1>7, <1>8, StillFits DEF StepIsSafe, LibraryIInv, StoreFits

LEMMA ForgetStep ==
    ASSUME LibraryIInv, Forget
    PROVE  StepIsSafe
<1>1. cached' = Unseen /\ UNCHANGED <<thread, titles, edits, versions, library, ref, space, sync, run, reader>>
  BY DEF Forget, Reading
<1>2. cached' \in Sources /\ CacheFits'
  BY <1>1, Bounds DEF Unseen, Sources, CacheFits
<1>3. sync' \in 0..NotSyncing /\ run' \in RunRow /\ reader' \in [Readers -> ReaderRow]
  BY <1>1 DEF LibraryIInv, LibraryTyped
<1> QED  BY <1>1, <1>2, <1>3, StillFits DEF StepIsSafe, LibraryIInv, StoreFits

LEMMA ReadTitleStep ==
    ASSUME LibraryIInv, ReadTitle
    PROVE  StepIsSafe
<1>1. sync' = thread.title /\ UNCHANGED <<thread, titles, edits, versions, library, ref, space, reader, cached, run>>
  BY DEF ReadTitle
<1>2. sync' \in 0..NotSyncing
  <2>1. thread.title \in 0..MaxTitles
    BY Bodies DEF LibraryIInv, LibraryTyped
  <2> QED  BY <1>1, <2>1, Bounds DEF NotSyncing
<1>3. cached' \in Sources /\ run' \in RunRow /\ reader' \in [Readers -> ReaderRow]
  BY <1>1 DEF LibraryIInv, LibraryTyped
<1> QED  BY <1>1, <1>2, <1>3, StillFits DEF StepIsSafe, LibraryIInv, StoreFits

\* What a run is prepared with are the heads.
LEMMA RunStep ==
    ASSUME LibraryIInv, Prepare \/ Close
    PROVE  StepIsSafe
<1>1. UNCHANGED <<thread, titles, edits, versions, library, ref, space, reader, cached, sync>>
  BY DEF Prepare, Close
<1>2. cached' \in Sources /\ sync' \in 0..NotSyncing /\ reader' \in [Readers -> ReaderRow]
  BY <1>1 DEF LibraryIInv, LibraryTyped
<1>3. CASE Close
  <2>1. run'.base = None /\ run'.parent = None /\ run' \in RunRow
    BY <1>3, Bounds DEF Close, None, RunRow, Places
  <2>2. RunFits'
    BY <2>1 DEF RunFits
  <2> QED  BY <1>1, <1>2, <2>1, <2>2, StillFits DEF StepIsSafe, LibraryIInv, StoreFits
<1>4. CASE Prepare
  <2>1. \A i \in Ids : library[i].head # None => library[i].head \in 1..Len(versions) /\ versions[library[i].head].of = i
    BY DEF LibraryIInv, HeadsFit, HeadOf
  <2>2. \A i \in Ids : library[i] \in SessionRow
    BY DEF LibraryIInv, LibraryTyped
  <2>3. PICK base \in Nat : base = (IF library["native"].dead THEN None ELSE library["native"].head)
    BY <2>2 DEF SessionRow, Ids, None
  <2>4. PICK parent \in Nat : parent = (IF library["mirror"].dead THEN None ELSE library["mirror"].head)
    BY <2>2 DEF SessionRow, Ids, None
  <2>5. PICK ws \in Places : ws = (IF space THEN library["native"].ws ELSE "nowhere")
    BY <2>2 DEF SessionRow, Ids, Places
  <2>6. PICK title \in 0..MaxTitles : title = library["native"].title
    BY <2>2 DEF SessionRow, Ids
  <2>7. run' = [up |-> TRUE, base |-> base, title |-> title, ws |-> ws, parent |-> parent]
    BY <1>4, <2>3, <2>4, <2>5, <2>6 DEF Prepare
  <2>8. run' \in RunRow /\ run'.base = base /\ run'.parent = parent /\ run'.title = title
    BY <2>7 DEF RunRow
  <2>9. RunFits'
    <3>1. base # None => base \in 1..Len(versions) /\ versions[base].of = "native"
      BY <2>1, <2>3 DEF Ids
    <3>2. parent # None => parent \in 1..Len(versions) /\ versions[parent].of = "mirror"
      BY <2>1, <2>4 DEF Ids
    <3> QED  BY <1>1, <2>6, <2>8, <3>1, <3>2 DEF RunFits
  <2> QED  BY <1>1, <1>2, <2>8, <2>9, StillFits DEF StepIsSafe, LibraryIInv, StoreFits
<1> QED  BY <1>3, <1>4

-----------------------------------------------------------------------------
(* The steps that write.                                                   *)

\* A write leaves the observer, the imports and the run as they fit, where it follows the mirror and
\* the session of DSH's own.
LEMMA WriteFits ==
    ASSUME LibraryIInv, StoreFits, Older, MirrorFollows, NativeFollows, UNCHANGED thread
    PROVE  /\ Forward
           /\ (cached' = cached => CacheFits') /\ (run' = run => RunFits')
           /\ \A r \in Readers : reader'[r] = reader[r] => ReaderFits(r)'
           /\ (ref' = ref /\ (library'["mirror"].there => library["mirror"].there /\ Body("mirror")' = Body("mirror"))
                 => MirrorFits' /\ RefIsMirror')
           /\ (/\ titles' \in 0..MaxTitles /\ edits' \in 0..MaxEdits
               /\ ref' \in [version : Nat, body : 0..MaxBody] /\ space' \in BOOLEAN
               /\ reader' \in [Readers -> ReaderRow] /\ cached' \in Sources
               /\ sync' \in 0..NotSyncing /\ run' \in RunRow)
                 => LibraryTyped'
<1>1. thread' \in Sources /\ thread.body <= thread'.body
  BY Bodies DEF LibraryIInv, LibraryTyped
<1>2. \A r \in Readers : reader'[r] = reader[r] => ReaderFits(r)'
  BY <1>1, ReaderStays
<1>3. (cached' = cached => CacheFits') /\ (run' = run => RunFits')
  BY CacheStays, RunStays
<1>4. ref' = ref /\ (library'["mirror"].there => library["mirror"].there /\ Body("mirror")' = Body("mirror"))
        => MirrorFits' /\ RefIsMirror'
  BY <1>1, RefStays
<1>5. (/\ titles' \in 0..MaxTitles /\ edits' \in 0..MaxEdits
       /\ ref' \in [version : Nat, body : 0..MaxBody] /\ space' \in BOOLEAN
       /\ reader' \in [Readers -> ReaderRow] /\ cached' \in Sources
       /\ sync' \in 0..NotSyncing /\ run' \in RunRow)
         => LibraryTyped'
  BY <1>1 DEF StoreFits, LibraryTyped
<1> QED  BY <1>2, <1>3, <1>4, <1>5, FollowsForward

\* A version on the head it replaces, or the first of its session.
LEMMA MadeChained ==
    ASSUME LibraryIInv, NEW i \in Ids, NEW parent, NEW body, NEW title, NEW ws, Made(i, parent, body, title, ws),
           library[i].there => parent = library[i].head
    PROVE  Chained /\ TombstoneHolds'
<1>1. \A j \in Ids \ {i} : library'[j] = library[j]
  BY DEF Made
<1>2. versions'[library'[i].head].parent = parent
  BY DEF Made
<1>3. library'[i].tombstone = library[i].tombstone /\ (library[i].tombstone => library'[i].dead = library[i].dead)
  BY DEF Made
<1>4. Chained
  BY <1>1, <1>2 DEF Chained
<1>5. TombstoneHolds'
  BY <1>1, <1>3 DEF LibraryIInv, TombstoneHolds
<1> QED  BY <1>4, <1>5

\* What a write of another session leaves of the mirror, and of the session of DSH's own.
LEMMA MadeElsewhere ==
    ASSUME LibraryIInv, NEW i \in Ids, NEW parent, NEW body, NEW title, NEW ws, Made(i, parent, body, title, ws)
    PROVE  /\ (i # "mirror" => MirrorFollows
                 /\ (library'["mirror"].there => library["mirror"].there /\ Body("mirror")' = Body("mirror")))
           /\ NativeFollows /\ (i # "native" => TitleStays)
<1>1. Older /\ \A j \in Ids \ {i} : library'[j] = library[j]
  BY DEF Made
<1>2. ASSUME i # "mirror"
      PROVE  /\ MirrorFollows
             /\ (library'["mirror"].there => library["mirror"].there /\ Body("mirror")' = Body("mirror"))
  <2>1. library'["mirror"] = library["mirror"]
    BY <1>1, <1>2 DEF Ids
  <2>2. MirrorFollows
    BY <1>1, <2>1, MirrorAlone
  <2>3. library["mirror"].there => Body("mirror")' = Body("mirror")
    BY <1>1, <2>1, BodyStays DEF LibraryIInv, Ids
  <2> QED  BY <2>1, <2>2, <2>3
<1>3. i # "native" => library'["native"] = library["native"]
  BY <1>1 DEF Ids
<1>4. i = "native" => library'["native"].head > Len(versions)
  BY DEF Made, LibraryIInv, LibraryTyped
<1> QED  BY <1>2, <1>3, <1>4 DEF NativeFollows, TitleStays

\* A title that is given makes a version with the head's body.
LEMMA RetitleSafe ==
    ASSUME LibraryIInv, NEW i \in Ids, library[i].there, NEW title \in 0..MaxTitles, Retitle(i, title),
           i = "native" => titles' # titles
    PROVE  /\ StoreFits /\ Older /\ MirrorFollows /\ NativeFollows /\ Chained /\ TitleStays /\ TombstoneHolds'
           /\ (library'["mirror"].there => library["mirror"].there /\ Body("mirror")' = Body("mirror"))
<1>1. /\ StoreFits
      /\ \/ UNCHANGED <<versions, library>> /\ library[i].title = title
         \/ Made(i, library[i].head, Body(i), title, library[i].ws)
  BY RetitleMakes DEF LibraryIInv
<1>2. CASE UNCHANGED <<versions, library>>
  BY <1>2, Quiet
<1>3. CASE Made(i, library[i].head, Body(i), title, library[i].ws)
  <2>1. Chained /\ TombstoneHolds'
    BY <1>3, MadeChained
  <2>2. /\ (i # "mirror" => MirrorFollows
              /\ (library'["mirror"].there => library["mirror"].there /\ Body("mirror")' = Body("mirror")))
        /\ NativeFollows /\ (i # "native" => TitleStays)
    BY <1>3, MadeElsewhere
  <2>3. i = "native" => TitleStays
    BY DEF TitleStays
  <2>4. Older
    BY <1>3 DEF Made
  <2>5. ASSUME i = "mirror"
        PROVE  MirrorFollows /\ library["mirror"].there /\ Body("mirror")' = Body("mirror")
    <3>1. library'["mirror"].head = Len(versions) + 1 /\ Body("mirror")' = Body("mirror")
      BY <1>3, <2>5 DEF Made, Body, HeadOf
    <3>2. PICK b \in 0..(2 * MaxBody) : b = Body("mirror")
      BY <2>5, HeadThere DEF LibraryIInv
    <3>3. b <= thread.body /\ b <= b /\ library'["mirror"].head > Len(versions)
      BY <2>5, <3>1, <3>2, Bounds DEF LibraryIInv, LibraryTyped, MirrorFits
    <3> QED  BY <1>3, <2>5, <3>1, <3>2, <3>3 DEF MirrorFollows, Made
  <2> QED  BY <1>1, <2>1, <2>2, <2>3, <2>4, <2>5
<1> QED  BY <1>1, <1>2, <1>3

LEMMA RetitleUnchangedStep ==
    ASSUME LibraryIInv, RetitleUnchanged
    PROVE  StepIsSafe
<1> DEFINE i == reader["observer"]
           row == [i EXCEPT !.at = "applied"]
<1>1. reader \in [Readers -> ReaderRow] /\ i \in ReaderRow /\ "observer" \in Readers
  BY DEF LibraryIInv, LibraryTyped, Readers
<1>2. i.at = "stamped" /\ cached.body = i.stamp.body /\ library["mirror"].there
      /\ Retitle("mirror", i.stamp.title) /\ UNCHANGED <<thread, titles, edits, ref, space, cached, sync, run>>
  BY DEF RetitleUnchanged
<1>3. row \in ReaderRow /\ row.at = "applied" /\ row.stamp = i.stamp /\ row.seen = i.seen /\ row.expected = i.expected
  BY <1>1 DEF ReaderRow
<1>4. reader' = [reader EXCEPT !["observer"] = row]
  BY <1>1 DEF RetitleUnchanged
<1> HIDE DEF row
<1>5. i.stamp.title \in 0..MaxTitles /\ i.stamp.body \in Nat
  BY <1>1, Bodies DEF ReaderRow
<1>6. /\ StoreFits /\ Older /\ MirrorFollows /\ NativeFollows /\ Chained /\ TitleStays /\ TombstoneHolds'
      /\ (library'["mirror"].there => library["mirror"].there /\ Body("mirror")' = Body("mirror"))
  BY <1>2, <1>5, RetitleSafe DEF Ids
<1>7. reader' \in [Readers -> ReaderRow] /\ reader'["observer"] = row
      /\ \A q \in Readers \ {"observer"} : reader'[q] = reader[q]
  BY <1>1, <1>3, <1>4
<1>8. ReaderFits("observer")'
  <2>1. ReaderFits("observer")
    BY <1>1 DEF LibraryIInv
  <2>2. i.stamp.body > 0 /\ i.expected <= Len(versions) /\ i.stamp.body <= thread.body /\ i.seen.body <= thread.body
    BY <1>2, <2>1 DEF ReaderFits
  <2>3. i.stamp.body <= Body("mirror")
    BY <1>2, <2>2 DEF LibraryIInv, CacheFits
  <2>4. library'["mirror"].there /\ Body("mirror")' = Body("mirror")
    BY <1>2, <1>6 DEF MirrorFollows
  <2>5. i.expected <= Len(versions')
    BY <2>2, <1>1, <1>6 DEF Older, ReaderRow, LibraryIInv, LibraryTyped, StoreFits
  <2> QED  BY <1>2, <1>3, <1>7, <2>2, <2>3, <2>4, <2>5 DEF ReaderFits
<1>9. /\ Forward /\ CacheFits' /\ RunFits' /\ MirrorFits' /\ RefIsMirror'
      /\ \A q \in Readers \ {"observer"} : ReaderFits(q)'
  BY <1>2, <1>6, <1>7, WriteFits
<1>10. LibraryTyped'
  BY <1>2, <1>6, <1>7 DEF LibraryIInv, LibraryTyped, StoreFits
<1> QED  BY <1>6, <1>8, <1>9, <1>10 DEF StepIsSafe, LibraryIInv, StoreFits

\* A title of the catalog and one of the dashboard.
LEMMA TitleStep ==
    ASSUME LibraryIInv, SyncTitle \/ \E i \in Ids : UpdateTitle(i)
    PROVE  StepIsSafe
<1>1. UNCHANGED <<thread, ref, space, reader, cached, run>>
  BY DEF SyncTitle, UpdateTitle, Dashboard
<1>2. /\ StoreFits /\ Older /\ MirrorFollows /\ NativeFollows /\ Chained /\ TitleStays /\ TombstoneHolds'
      /\ (library'["mirror"].there => library["mirror"].there /\ Body("mirror")' = Body("mirror"))
      /\ titles' \in 0..MaxTitles /\ edits' \in 0..MaxEdits /\ sync' \in 0..NotSyncing
  <2>1. CASE SyncTitle
    <3>1. titles' = titles /\ edits' = edits /\ sync' = NotSyncing /\ sync \in 0..MaxTitles
      <4>1. sync # MaxTitles + 1 /\ sync \in 0..(MaxTitles + 1)
        BY <2>1 DEF SyncTitle, NotSyncing, LibraryIInv, LibraryTyped
      <4>2. sync \in 0..MaxTitles
        BY <4>1, Bounds
      <4> QED  BY <2>1, <4>2 DEF SyncTitle
    <3>2. titles' \in 0..MaxTitles /\ edits' \in 0..MaxEdits /\ sync' \in 0..NotSyncing
      BY <3>1, Bounds DEF LibraryIInv, LibraryTyped, NotSyncing
    <3>3. CASE library["mirror"].there
      <4>1. Retitle("mirror", sync)
        BY <2>1, <3>3 DEF SyncTitle
      <4> QED  BY <3>1, <3>2, <3>3, <4>1, RetitleSafe DEF Ids
    <3>4. CASE ~library["mirror"].there
      <4>1. UNCHANGED <<versions, library>>
        BY <2>1, <3>4 DEF SyncTitle
      <4> QED  BY <3>2, <4>1, Quiet
    <3> QED  BY <3>3, <3>4
  <2>2. ASSUME NEW i \in Ids, UpdateTitle(i)
        PROVE  /\ StoreFits /\ Older /\ MirrorFollows /\ NativeFollows /\ Chained /\ TitleStays /\ TombstoneHolds'
               /\ (library'["mirror"].there => library["mirror"].there /\ Body("mirror")' = Body("mirror"))
               /\ titles' \in 0..MaxTitles /\ edits' \in 0..MaxEdits /\ sync' \in 0..NotSyncing
    <3>1. PICK t \in 0..MaxTitles : t = titles + 1 /\ t # titles
      BY <2>2, Bounds DEF UpdateTitle, LibraryIInv, LibraryTyped
    <3>2. titles' = t /\ library[i].there
      BY <2>2, <3>1 DEF UpdateTitle
    <3>3. Retitle(i, t)
      BY <2>2, <3>2 DEF UpdateTitle
    <3>4. edits' \in 0..MaxEdits /\ sync' \in 0..NotSyncing
      BY <2>2, Bounds DEF UpdateTitle, Dashboard, LibraryIInv, LibraryTyped
    <3> QED  BY <3>1, <3>2, <3>3, <3>4, RetitleSafe
  <2> QED  BY <2>1, <2>2
<1>3. \A r \in Readers : ReaderFits(r)'
  BY <1>1, <1>2, WriteFits
<1>4. Forward /\ CacheFits' /\ RunFits' /\ MirrorFits' /\ RefIsMirror'
  BY <1>1, <1>2, WriteFits
<1>5. LibraryTyped'
  BY <1>1, <1>2 DEF LibraryIInv, LibraryTyped, StoreFits
<1> QED  BY <1>2, <1>3, <1>4, <1>5 DEF StepIsSafe, LibraryIInv, StoreFits

\* What was seen of the thread becomes the mirror, where the mirror is no further.
LEMMA ObserveCodexSafe ==
    ASSUME LibraryIInv, NEW seen \in Sources, seen.body <= thread.body,
           library["mirror"].there => Body("mirror") <= seen.body, ObserveCodex(seen), UNCHANGED thread
    PROVE  /\ StoreFits /\ Older /\ MirrorFollows /\ NativeFollows /\ Chained /\ TitleStays /\ TombstoneHolds'
           /\ MirrorFits' /\ RefIsMirror' /\ ref' \in [version : Nat, body : 0..MaxBody]
           /\ library'["mirror"].there /\ Body("mirror")' = seen.body
<1>0. "mirror" \in Ids /\ seen.body \in Nat /\ seen.body <= MaxBody /\ seen.title \in 0..MaxTitles
      /\ seen.body \in 0..(2 * MaxBody) /\ seen.body \in 0..MaxBody
  <2>1. seen.body \in Nat /\ seen.body <= MaxBody /\ seen.title \in 0..MaxTitles
    BY Bodies
  <2> QED  BY <2>1, Bounds DEF Ids
<1>1. thread' \in Sources /\ thread.body \in Nat /\ thread.body > 0 /\ Len(versions) \in Nat /\ versions \in Seq(VersionRow)
  BY Bodies DEF LibraryIInv, LibraryTyped, MirrorFits
<1>2. CASE library["mirror"].there /\ Body("mirror") = seen.body /\ library["mirror"].title = seen.title
  <2>1. ref' = [version |-> library["mirror"].head, body |-> seen.body] /\ UNCHANGED <<versions, library>>
    BY <1>2 DEF ObserveCodex
  <2>2. library["mirror"].head \in 1..Len(versions) /\ HeadOf("mirror").of = "mirror"
    BY <1>0, <1>2, HeadThere DEF LibraryIInv
  <2>3. Body("mirror")' = seen.body /\ library'["mirror"].there
    BY <1>2, <2>1 DEF Body, HeadOf
  <2>4. ref'.version = library["mirror"].head /\ ref'.body = seen.body /\ ref' \in [version : Nat, body : 0..MaxBody]
    BY <1>0, <2>1, <2>2
  <2>5. RefIsMirror'
    BY <2>1, <2>2, <2>3, <2>4 DEF RefIsMirror, HeadOf, Body
  <2>6. MirrorFits'
    BY <1>0, <1>1, <2>1, <2>2, <2>3, <2>4 DEF MirrorFits
  <2> QED  BY <2>1, <2>3, <2>4, <2>5, <2>6, Quiet
<1>3. CASE ~(library["mirror"].there /\ Body("mirror") = seen.body /\ library["mirror"].title = seen.title)
  <2>1. PICK ws \in Places : ws = (IF library["mirror"].tombstone THEN library["mirror"].ws ELSE "nowhere")
    BY <1>0 DEF LibraryIInv, LibraryTyped, SessionRow, Places
  <2>2. PICK h \in 0..Len(versions) : h = library["mirror"].head
    BY <1>0, <1>1 DEF LibraryIInv, HeadsFit, None
  <2>13. PICK dead \in BOOLEAN : dead = library["mirror"].dead
    BY <1>0 DEF LibraryIInv, LibraryTyped, SessionRow
  <2>3. Commit("mirror", h, seen.body, seen.title, ws, dead) /\ ref' = [version |-> Len(versions) + 1, body |-> seen.body]
    BY <1>3, <2>1, <2>2, <2>13 DEF ObserveCodex
  <2>4. Made("mirror", h, seen.body, seen.title, ws) /\ StoreFits
    BY <1>0, <2>3, <2>13, CommitMakes DEF LibraryIInv
  <2>5. Chained /\ TombstoneHolds'
    BY <1>0, <2>2, <2>4, MadeChained
  <2>6. NativeFollows /\ TitleStays
    BY <1>0, <2>4, MadeElsewhere
  <2>7. /\ Older /\ library'["mirror"].there /\ library'["mirror"].head = Len(versions) + 1
        /\ versions'[Len(versions) + 1] = [of |-> "mirror", parent |-> h, body |-> seen.body, title |-> seen.title]
        /\ Len(versions') = Len(versions) + 1
    BY <2>4 DEF Made
  <2>8. Body("mirror")' = seen.body
    BY <2>7 DEF Body, HeadOf
  <2>9. MirrorFollows
    BY <1>0, <1>1, <2>7, <2>8 DEF MirrorFollows
  <2>10. ref'.version = Len(versions) + 1 /\ ref'.body = seen.body /\ ref' \in [version : Nat, body : 0..MaxBody]
    BY <1>0, <1>1, <2>3
  <2>11. RefIsMirror'
    BY <2>7, <2>8, <2>10 DEF RefIsMirror
  <2>12. MirrorFits'
    BY <1>0, <1>1, <2>7, <2>8, <2>10 DEF MirrorFits
  <2> QED  BY <2>4, <2>5, <2>6, <2>7, <2>8, <2>9, <2>10, <2>11, <2>12
<1> QED  BY <1>2, <1>3

LEMMA ApplyStep ==
    ASSUME LibraryIInv, NEW r \in Readers, Apply(r)
    PROVE  StepIsSafe
<1> DEFINE i == reader[r]
           row == IF r = "job" THEN Resting ELSE [i EXCEPT !.at = "applied"]
<1>1. reader \in [Readers -> ReaderRow] /\ i \in ReaderRow /\ i.seen \in Sources /\ i.stamp \in Sources
  BY DEF LibraryIInv, LibraryTyped, ReaderRow
<1>2. i.at = "seen" /\ UNCHANGED <<thread, titles, edits, space, cached, sync, run>>
  BY DEF Apply
<1>3. CASE library["mirror"].head # i.expected
  <2>1. reader' = [reader EXCEPT ![r] = Resting] /\ UNCHANGED <<versions, library, ref>>
    BY <1>3 DEF Apply
  <2>2. reader'[r] = Resting
    BY <1>1, <2>1
  <2>3. StoreFits
    BY <2>1, Quiet
  <2>4. Resting \in ReaderRow /\ ReaderFits(r)'
    BY <1>2, <2>2, <2>3, RestingFits
  <2> QED  BY <1>2, <2>1, <2>4, OneReads
<1>4. CASE library["mirror"].head = i.expected
  <2>1. ObserveCodex(i.seen) /\ reader' = [reader EXCEPT ![r] = row]
    BY <1>1, <1>4 DEF Apply
  <2>2. ReaderFits(r)
    BY DEF LibraryIInv
  <2>3. i.seen.body <= thread.body /\ (library["mirror"].there => Body("mirror") <= i.seen.body)
    BY <1>2, <1>4, <2>2 DEF ReaderFits
  <2>4. /\ StoreFits /\ Older /\ MirrorFollows /\ NativeFollows /\ Chained /\ TitleStays /\ TombstoneHolds'
        /\ MirrorFits' /\ RefIsMirror' /\ ref' \in [version : Nat, body : 0..MaxBody]
        /\ library'["mirror"].there /\ Body("mirror")' = i.seen.body
    BY <1>1, <1>2, <2>1, <2>3, ObserveCodexSafe
  <2>5. row \in ReaderRow
        /\ (r # "job" => row.at = "applied" /\ row.stamp = i.stamp /\ row.seen = i.seen /\ row.expected = i.expected)
    <3>1. CASE r = "job"
      BY <3>1, Bounds DEF Resting, Unseen, None, ReaderRow, Sources
    <3>2. CASE r # "job"
      BY <1>1, <3>2 DEF ReaderRow
    <3> QED  BY <3>1, <3>2
  <2>6. r = "job" => row = Resting
    OBVIOUS
  <2> HIDE DEF row
  <2>7. reader' \in [Readers -> ReaderRow] /\ reader'[r] = row /\ \A q \in Readers \ {r} : reader'[q] = reader[q]
    BY <1>1, <2>1, <2>5
  <2>8. ReaderFits(r)'
    <3>1. CASE r = "job"
      BY <1>2, <2>4, <2>6, <2>7, <3>1, RestingFits
    <3>2. CASE r # "job"
      <4>1. i.expected <= Len(versions')
        BY <2>2, <1>1, <2>4 DEF ReaderFits, Older, ReaderRow, LibraryIInv, LibraryTyped, StoreFits
      <4>2. r = "observer"
        BY <3>2 DEF Readers
      <4>3. i.stamp.body > 0 /\ i.stamp.body <= i.seen.body
        BY <4>2, <1>2, <2>2 DEF ReaderFits
      <4>4. i.stamp.body <= thread.body /\ i.seen.body <= thread.body
        BY <2>2 DEF ReaderFits
      <4> QED  BY <1>2, <2>4, <2>5, <2>7, <3>2, <4>1, <4>3, <4>4 DEF ReaderFits
    <3> QED  BY <3>1, <3>2
  <2>9. Forward /\ CacheFits' /\ RunFits' /\ \A q \in Readers \ {r} : ReaderFits(q)'
    BY <1>2, <2>4, <2>7, WriteFits
  <2>10. LibraryTyped'
    BY <1>2, <2>4, <2>7 DEF LibraryIInv, LibraryTyped, StoreFits
  <2> QED  BY <2>4, <2>7, <2>8, <2>9, <2>10 DEF StepIsSafe, LibraryIInv, StoreFits
<1> QED  BY <1>3, <1>4

\* A session of DSH's own is imported.
LEMMA ImportNativeStep ==
    ASSUME LibraryIInv, ImportNative
    PROVE  StepIsSafe
<1>1. UNCHANGED <<thread, titles, edits, ref, space, reader, cached, sync, run>> /\ ~library["native"].there
  BY DEF ImportNative
<1>2. PICK ws \in Places : ws = (IF space THEN "space" ELSE "nowhere")
  BY DEF Places
<1>3. Commit("native", 0, 0, 0, ws, FALSE)
  BY <1>2 DEF ImportNative, None
<1>4. 0 \in 0..Len(versions) /\ 0 \in 0..(2 * MaxBody) /\ 0 \in 0..MaxTitles /\ 0 <= MaxBody /\ "native" \in Ids
  BY Bounds DEF LibraryIInv, LibraryTyped, Ids
<1>5. Made("native", 0, 0, 0, ws) /\ StoreFits
  <2>1. ~library["native"].tombstone
    BY <1>1, <1>4 DEF LibraryIInv, HeadsFit
  <2> QED  BY <1>3, <1>4, <2>1, CommitMakes DEF LibraryIInv
<1>6. Chained /\ TombstoneHolds'
  BY <1>1, <1>4, <1>5, MadeChained
<1>7. /\ MirrorFollows /\ NativeFollows
      /\ (library'["mirror"].there => library["mirror"].there /\ Body("mirror")' = Body("mirror"))
  BY <1>4, <1>5, MadeElsewhere
<1>8. TitleStays
  BY <1>1 DEF TitleStays
<1>9. Older
  BY <1>5 DEF Made
<1>10. LibraryTyped'
  BY <1>1, <1>5 DEF LibraryIInv, LibraryTyped, StoreFits
<1>11. Forward /\ CacheFits' /\ RunFits' /\ MirrorFits' /\ RefIsMirror' /\ \A r \in Readers : ReaderFits(r)'
  BY <1>1, <1>5, <1>7, <1>9, WriteFits
<1> QED  BY <1>5, <1>6, <1>8, <1>10, <1>11 DEF StepIsSafe, LibraryIInv, StoreFits

\* An append onto the head the run has, with the title that head has.
LEMMA AppendStep ==
    ASSUME LibraryIInv, AppendDsh
    PROVE  StepIsSafe
<1>1. UNCHANGED <<thread, titles, edits, ref, space, reader, cached, sync>> /\ "native" \in Ids
      /\ run.base # 0 /\ run.base = library["native"].head /\ run \in RunRow
  BY DEF AppendDsh, LibraryIInv, LibraryTyped, Ids, None
<1>2. library["native"].there
  BY <1>1 DEF LibraryIInv, HeadsFit, None
<1>3. Body("native") \in 0..(2 * MaxBody) /\ Body("native") < MaxBody /\ library["native"].head \in 1..Len(versions)
  BY <1>1, <1>2, HeadThere DEF LibraryIInv, AppendDsh
<1>4. PICK body \in 0..(2 * MaxBody) : body = Body("native") + 1 /\ body <= MaxBody
  BY <1>3, Bounds
<1>5. PICK h \in 0..Len(versions) : h = library["native"].head
  BY <1>3
<1>6. PICK n \in Nat : n = Len(versions) + 1
  BY DEF LibraryIInv, LibraryTyped
<1>7. run.title \in 0..MaxTitles /\ run.ws \in Places /\ run.parent \in Nat /\ run.title = library["native"].title
  BY <1>1 DEF RunRow, LibraryIInv, RunFits, None
<1>8. Commit("native", h, body, run.title, run.ws, FALSE) /\ ~library["native"].tombstone
  BY <1>1, <1>4, <1>5 DEF AppendDsh
<1>9. Made("native", h, body, run.title, run.ws) /\ StoreFits
  BY <1>1, <1>4, <1>7, <1>8, CommitMakes DEF LibraryIInv
<1>10. Chained /\ TombstoneHolds'
  BY <1>1, <1>5, <1>9, MadeChained
<1>11. /\ MirrorFollows /\ NativeFollows
       /\ (library'["mirror"].there => library["mirror"].there /\ Body("mirror")' = Body("mirror"))
  BY <1>1, <1>9, MadeElsewhere
<1>12. TitleStays
  BY <1>7, <1>9 DEF TitleStays, Made
<1>13. Older /\ library'["native"].head = n /\ versions'[n].of = "native" /\ Len(versions') = n
       /\ library'["native"].title = run.title
  BY <1>6, <1>9 DEF Made
<1>14. run' = [run EXCEPT !.base = n]
  BY <1>6 DEF AppendDsh
<1>15. run' \in RunRow /\ run'.base = n /\ run'.title = run.title /\ run'.parent = run.parent
  BY <1>1, <1>6, <1>14 DEF RunRow
<1>16. RunFits'
  <2>1. run.parent # None => run.parent \in 1..Len(versions') /\ versions'[run.parent].of = "mirror"
    BY <1>6, <1>7, <1>13 DEF LibraryIInv, RunFits, Older, LibraryTyped
  <2>2. n \in 1..Len(versions')
    BY <1>6, <1>13 DEF LibraryIInv, LibraryTyped
  <2> QED  BY <1>13, <1>15, <2>1, <2>2 DEF RunFits
<1>17. LibraryTyped'
  BY <1>1, <1>9, <1>15 DEF LibraryIInv, LibraryTyped, StoreFits
<1>18. Forward /\ CacheFits' /\ MirrorFits' /\ RefIsMirror' /\ \A r \in Readers : ReaderFits(r)'
  BY <1>1, <1>9, <1>11, <1>13, WriteFits
<1> QED  BY <1>9, <1>10, <1>12, <1>16, <1>17, <1>18 DEF StepIsSafe, LibraryIInv, StoreFits

\* A session is derived from the version of the mirror the run was shown.
LEMMA DeriveStep ==
    ASSUME LibraryIInv, Derive
    PROVE  StepIsSafe
<1>1. UNCHANGED <<thread, titles, edits, ref, space, reader, cached, sync>> /\ "derived" \in Ids
      /\ run.parent # 0 /\ ~library["derived"].there /\ run \in RunRow
  BY DEF Derive, LibraryIInv, LibraryTyped, Ids, None
<1>2. PICK v \in 1..Len(versions) : v = run.parent /\ versions[v].of = "mirror"
  BY <1>1 DEF LibraryIInv, RunFits, None
<1>3. versions[v] \in VersionRow /\ versions[v].body <= MaxBody
  BY <1>2 DEF LibraryIInv, LibraryTyped, VersionsFit
<1>4. versions[v].body \in Nat /\ versions[v].title \in 0..MaxTitles
  BY <1>3, Bodies DEF VersionRow
<1>5. PICK body \in 0..(2 * MaxBody) : body = versions[v].body + 1
  BY <1>3, <1>4, Bounds
<1>6. PICK title \in 0..MaxTitles : title = versions[v].title
  BY <1>4
<1>7. Commit("derived", v, body, title, "nowhere", FALSE)
  BY <1>2, <1>5, <1>6 DEF Derive
<1>8. Made("derived", v, body, title, "nowhere") /\ StoreFits
  <2>1. v \in 0..Len(versions) /\ "nowhere" \in Places
    BY DEF Places
  <2>2. ~library["derived"].tombstone
    BY <1>1 DEF LibraryIInv, HeadsFit
  <2> QED  BY <1>1, <1>7, <2>1, <2>2, CommitMakes DEF LibraryIInv
<1>9. Chained /\ TombstoneHolds'
  BY <1>1, <1>8, MadeChained
<1>10. /\ MirrorFollows /\ NativeFollows /\ TitleStays
       /\ (library'["mirror"].there => library["mirror"].there /\ Body("mirror")' = Body("mirror"))
  BY <1>1, <1>8, MadeElsewhere
<1>11. Older /\ library'["native"] = library["native"]
  BY <1>8 DEF Made, Ids
<1>12. run' \in RunRow /\ run'.base = run.base /\ run'.title = run.title /\ run'.parent = 0
  BY <1>1 DEF Derive, RunRow, None
<1>13. RunFits'
  <2>1. run.base # None => run.base \in 1..Len(versions') /\ versions'[run.base].of = "native"
    <3>1. Len(versions) \in Nat /\ Len(versions') \in Nat /\ Len(versions) <= Len(versions')
      BY <1>8, <1>11 DEF LibraryIInv, LibraryTyped, StoreFits, Older
    <3> QED  BY <1>11, <3>1 DEF LibraryIInv, RunFits, Older
  <2>2. run.base # None /\ run.base = library["native"].head => run.title = library["native"].title
    BY DEF LibraryIInv, RunFits
  <2> QED  BY <1>11, <1>12, <2>1, <2>2 DEF RunFits, None
<1>14. LibraryTyped'
  BY <1>1, <1>8, <1>12 DEF LibraryIInv, LibraryTyped, StoreFits
<1>15. Forward /\ CacheFits' /\ MirrorFits' /\ RefIsMirror' /\ \A r \in Readers : ReaderFits(r)'
  BY <1>1, <1>8, <1>10, <1>11, WriteFits
<1> QED  BY <1>8, <1>9, <1>10, <1>13, <1>14, <1>15 DEF StepIsSafe, LibraryIInv, StoreFits

\* What changes memberships and tombstones alone.
LEMMA RowsStep ==
    ASSUME LibraryIInv, UNCHANGED <<titles, versions>>, Dashboard, space' \in BOOLEAN,
           library' \in [Ids -> SessionRow],
           \A j \in Ids : /\ library'[j].there = library[j].there /\ library'[j].head = library[j].head
                          /\ library'[j].title = library[j].title /\ (library'[j].tombstone => library'[j].dead)
                          /\ ~library[j].there => ~library'[j].dead
    PROVE  StepIsSafe
<1>1. UNCHANGED <<thread, ref, reader, cached, sync, run>> /\ edits' \in 0..MaxEdits
  BY Bounds DEF Dashboard, LibraryIInv, LibraryTyped
<1>2. StoreFits /\ Older
  BY RowsAlone DEF LibraryIInv
<1>3. MirrorFollows /\ NativeFollows /\ Chained /\ TitleStays
  <2>1. MirrorFollows
    BY <1>2, MirrorAlone DEF Ids
  <2> QED  BY <2>1 DEF NativeFollows, Chained, TitleStays, Ids
<1>4. library'["mirror"].there => library["mirror"].there /\ Body("mirror")' = Body("mirror")
  BY <1>2, BodyStays DEF LibraryIInv, Ids
<1>5. TombstoneHolds'
  BY DEF TombstoneHolds
<1>6. LibraryTyped'
  BY <1>1, <1>2 DEF LibraryIInv, LibraryTyped, StoreFits
<1>7. Forward /\ CacheFits' /\ RunFits' /\ MirrorFits' /\ RefIsMirror' /\ \A r \in Readers : ReaderFits(r)'
  BY <1>1, <1>2, <1>3, <1>4, WriteFits
<1> QED  BY <1>2, <1>3, <1>5, <1>6, <1>7 DEF StepIsSafe, LibraryIInv, StoreFits

\* One row's membership and tombstone change.
LEMMA RowStep ==
    ASSUME LibraryIInv, UNCHANGED <<titles, versions>>, Dashboard, UNCHANGED space, NEW i \in Ids,
           NEW row \in SessionRow, library' = [library EXCEPT ![i] = row],
           row.there = library[i].there, row.head = library[i].head, row.title = library[i].title,
           (row.tombstone => row.dead), ~library[i].there => ~row.dead
    PROVE  StepIsSafe
<1>1. library \in [Ids -> SessionRow] /\ space' \in BOOLEAN
  BY DEF LibraryIInv, LibraryTyped
<1>2. library' \in [Ids -> SessionRow] /\ library'[i] = row /\ \A j \in Ids \ {i} : library'[j] = library[j]
  BY <1>1
<1>3. \A j \in Ids : (library[j].tombstone => library[j].dead) /\ (~library[j].there => ~library[j].dead)
  BY DEF LibraryIInv, TombstoneHolds, HeadsFit
<1>4. ASSUME NEW j \in Ids
      PROVE  /\ library'[j].there = library[j].there /\ library'[j].head = library[j].head
             /\ library'[j].title = library[j].title /\ (library'[j].tombstone => library'[j].dead)
             /\ ~library[j].there => ~library'[j].dead
  BY <1>2, <1>3
<1> QED  BY <1>1, <1>2, <1>4, RowsStep

\* The dashboard moves, deletes and restores.
LEMMA DashboardStep ==
    ASSUME LibraryIInv,
           \/ \E i \in Ids, ws \in Places : UpdateWorkspace(i, ws)
           \/ \E i \in Ids : DeletePending(i) \/ DeleteSession(i) \/ RestoreSession(i)
           \/ DeleteWorkspace
    PROVE  StepIsSafe
<1>1. \A i \in Ids : /\ library[i] \in SessionRow /\ (library[i].tombstone => library[i].dead)
                     /\ ~library[i].there => ~library[i].dead
  BY DEF LibraryIInv, LibraryTyped, TombstoneHolds, HeadsFit
<1>2. library \in [Ids -> SessionRow]
  BY DEF LibraryIInv, LibraryTyped
<1>3. ASSUME NEW i \in Ids, NEW ws \in Places, UpdateWorkspace(i, ws)
      PROVE  StepIsSafe
  <2> DEFINE row == [library[i] EXCEPT !.ws = ws]
  <2>1. /\ row \in SessionRow /\ row.there = library[i].there /\ row.head = library[i].head
        /\ row.title = library[i].title /\ row.dead = library[i].dead /\ row.tombstone = library[i].tombstone
    BY <1>1 DEF SessionRow
  <2>2. library' = [library EXCEPT ![i] = row]
    BY <1>2, <1>3 DEF UpdateWorkspace
  <2> HIDE DEF row
  <2>3. (row.tombstone => row.dead) /\ (~library[i].there => ~row.dead)
    BY <1>1, <2>1
  <2> QED  BY <1>3, <2>1, <2>2, <2>3, RowStep DEF UpdateWorkspace
<1>4. ASSUME NEW i \in Ids, DeleteSession(i)
      PROVE  StepIsSafe
  <2> DEFINE row == [library[i] EXCEPT !.dead = TRUE, !.tombstone = TRUE, !.previous = library[i].ws,
                                       !.ws = "nowhere"]
  <2>1. /\ row \in SessionRow /\ row.there = library[i].there /\ row.head = library[i].head
        /\ row.title = library[i].title /\ row.dead /\ row.tombstone
    BY <1>1 DEF SessionRow, Places
  <2>2. library' = [library EXCEPT ![i] = row] /\ library[i].there
    BY <1>2, <1>4 DEF DeleteSession
  <2> HIDE DEF row
  <2>3. (row.tombstone => row.dead)
    BY <2>1 DEF SessionRow
  <2> QED  BY <1>4, <2>1, <2>2, <2>3, RowStep DEF DeleteSession
<1>5. ASSUME NEW i \in Ids, RestoreSession(i)
      PROVE  StepIsSafe
  <2>1. PICK ws \in Places : ws = (IF library[i].previous # "nowhere" THEN library[i].previous ELSE library[i].ws)
    BY <1>1 DEF SessionRow
  <2> DEFINE row == [library[i] EXCEPT !.dead = FALSE, !.tombstone = FALSE, !.ws = ws]
  <2>2. /\ row \in SessionRow /\ row.there = library[i].there /\ row.head = library[i].head
        /\ row.title = library[i].title /\ ~row.dead /\ ~row.tombstone
    BY <1>1 DEF SessionRow
  <2>3. library' = [library EXCEPT ![i] = row]
    BY <1>2, <1>5, <2>1 DEF RestoreSession
  <2> HIDE DEF row
  <2>4. (row.tombstone => row.dead)
    BY <2>2 DEF SessionRow
  <2> QED  BY <1>5, <2>2, <2>3, <2>4, RowStep DEF RestoreSession
<1>6. ASSUME DeleteWorkspace
      PROVE  StepIsSafe
  <2>1. library' = [i \in Ids |-> [library[i] EXCEPT !.ws = "nowhere"]]
    BY <1>6 DEF DeleteWorkspace
  <2>2. \A i \in Ids :
           LET row == [library[i] EXCEPT !.ws = "nowhere"]
           IN  /\ row \in SessionRow /\ row.there = library[i].there /\ row.head = library[i].head
               /\ row.title = library[i].title /\ row.dead = library[i].dead /\ row.tombstone = library[i].tombstone
    BY <1>1 DEF SessionRow, Places
  <2>3. library' \in [Ids -> SessionRow]
    BY <2>1, <2>2
  <2>4. \A j \in Ids : /\ library'[j].there = library[j].there /\ library'[j].head = library[j].head
                       /\ library'[j].title = library[j].title /\ (library'[j].tombstone => library'[j].dead)
                       /\ ~library[j].there => ~library'[j].dead
    BY <1>1, <2>1, <2>2
  <2> QED  BY <1>6, <2>3, <2>4, RowsStep DEF DeleteWorkspace
<1>7. ASSUME NEW i \in Ids, DeletePending(i)
      PROVE  StepIsSafe
  <2> DEFINE row == [library[i] EXCEPT !.dead = TRUE]
  <2>1. /\ row \in SessionRow /\ row.there = library[i].there /\ row.head = library[i].head
        /\ row.title = library[i].title /\ row.dead
    BY <1>1 DEF SessionRow
  <2>2. library' = [library EXCEPT ![i] = row] /\ library[i].there
    BY <1>2, <1>7 DEF DeletePending
  <2> HIDE DEF row
  <2> QED  BY <1>7, <2>1, <2>2, RowStep DEF DeletePending
<1> QED  BY <1>3, <1>4, <1>5, <1>6, <1>7

-----------------------------------------------------------------------------
(* The theorems.                                                           *)

LEMMA LibraryBegins == Init => LibraryIInv
<1> SUFFICES ASSUME Init
             PROVE  LibraryIInv
  OBVIOUS
<1>1. Resting \in ReaderRow /\ Unseen \in Sources /\ Missing \in SessionRow /\ NotSyncing \in 0..NotSyncing
  BY Bounds DEF Resting, Unseen, Missing, None, ReaderRow, SessionRow, Sources, Places, NotSyncing
<1>2. LibraryTyped
  <2>1. thread \in Sources /\ titles \in 0..MaxTitles /\ edits \in 0..MaxEdits /\ versions \in Seq(VersionRow)
    BY Bounds DEF Init, Sources
  <2>2. ref \in [version : Nat, body : 0..MaxBody] /\ space \in BOOLEAN /\ run \in RunRow
    BY Bounds DEF Init, None, RunRow, Places
  <2>3. library \in [Ids -> SessionRow] /\ reader \in [Readers -> ReaderRow] /\ cached \in Sources /\ sync \in 0..NotSyncing
    BY <1>1 DEF Init
  <2> QED  BY <2>1, <2>2, <2>3 DEF LibraryTyped
<1>3. VersionsFit /\ HeadsFit /\ MirrorFits /\ CacheFits /\ RunFits /\ RefIsMirror /\ TombstoneHolds
  <2>1. versions = <<>> /\ cached.body = 0 /\ run.base = 0 /\ run.parent = 0 /\ ref.version = 0 /\ thread.body = 1
    BY DEF Init, Unseen, None
  <2>2. \A i \in Ids : /\ ~library[i].there /\ library[i].head = 0
                       /\ library[i].dead = FALSE /\ library[i].tombstone = FALSE
    BY DEF Init, Missing, None
  <2>3. Len(versions) = 0
    BY <2>1
  <2>4. VersionsFit /\ HeadsFit
    BY <2>2, <2>3 DEF VersionsFit, HeadsFit, None
  <2>5. MirrorFits /\ RefIsMirror
    BY <2>1, <2>2, <2>3 DEF MirrorFits, RefIsMirror, Ids
  <2>6. CacheFits /\ RunFits
    BY <2>1 DEF CacheFits, RunFits, None
  <2>7. TombstoneHolds
    BY <2>2 DEF TombstoneHolds
  <2> QED  BY <2>4, <2>5, <2>6, <2>7
<1>4. \A r \in Readers : ReaderFits(r)
  BY <1>1 DEF Init, ReaderFits, Resting, Unseen, None
<1> QED  BY <1>2, <1>3, <1>4 DEF LibraryIInv

LEMMA LibraryStep ==
    ASSUME LibraryIInv, Next
    PROVE  StepIsSafe
<1>1. CASE Grow \/ Rename
  BY <1>1, ThreadStep
<1>2. CASE Stamp \/ RetitleUnchanged \/ Remember \/ Forget \/ ReadTitle \/ SyncTitle
  BY <1>2, StampStep, RetitleUnchangedStep, RememberStep, ForgetStep, ReadTitleStep, TitleStep
<1>3. CASE \E r \in Readers : ReadHead(r) \/ Observe(r) \/ GiveUp(r) \/ Apply(r)
  BY <1>3, ReadHeadStep, ObserveStep, GiveUpStep, ApplyStep
<1>4. CASE ImportNative \/ Prepare \/ Close \/ AppendDsh \/ Derive
  BY <1>4, ImportNativeStep, RunStep, AppendStep, DeriveStep
<1>5. CASE \/ \E i \in Ids, ws \in Places : UpdateWorkspace(i, ws)
           \/ \E i \in Ids : UpdateTitle(i) \/ DeletePending(i) \/ DeleteSession(i) \/ RestoreSession(i)
           \/ DeleteWorkspace
  BY <1>5, TitleStep, DashboardStep
<1> QED  BY <1>1, <1>2, <1>3, <1>4, <1>5 DEF Next

\* Where nothing moves the invariant stays.
LEMMA LibraryRests == LibraryIInv /\ UNCHANGED vars => LibraryIInv'
<1> SUFFICES ASSUME LibraryIInv, UNCHANGED vars
             PROVE  LibraryIInv'
  OBVIOUS
<1>1. UNCHANGED <<thread, titles, edits, versions, library, ref, space, reader, cached, sync, run>>
  BY DEF vars
<1>2. LibraryTyped' /\ VersionsFit' /\ HeadsFit' /\ MirrorFits' /\ (\A r \in Readers : ReaderFits(r)') /\ CacheFits' /\ RunFits'
  BY <1>1, StillFits DEF LibraryIInv, LibraryTyped, StoreFits
<1>3. RefIsMirror' /\ TombstoneHolds'
  BY <1>1, StillFits
<1> QED  BY <1>2, <1>3 DEF LibraryIInv

\* The invariant has what the run checks.
LEMMA LibraryHolds == LibraryIInv => LibraryInv
<1> SUFFICES ASSUME LibraryIInv
             PROVE  LibraryInv
  OBVIOUS
<1>1. TypeOK
  <2>1. \A v \in DOMAIN versions : versions[v] \in
           [of : Ids, parent : 0..(v - 1), body : 0..(2 * MaxBody), title : 0..MaxTitles]
    <3> SUFFICES ASSUME NEW v \in DOMAIN versions
                 PROVE  versions[v] \in [of : Ids, parent : 0..(v - 1), body : 0..(2 * MaxBody), title : 0..MaxTitles]
      OBVIOUS
    <3>1. v \in 1..Len(versions) /\ versions[v] \in VersionRow
      BY DEF LibraryIInv, LibraryTyped
    <3>2. versions[v].parent \in 0..(v - 1)
      BY <3>1 DEF LibraryIInv, VersionsFit, VersionRow
    <3> QED  BY <3>1, <3>2 DEF VersionRow
  <2>2. \A i \in Ids : library[i] \in
           [there : BOOLEAN, head : 0..Len(versions), title : 0..MaxTitles, ws : Places, dead : BOOLEAN,
            tombstone : BOOLEAN, previous : Places]
    <3> SUFFICES ASSUME NEW i \in Ids
                 PROVE  library[i] \in
                          [there : BOOLEAN, head : 0..Len(versions), title : 0..MaxTitles, ws : Places, dead : BOOLEAN,
                           tombstone : BOOLEAN, previous : Places]
      OBVIOUS
    <3>1. library[i] \in SessionRow /\ Len(versions) \in Nat
      BY DEF LibraryIInv, LibraryTyped
    <3>2. library[i].head \in 0..Len(versions)
      BY <3>1 DEF LibraryIInv, HeadsFit, None
    <3> QED  BY <3>1, <3>2 DEF SessionRow
  <2>3. \A i \in Ids : library[i].there => versions[library[i].head].of = i
    BY DEF LibraryIInv, HeadsFit, HeadOf
  <2>4. ref \in [version : 0..Len(versions), body : 0..MaxBody]
    BY DEF LibraryIInv, LibraryTyped, MirrorFits
  <2>5. reader \in [Readers -> [at : {"idle", "stamped", "head", "seen", "applied"}, stamp : Sources,
                                expected : 0..Len(versions), seen : Sources]]
    <3>1. \A r \in Readers : reader[r] \in ReaderRow /\ reader[r].expected <= Len(versions)
      BY DEF LibraryIInv, LibraryTyped, ReaderFits
    <3>2. \A r \in Readers : reader[r] \in [at : {"idle", "stamped", "head", "seen", "applied"}, stamp : Sources,
                                            expected : 0..Len(versions), seen : Sources]
      BY <3>1 DEF ReaderRow, LibraryIInv, LibraryTyped
    <3> QED  BY <3>2 DEF LibraryIInv, LibraryTyped
  <2>6. run \in [up : BOOLEAN, base : 0..Len(versions), title : 0..MaxTitles, ws : Places, parent : 0..Len(versions)]
    <3>1. run \in RunRow /\ Len(versions) \in Nat
      BY DEF LibraryIInv, LibraryTyped
    <3>2. run.base \in 0..Len(versions) /\ run.parent \in 0..Len(versions)
      BY <3>1 DEF LibraryIInv, RunFits, None, RunRow
    <3> QED  BY <3>1, <3>2 DEF RunRow
  <2> QED  BY <2>1, <2>2, <2>3, <2>4, <2>5, <2>6 DEF TypeOK, LibraryIInv, LibraryTyped
<1>2. SkippedIsImported
  <2> SUFFICES ASSUME cached = thread
               PROVE  library["mirror"].there /\ Body("mirror") = thread.body
    BY DEF SkippedIsImported
  <2>1. library["mirror"].there /\ thread.body <= Body("mirror") /\ Body("mirror") <= thread.body
    BY DEF LibraryIInv, MirrorFits, CacheFits
  <2>2. Body("mirror") \in Nat /\ thread.body \in Nat
    BY <2>1, HeadThere, Bodies, Bounds DEF LibraryIInv, LibraryTyped, Ids
  <2> QED  BY <2>1, <2>2
<1> QED  BY <1>1, <1>2 DEF LibraryInv, LibraryIInv

\* Whatever else the instance's focus is on.
LEMMA LibraryAlways == FocusSpec => []LibraryIInv
<1>1. FocusInit => LibraryIInv
  BY LibraryBegins DEF FocusInit
<1>2. LibraryIInv /\ [FocusNext]_<<focus, vars, histories>> => LibraryIInv'
  BY LibraryStep, LibraryRests DEF FocusNext, StepIsSafe
<1> QED  BY <1>1, <1>2, PTL DEF FocusSpec

\* Rows, versions, tombstones, the mirror's reference and what the observer remembers agree, whoever
\* writes the canonical library between what another read and wrote (canonical-engine-store.ts,
\* codex-import-service.ts).
THEOREM LibrarySafe == FocusSpec => []LibraryInv
BY LibraryAlways, LibraryHolds, PTL

\* No head is replaced by a version that does not know it, no title of a DSH session goes back to an
\* older one, and the mirror follows its thread forward only, though imports, runs and title syncs
\* overlap (codex-canonical-import.ts, dsh-append.ts, codex-catalog-title-sync.ts).
THEOREM WritesKept == FocusSpec => WritesAreKept
<1>1. LibraryIInv /\ [FocusNext]_<<focus, vars, histories>> => [Chained /\ TitleStays /\ Forward]_vars
  BY LibraryStep DEF FocusNext, StepIsSafe
<1> QED  BY <1>1, LibraryAlways, PTL DEF FocusSpec, WritesAreKept
=============================================================================
