---------------------------- MODULE NativeHistory ----------------------------
(***************************************************************************)
(* A history that DSH writes, kept as canonical events with their native   *)
(* envelopes, and given back to DSH at the next run                        *)
(* (`materialize.ts` and `normalize-append.ts` of `adapter-dsh-alpha2` and *)
(* `adapter-dsh-rc1`).  Rows refer to rows by sequence, and sequences are  *)
(* numbered anew at every projection: stored rows hold several chunks, a   *)
(* Codex call gets a message of its own.                                   *)
(*                                                                         *)
(* A history may begin as an import of a DSH log, as a mirror of Codex, or *)
(* as nothing, be continued under the older DSH (alpha2) and then under    *)
(* the newer (rc1), which reads turns strictly; two migrations repair what *)
(* the older adapter left.  How rc1 gives portable histories to DSH is     *)
(* Conversation's subject.  Turns stand for turns and their steps.         *)
(***************************************************************************)
EXTENDS Integers, Sequences, FiniteSets
LOCAL INSTANCE SequencesExt

CONSTANTS MaxRows, MaxRuns   \* bounds: rows DSH writes, runs

VARIABLES
    canon,      \* the head's events: [at, type, was, held, raw, width, refs, over, id, meant]
    origin,     \* "import", "codex" or "new"
    adapter,    \* the adapter of the last run, or none
    running,    \* whether a run is up
    rows,       \* the native rows of the run
    recorded,   \* how many of them the Engine has
    kept,       \* the rows the Engine had when the last run ended
    refused,    \* why the last projection was refused, or "no"
    whole,      \* every run ended between turns
    written, runs

hvars == <<canon, origin, adapter, running, rows, recorded, kept, refused, whole, written, runs>>

Boundaries   == {"turn", "end"}
Conversation == {"user", "assistant", "call", "result"}
Native       == Boundaries \cup Conversation \cup {"chunk"}
Types        == Native \cup {"title", "plugin"}   \* title: what DSH logs for itself; plugin: any other

\* A row: what it is, which rows it was made from, which it replaces, and (for the properties) its
\* identity and those of the rows it means.
Row(type, refs, over, id, meant) == [type |-> type, refs |-> refs, over |-> over, id |-> id, meant |-> meant]

\* An event with its native envelope, or without.
Event(at, type, width, refs, id, meant) ==
    [at |-> at, type |-> type, was |-> type, held |-> "no", raw |-> TRUE, width |-> width, refs |-> refs, over |-> {},
     id |-> id, meant |-> meant]

Bare(at, type, id, meant) == [Event(at, type, 1, {}, id, meant) EXCEPT !.raw = FALSE]

\* What has no common meaning: a card, its envelope is the adapter's evidence.
Held(e, a) == [e EXCEPT !.type = "card", !.held = a, !.raw = FALSE, !.refs = {}, !.over = {}]

\* A stored log, its chunks packed and a title that an older build of rc1 held out; a mirror.
Stored == <<Event(0, "turn", 1, {}, 1, {}), Held(Event(1, "title", 1, {}, 2, {}), "rc1"), Event(2, "chunk", 2, {}, 3, {}),
            Event(4, "assistant", 1, {2, 3}, 5, {3, 4}), Event(5, "end", 1, {}, 6, {})>>
Mirror == <<Bare(0, "user", 1, {}), Bare(1, "call", 2, {}), Bare(2, "result", 3, {2}), Bare(3, "assistant", 4, {})>>

Init ==
    /\ \E o \in {"import", "codex", "new"} :
          /\ origin = o
          /\ canon = (IF o = "import" THEN Stored ELSE IF o = "codex" THEN Mirror ELSE <<>>)
    /\ adapter = "none" /\ running = FALSE /\ rows = <<>> /\ recorded = 0 /\ kept = <<>>
    /\ refused = "no" /\ whole = TRUE /\ written = 0 /\ runs = 0

Ids(set) == {r.id : r \in set}

-----------------------------------------------------------------------------
(* Projection.                                                             *)

Draft(row, at, joins) == [row |-> row, at |-> at, joins |-> joins]

\* Packed chunks are rows of their own; a call of Codex gets the message it belongs to; a result of
\* Codex is joined to its call.
Expanded(e) ==
    IF e.width > 1
    THEN [i \in 1..e.width |-> Draft(Row(e.type, {}, {}, e.id + i - 1, {}), e.at + i - 1, FALSE)]
    ELSE LET own == Draft(Row(e.type, e.refs, e.over, e.id, e.meant), e.at, ~e.raw /\ e.type = "result") IN
         IF ~e.raw /\ e.type = "call" THEN <<Draft(Row("assistant", {}, {}, 0, {}), -1, FALSE), own>> ELSE <<own>>

Drafts(events) == FlattenSeq([i \in DOMAIN events |-> Expanded(events[i])])

\* Where a sequence of the history is in the log that is made of it.
Places(drafts) == {drafts[i].at : i \in DOMAIN drafts} \ {-1}
Place(drafts, at) == (CHOOSE i \in DOMAIN drafts : drafts[i].at = at) - 1

\* A replacement keeps a number nothing is known of.
Rebased(drafts, over) == {IF o \in Places(drafts) THEN Place(drafts, o) ELSE o : o \in over}

\* The rows DSH gets.  A result of Codex without its call is a card.
Given(events) ==
    LET drafts == Drafts(events)
        CallsOf(d) == {i \in DOMAIN drafts : drafts[i].row.type = "call" /\ drafts[i].row.id \in d.row.meant}
        Final(d) ==
            IF d.joins
            THEN IF CallsOf(d) = {} THEN [d.row EXCEPT !.type = "card"]
                 ELSE [d.row EXCEPT !.refs = {(CHOOSE i \in CallsOf(d) : \A j \in CallsOf(d) : j <= i) - 1}]
            ELSE [d.row EXCEPT !.refs = {Place(drafts, r) : r \in @}, !.over = Rebased(drafts, @)]
    IN [i \in DOMAIN drafts |-> Final(drafts[i])]

\* The projection ends with an error when a row was made from one that is not there, or when
\* sequences do not grow.
Givable(events) ==
    LET drafts == Drafts(events) IN
    /\ \A i \in DOMAIN drafts : ~drafts[i].joins => drafts[i].row.refs \subseteq Places(drafts)
    /\ \A i, j \in DOMAIN drafts : i < j /\ drafts[i].at # -1 /\ drafts[j].at # -1 => drafts[i].at < drafts[j].at

\* rc1: portable conversation and native envelopes do not mix.
Portable(events) == \E e \in ToSet(events) : e.type \in Conversation /\ ~e.raw
Mixed(events) == Portable(events) /\ \E e \in ToSet(events) : e.raw /\ e.type \in Native

\* rc1: what it holds out no longer is put back from the evidence, in histories of DSH's own.
Restored(events) ==
    IF Portable(events) \/ origin = "codex" THEN events
    ELSE [i \in DOMAIN events |-> IF events[i].held = "rc1" /\ events[i].was = "title"
                                  THEN [events[i] EXCEPT !.type = "title", !.held = "no", !.raw = TRUE] ELSE events[i]]

\* The turns of a log: a state after each row, "bad" once it is none.
Read(state, row) ==
    LET in == state.turn = "open" IN
    IF state.turn = "bad" THEN state ELSE
    CASE row.type = "turn"                  -> [turn |-> IF in THEN "bad" ELSE "open", calls |-> {}]
      [] row.type = "end"                   -> [turn |-> IF in THEN "none" ELSE "bad", calls |-> {}]
      [] row.type \in {"chunk", "assistant"} -> IF in THEN state ELSE [state EXCEPT !.turn = "bad"]
      [] row.type = "call"                  -> IF in THEN [state EXCEPT !.calls = @ \cup {row.id}]
                                               ELSE [state EXCEPT !.turn = "bad"]
      [] row.type = "result"                -> IF in /\ (row.over # {} \/ row.meant \subseteq state.calls)
                                               THEN [state EXCEPT !.calls = @ \ row.meant]
                                               ELSE [state EXCEPT !.turn = "bad"]
      [] OTHER                              -> state
Inspected(log) == FoldLeft(Read, [turn |-> "none", calls |-> {}], log)

View(a) == IF a = "rc1" THEN Restored(canon) ELSE canon

Begin(a) ==
    /\ ~running /\ runs < MaxRuns /\ (adapter = "rc1" => a = "rc1")
    /\ Givable(View(a))
    /\ refused' = (IF a = "rc1" /\ Mixed(View(a)) THEN "mixed"
                   ELSE IF a = "rc1" /\ ~Portable(View(a)) /\ Inspected(Given(View(a))).turn = "bad" THEN "turns"
                   ELSE "no")
    /\ IF refused' = "no" /\ ~(a = "rc1" /\ Portable(View(a)))
       THEN /\ running' = TRUE /\ adapter' = a /\ runs' = runs + 1
            /\ rows' = Given(View(a)) /\ recorded' = Len(rows')
       ELSE UNCHANGED <<running, adapter, runs, rows, recorded>>
    /\ UNCHANGED <<canon, origin, kept, whole, written>>

-----------------------------------------------------------------------------
(* DSH.                                                                    *)

\* The older DSH knows the turns of this run only: it was given cards for the others.
Turns(log) ==
    Inspected(IF adapter = "rc1" THEN log
              ELSE SelectSeq(log, LAMBDA r : r.id > 100))

NextId == 101 + written

\* The chunks since the last row of another kind.
Streamed == {i \in DOMAIN rows : \A j \in i..Len(rows) : rows[j].type = "chunk"}

Written(type) ==
    CASE type = "assistant" -> {Row(type, {i - 1 : i \in Streamed}, {}, NextId, {rows[i].id : i \in Streamed})}
      [] type = "result"    -> {Row(type, {i - 1}, {}, NextId, {rows[i].id}) :
                                   i \in {j \in DOMAIN rows : rows[j].type = "call"}}
      [] OTHER              -> {Row(type, {}, {}, NextId, {})}

Emit(type) ==
    /\ running /\ written < MaxRows
    /\ \E row \in Written(type) : rows' = Append(rows, row) /\ Turns(rows').turn # "bad"
    /\ written' = written + 1
    /\ UNCHANGED <<canon, origin, adapter, running, recorded, kept, refused, whole, runs>>

\* DSH puts a shorter result in the place of one of its own.
Shorten ==
    /\ running /\ written < MaxRows /\ Turns(rows).turn = "open"
    /\ \E i \in DOMAIN rows : rows[i].type = "result" /\ rows[i].over = {} /\ rows[i].id > 100
          /\ rows' = Append(rows, Row("result", {}, {i - 1}, NextId, {rows[i].id}))
    /\ written' = written + 1
    /\ UNCHANGED <<canon, origin, adapter, running, recorded, kept, refused, whole, runs>>

-----------------------------------------------------------------------------
(* What the Engine keeps.                                                  *)

\* alpha2 keeps the conversation and holds out the rest, turns too; rc1 keeps turns and what DSH
\* logs for itself.
Known(a) == IF a = "rc1" THEN Types \ {"plugin"} ELSE Conversation \cup {"chunk"}

\* Mutant: the event is numbered by its place in the history.
NormalizedDense(row, at) ==
    LET e == [Event(Len(canon), row.type, 1, row.refs, row.id, row.meant) EXCEPT !.over = row.over]
    IN IF row.type \in Known(adapter) THEN e ELSE Held(e, adapter)

\* The native sequence is the canonical one.
Normalized(row, at) ==
    LET e == [Event(at, row.type, 1, row.refs, row.id, row.meant) EXCEPT !.over = row.over]
    IN IF row.type \in Known(adapter) THEN e ELSE Held(e, adapter)

Room(at) == canon # <<>> => canon[Len(canon)].at + canon[Len(canon)].width - 1 < at

Append1 ==
    /\ running /\ recorded < Len(rows) /\ Room(recorded)
    /\ canon' = Append(canon, Normalized(rows[recorded + 1], recorded)) /\ recorded' = recorded + 1
    /\ UNCHANGED <<origin, adapter, running, rows, kept, refused, whole, written, runs>>

\* The run ends, DSH drained or dead: what the Engine does not have is lost.
End ==
    /\ running /\ running' = FALSE
    /\ kept' = SubSeq(rows, 1, recorded)
    /\ whole' = (whole /\ Turns(kept').turn = "none")
    /\ rows' = <<>> /\ recorded' = 0
    /\ UNCHANGED <<canon, origin, adapter, refused, written, runs>>

-----------------------------------------------------------------------------
(* Migrations, offline.                                                    *)

\* The turns alpha2 held out, from their evidence.
RestoreBoundaries ==
    /\ ~running
    /\ canon' = [i \in DOMAIN canon |-> IF canon[i].held = "alpha2" /\ canon[i].was \in Boundaries
                                        THEN [canon[i] EXCEPT !.type = canon[i].was, !.held = "no", !.raw = TRUE] ELSE canon[i]]
    /\ canon' # canon
    /\ UNCHANGED <<origin, adapter, running, rows, recorded, kept, refused, whole, written, runs>>

\* Conversation without envelopes, numbered anew; what only DSH could use stays in the old version.
Portableized(events) ==
    LET left == SelectSeq([i \in DOMAIN events |->
                              IF events[i].raw /\ events[i].type \in Conversation
                              THEN [events[i] EXCEPT !.raw = FALSE, !.refs = {}, !.over = {}] ELSE events[i]],
                          LAMBDA e : e.was \notin Boundaries \cup {"chunk", "title"})
    IN [i \in DOMAIN left |-> [left[i] EXCEPT !.at = i - 1]]

\* The continuation of a mirror becomes portable when its parent is repaired, to go on under rc1.
MakePortable ==
    /\ ~running /\ origin = "codex" /\ Mixed(canon)
    /\ canon' = Portableized(canon)
    /\ kept' = <<>> /\ adapter' = "rc1"
    /\ UNCHANGED <<origin, running, rows, recorded, refused, whole, written, runs>>

\* A user's row goes the way of the other rows that need neither a turn nor another row.
Next ==
    \/ \E a \in {"alpha2", "rc1"} : Begin(a)
    \/ \E t \in Types \ {"user"} : Emit(t)
    \/ Shorten \/ Append1 \/ End \/ RestoreBoundaries \/ MakePortable

-----------------------------------------------------------------------------
(* Properties.                                                             *)

\* Two rows of two logs are one, but that what DSH is not given again is a card.
SameRow(given, row) ==
    /\ given.id = row.id /\ given.meant = row.meant
    /\ given.type = row.type => given.refs = row.refs /\ given.over = row.over
    /\ given.type # row.type => given.type = "card" \/ row.type = "card"

\* Portable histories under rc1 are Conversation's.
Elsewhere == adapter = "rc1" /\ Portable(canon)

\* A row refers to the rows it means: messages to their chunks, results to their calls,
\* replacements to what they replace (materialize.ts, rebaseSurfaceOp).
RefersTo(log) == \A i \in DOMAIN log :
    log[i].type # "card" => {log[r + 1].id : r \in log[i].refs \cup log[i].over} = log[i].meant

\* What was recorded can always be given to DSH again, and is the log DSH had: every row at its
\* number, made from the rows it was made from, however the sequences shifted between projections
\* (materialize.ts against normalize-append.ts).  References hold in this log and in the next.
GivenIsRecorded ==
    LET log == IF running THEN SubSeq(rows, 1, recorded) ELSE kept
        now == Given(View(adapter))
    IN /\ Givable(View(adapter))
       /\ RefersTo(rows)
       /\ ~Elsewhere => RefersTo(now)
       /\ log # <<>> /\ ~Elsewhere =>
              Len(now) = Len(log) /\ \A i \in DOMAIN log : SameRow(now[i], log[i])

\* The native log is never behind the canonical sequences, so what DSH writes next has a sequence
\* the history lacks (normalize-append.ts, codex-observation.ts).
RoomForMore == running => Room(recorded)

\* What the migrations leave, rc1 opens: refusals are for boundaries that were held out or a
\* mirror continued with envelopes, and the repairs end them if no run ended inside a turn
\* (inspect.ts, restore-lifecycle-evidence.ts, portableizeRc1CanonicalHistory).
MigratedOpens ==
    /\ refused = "turns" /\ whole => \E e \in ToSet(canon) : e.was \in Boundaries
    /\ (whole /\ ~Portable(canon) /\ \A e \in ToSet(canon) : e.was \in Boundaries => e.type # "card")
          => Inspected(Given(Restored(canon))).turn # "bad"
    /\ refused = "mixed" => origin = "codex"
    /\ origin = "codex" /\ adapter # "none" /\ ~running /\ kept = <<>> => ~Mixed(canon)

\* A history survives its projections: nothing lost, moved or misreferred, and it stays open to
\* appends and to the newer DSH (adapter-dsh-alpha2, adapter-dsh-rc1).
NativeInv == GivenIsRecorded /\ RoomForMore /\ MigratedOpens
=============================================================================
