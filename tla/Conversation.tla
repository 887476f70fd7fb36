----------------------------- MODULE Conversation -----------------------------
(***************************************************************************)
(* One conversation from a Codex rollout to DSH and back:                  *)
(* `adapter-codex-read/src/normalizer.ts` gives its events turns,          *)
(* `session-domain/src/conversation-topology.ts` plans their steps,        *)
(* `adapter-dsh-rc1/src/materialize.ts` writes the native log DSH opens,   *)
(* and `canonical-session-engine/src/dsh-append.ts` takes back what DSH    *)
(* adds to that log, as portable history.                                  *)
(*                                                                         *)
(* The sequence of an event is its identity.  Reasoning and assistant text *)
(* are one kind (planner and materializer treat them alike), "other" is a  *)
(* record without portable meaning, and every call has an id (both         *)
(* adapters turn calls without one into "other").                          *)
(***************************************************************************)
EXTENDS Integers, Sequences, SequencesExt, FiniteSets, FiniteSetsExt

CONSTANTS
    Tasks,          \* tasks of Codex: numbers
    Calls,          \* tool calls
    None,           \* no call
    MaxRollout,     \* bound: events of the rollout
    MaxEvents,      \* bound: events of the rollout and of DSH
    MaxRestarts,    \* bound: projections of the derived session after the first
    Gaps            \* how many rows without portable meaning DSH writes before an assistant message

VARIABLES
    codex,     \* CodexTurnAssignmentState: [active, current, turns]
    raw,       \* the events as their adapters normalized them
    history,   \* the events of the head version, with planned topology
    place,     \* "codex": mirrored; "dsh": projected and open in DSH
    revision,  \* length of the native log
    queue,     \* rows DSH wrote that are not appended yet
    running,   \* what DSH's model is doing: [step, waits]
    refused,   \* the Engine refused the queue
    restarts

vars == <<codex, raw, history, place, revision, queue, running, refused, restarts>>

Kinds == {"user", "assistant", "call", "result", "other"}

\* A turn is named after a task, a line of the rollout or its first event.
NoTurn  == <<"none", 0>>
Named   == {<<"task", t>> : t \in Tasks}
NoPlace == [turn |-> NoTurn, ord |-> -1, step |-> -1]

Event(seq, kind, call, topo) == [seq |-> seq, kind |-> kind, call |-> call, topo |-> topo]

ModelWork(e) == e.kind \in {"assistant", "call"}

-----------------------------------------------------------------------------
(* planConversationTopology.                                               *)

NothingPlanned == [plan |-> <<>>, cursor |-> NoPlace, highest |-> -1, advance |-> FALSE,
                   pending |-> {}, seen |-> {}, worked |-> {}, issues |-> {}]

At(topo) == <<topo.turn, topo.step>>

Outstanding(s, at) == {p \in s.pending : p.at = at}

\* Where an event goes: explicit coordinates win; an explicit turn gets the steps derived in it,
\* a user after model work begins one unless a call is outstanding; without topology a user begins
\* a turn; the first model event after the last result of a step begins the next.
Placed(s, e) ==
    LET next    == [s.cursor EXCEPT !.step = @ + 1]
        steered == /\ e.kind = "user" /\ At(s.cursor) \in s.worked
                   /\ Outstanding(s, At(s.cursor)) = {}
    IN  IF e.topo.step >= 0 THEN e.topo
        ELSE IF e.topo = NoPlace /\ (e.kind = "user" \/ s.cursor = NoPlace)
             THEN [turn |-> <<"event", e.seq>>, ord |-> s.highest + 1, step |-> 0]
        ELSE IF e.topo # NoPlace /\ s.cursor.turn # e.topo.turn THEN [e.topo EXCEPT !.step = 0]
        ELSE IF steered \/ (s.advance /\ ModelWork(e)) THEN next ELSE s.cursor

\* A turn has one ordinal and an ordinal one turn.
Contradicts(s, at) == \E e \in Range(s.plan) : (e.topo.turn = at.turn) # (e.topo.ord = at.ord)

\* Mutant: a result in another step than its call closes it like any other.
ClosingLoose(s, e, at) ==
    LET calls == {p \in s.pending : p.call = e.call}
    IN  [issues |-> IF calls = {} THEN {"orphan"} ELSE {}, pending |-> s.pending \ calls,
         advance |-> calls # {} /\ \A p \in calls : Outstanding(s, p.at) \subseteq calls]

\* A result closes its call; the last one of a step, in that step, ends it.
Closing(s, e, at) ==
    LET calls == {p \in s.pending : p.call = e.call}
        apart == \E p \in calls : p.at # At(at)
    IN  [issues |-> (IF calls = {} THEN {"orphan"} ELSE {}) \cup (IF apart THEN {"conflict"} ELSE {}),
         pending |-> s.pending \ calls,
         advance |-> calls # {} /\ ~apart /\ Outstanding(s, At(at)) \subseteq calls]

\* A step that ended stays ended until the next event with a place of its own.
Staying(s, e, at) == s.advance /\ e.topo.step < 0 /\ at = s.cursor

PlanEvent(s, e) ==
    IF e.kind = "other" THEN [s EXCEPT !.plan = Append(@, e)]
    ELSE LET at     == Placed(s, e)
             closed == Closing(s, e, at)
             double == e.kind = "call" /\ e.call \in s.seen
         IN  [plan    |-> Append(s.plan, [e EXCEPT !.topo = at]),
              cursor  |-> at,
              highest |-> Max({s.highest, at.ord}),
              advance |-> Staying(s, e, at) \/ (e.kind = "result" /\ closed.advance),
              pending |-> IF e.kind = "result" THEN closed.pending
                          ELSE IF e.kind = "call" /\ ~double
                               THEN s.pending \cup {[call |-> e.call, at |-> At(at)]} ELSE s.pending,
              seen    |-> IF e.kind = "call" THEN s.seen \cup {e.call} ELSE s.seen,
              worked  |-> IF ModelWork(e) THEN s.worked \cup {At(at)} ELSE s.worked,
              issues  |-> s.issues \cup (IF Contradicts(s, at) THEN {"conflict"} ELSE {})
                          \cup (IF double THEN {"duplicate"} ELSE {})
                          \cup (IF e.kind = "result" THEN closed.issues ELSE {})]

Plan(events) == FoldLeft(PlanEvent, NothingPlanned, events)

Planned(events) == Plan(events).plan

\* The reasons of continuationEligibility.
Issues(events) ==
    LET s == Plan(events) IN s.issues \cup (IF s.pending # {} THEN {"unclosed"} ELSE {})

-----------------------------------------------------------------------------
(* materializePortableConversationEvents, over the events as a set.        *)

Spoken(E) == {e \in E : e.kind # "other"}
Earliest(E) == CHOOSE e \in E : \A f \in E : e.seq <= f.seq
Latest(E)   == CHOOSE e \in E : \A f \in E : e.seq >= f.seq

\* The other events of its turn; the model's events of its step.
TurnOf(E, e) == {f \in Spoken(E) : f.topo.ord = e.topo.ord}
StepOf(E, e) == {f \in TurnOf(E, e) : f.kind # "user" /\ f.topo.step = e.topo.step}

\* Ordinals are dense from zero and each one's events are contiguous.
Layered(E, ordinal) ==
    /\ {ordinal[e] : e \in E} = 0 .. Cardinality({ordinal[e] : e \in E}) - 1
    /\ \A e, f \in E : ordinal[e] < ordinal[f] => e.seq < f.seq

\* A call and a result reach the model's history when they are each other's only partner, in one step.
Matched(E, e) ==
    /\ e.kind \in {"call", "result"}
    /\ \A k \in {"call", "result"} : Cardinality({f \in E : f.kind = k /\ f.call = e.call}) = 1
    /\ \A f \in E : (f.kind \in {"call", "result"} /\ f.call = e.call) =>
           f.topo.ord = e.topo.ord /\ f.topo.step = e.topo.step

\* What a step's one assistant message is made of.
Message(E, step) == {f \in step : f.kind = "assistant" \/ (f.kind = "call" /\ Matched(E, f))}

\* A step whose message lies on both sides of a user.
Straddles(E, step) ==
    LET message == Message(E, step)
    IN  message # {} /\ \E u \in TurnOf(E, Earliest(step)) :
            u.kind = "user" /\ u.seq > Earliest(message).seq /\ u.seq < Latest(message).seq

\* The projection succeeds.
Projects(E) ==
    /\ \A e \in Spoken(E) : e.topo # NoPlace
    /\ \A e, f \in Spoken(E) : (e.topo.turn = f.topo.turn) = (e.topo.ord = f.topo.ord)
    /\ Layered(Spoken(E), [e \in Spoken(E) |-> e.topo.ord])
    /\ \A e \in Spoken(E) :
          LET model == {f \in TurnOf(E, e) : f.kind # "user"}
          IN  model = {} \/ Layered(model, [f \in model |-> f.topo.step])
    /\ \A e \in Spoken(E) : e.kind # "user" => ~Straddles(E, StepOf(E, e))

\* Mutant: the end of a step comes after its first event.
RowEarly(type, of, rank, turn, step, call) ==
    [type |-> type, of |-> of, key |-> 1000 * Earliest(of).seq + rank, turn |-> turn, step |-> step, call |-> call]

\* A row stands at an event, before or after it by its rank.
Row(type, of, rank, turn, step, call) ==
    [type |-> type, of |-> of,
     key |-> 1000 * (IF rank > 0 THEN Latest(of).seq ELSE Earliest(of).seq) + rank,
     turn |-> turn, step |-> step, call |-> call]

\* One card for the other records of a turn, or of a region outside the turns.
Card(E, o) ==
    LET inside(p) == {e.topo.ord : e \in {f \in Spoken(E) :
                         Earliest(TurnOf(E, f)).seq < p.seq /\ p.seq < Latest(TurnOf(E, f)).seq}}
        before(p) == {e \in Spoken(E) : e.seq < p.seq}
    IN  {p \in E : /\ p.kind = "other" /\ inside(p) = inside(o)
                   /\ inside(o) # {} \/ before(p) = before(o)}

TurnRows(E, turn) ==
    LET n == Earliest(turn).topo.ord + 1
    IN  {Row("turn/start", turn, -400, n, 0, None), Row("turn/end", turn, 400, n, 0, None)}

StepRows(E, step) ==
    LET n       == Earliest(step).topo.ord + 1
        s       == Earliest(step).topo.step + 1
        message == Message(E, step)
    IN  {Row("step/start", step, -300, n, s, None), Row("step/end", step, 300, n, s, None)}
        \cup (IF message = {} THEN {} ELSE {Row("assistant", message, -200, n, s, None)})

\* A call or result without its partner becomes evidence beside the conversation.
EventRow(E, e) ==
    Row(IF e.kind \in {"call", "result"} /\ ~Matched(E, e) THEN "evidence" ELSE e.kind,
        IF e.kind = "other" THEN Card(E, e) ELSE {e}, 0, e.topo.ord + 1, e.topo.step + 1, e.call)

Rows(E) ==
    UNION ({TurnRows(E, TurnOf(E, e)) : e \in Spoken(E)}
           \cup {StepRows(E, StepOf(E, e)) : e \in {f \in Spoken(E) : f.kind # "user"}})
    \cup {EventRow(E, e) : e \in {f \in E : f.kind # "assistant"}}

Native(E) ==
    LET rows == Rows(E)
    IN  [i \in 1 .. Cardinality(rows) |->
            CHOOSE r \in rows : Cardinality({q \in rows : q.key < r.key}) = i - 1]

-----------------------------------------------------------------------------
(* assertRc1SessionInvariants: the lifecycle DSH expects of a log.         *)

Fresh == [ok |-> TRUE, turn |-> 0, step |-> 0, nextTurn |-> 1, nextStep |-> 1, calls |-> {}]

Inspect(s, r) ==
    LET open == s.step # 0 /\ s.turn = r.turn /\ s.step = r.step
    IN  CASE r.type = "turn/start" ->
               [s EXCEPT !.ok = @ /\ s.turn = 0 /\ r.turn = s.nextTurn, !.turn = r.turn, !.nextStep = 1]
          [] r.type = "turn/end" ->
               [s EXCEPT !.ok = @ /\ s.turn = r.turn /\ s.step = 0, !.turn = 0, !.nextTurn = @ + 1]
          [] r.type = "step/start" ->
               [s EXCEPT !.ok = @ /\ s.turn = r.turn /\ s.step = 0 /\ r.step = s.nextStep, !.step = r.step]
          [] r.type = "step/end" ->
               [s EXCEPT !.ok = @ /\ open, !.step = 0, !.nextStep = @ + 1, !.calls = {}]
          [] r.type = "assistant" -> [s EXCEPT !.ok = @ /\ open]
          [] r.type = "call"      -> [s EXCEPT !.ok = @ /\ open, !.calls = @ \cup {r.call}]
          [] r.type = "result"    ->
               [s EXCEPT !.ok = @ /\ open /\ r.call \in s.calls, !.calls = @ \ {r.call}]
          [] OTHER -> s

WellFormed(rows) ==
    LET s == FoldLeft(Inspect, Fresh, rows) IN s.ok /\ s.turn = 0

-----------------------------------------------------------------------------
(* The Codex rollout.                                                      *)

NoTask == [active |-> NoTurn, current |-> NoTurn, turns |-> <<>>]

Init ==
    /\ codex = NoTask /\ raw = <<>> /\ history = <<>>
    /\ place = "codex" /\ revision = 0 /\ queue = <<>>
    /\ running = [step |-> "idle", waits |-> {}] /\ refused = FALSE /\ restarts = 0

InCodex == place = "codex" /\ UNCHANGED <<place, revision, queue, running, refused, restarts>>

\* Tasks are numbered as they come.
NewTask == <<"task", 1 + Cardinality(Range(codex.turns) \cap Named)>>

\* task_started, turn_started or turn_context.
StartTask(t) ==
    /\ InCodex /\ codex.active = NoTurn /\ t = NewTask /\ Len(raw) < MaxRollout
    /\ codex' = [codex EXCEPT !.active = t]
    /\ UNCHANGED <<raw, history>>

EndTask ==
    /\ InCodex /\ codex.active # NoTurn
    /\ codex' = [codex EXCEPT !.active = NoTurn]
    /\ UNCHANGED <<raw, history>>

\* The enclosing task, the turn the item names, the turn of the item before it, or its own.
TurnFor(kind, payload) ==
    IF codex.active # NoTurn THEN codex.active
    ELSE IF payload # NoTurn THEN payload
    ELSE IF kind # "user" /\ codex.current # NoTurn THEN codex.current
    ELSE <<"line", Len(raw)>>

\* An import normalizes and plans the whole rollout again, so that the head is what the last one made.
Observe(e) == raw' = Append(raw, e) /\ history' = Planned(raw')

\* Rollouts name a turn they are in or a new one; the materializer refuses those that return to an
\* earlier one (docs/changes/SESSION-MAINT-M06-IN-TURN-STEERING.md:58).  A call is never recorded
\* after its result; its result may be missing, repeated or without it.
Record(kind, call, payload) ==
    /\ InCodex /\ Len(raw) < MaxRollout
    /\ kind = "call" => \A e \in Range(raw) : e.kind = "result" => e.call # call
    /\ payload # NoTurn => codex.active = NoTurn /\ payload \in {codex.current, NewTask}
    /\ LET turn  == TurnFor(kind, payload)
           turns == IF turn \in Range(codex.turns) THEN codex.turns ELSE Append(codex.turns, turn)
           ord   == (CHOOSE i \in DOMAIN turns : turns[i] = turn) - 1
       IN  /\ codex' = [codex EXCEPT !.current = turn, !.turns = turns]
           /\ Observe(Event(Len(raw), kind, call, [turn |-> turn, ord |-> ord, step |-> -1]))

\* A record Codex' adapter has no portable meaning for.
RecordOther ==
    /\ InCodex /\ Len(raw) < MaxRollout
    /\ Observe(Event(Len(raw), "other", None, NoPlace))
    /\ UNCHANGED codex

\* activeCodexEnvelopes: only the replacement of what was compacted is active, here its last user
\* message, and the turns are counted from it.
Compact ==
    /\ InCodex /\ \E e \in Range(raw) : e.kind = "user"
    /\ LET turn == <<"line", 0>>
           e    == Event(0, "user", None, [turn |-> turn, ord |-> 0, step |-> -1])
       IN  /\ codex' = [NoTask EXCEPT !.current = turn, !.turns = <<turn>>]
           /\ raw' = <<e>> /\ history' = Planned(raw')

-----------------------------------------------------------------------------
(* DSH.                                                                    *)

\* The session is materialized for a run; a native log that fails inspection is not opened.
Project ==
    /\ place = "codex" \/ (place = "dsh" /\ queue = <<>> /\ restarts < MaxRestarts)
    /\ history # <<>> /\ Projects(Range(history)) /\ WellFormed(Native(Range(history)))
    /\ Spoken(Range(history)) # {}
    /\ restarts' = IF place = "dsh" THEN restarts + 1 ELSE restarts
    /\ place' = "dsh" /\ revision' = Len(Native(Range(history)))
    /\ running' = [step |-> "idle", waits |-> {}]
    /\ UNCHANGED <<codex, raw, history, queue, refused>>

\* DSH writes a row, `gap` rows without portable meaning before it, and the plugin queues it.
Emit(kind, call, gap, then) ==
    /\ place = "dsh" /\ ~refused /\ Len(raw) + Len(queue) < MaxEvents
    /\ queue' = Append(queue, Event(revision + gap, kind, call, NoPlace))
    /\ revision' = revision + gap + 1 /\ running' = then
    /\ UNCHANGED <<codex, raw, history, place, refused, restarts>>

\* turn/start comes before the user; step/start and chunks before the assistant.
DshUser == running.waits = {} /\ Emit("user", None, 1, [step |-> "asked", waits |-> {}])
DshAssistant(gap) ==
    /\ running.step \in {"asked", "answered"} /\ running.waits = {}
    /\ Emit("assistant", None, 1 + gap, [step |-> "speaks", waits |-> {}])
DshCall(c) ==
    /\ running.step = "speaks"
    /\ \A i \in DOMAIN raw \cup DOMAIN queue :
          (i \in DOMAIN raw => raw[i].call # c) /\ (i \in DOMAIN queue => queue[i].call # c)
    /\ Emit("call", c, 0, [running EXCEPT !.waits = @ \cup {c}])
DshResult(c) ==
    /\ c \in running.waits
    /\ Emit("result", c, 0, [step |-> "answered", waits |-> running.waits \ {c}])

\* Mutant: only the new events are planned.
CombinedApart(events) == history \o Planned(events)

\* appendDsh with portable history.
Combined(events) == Planned(history \o events)

\* assertEventOrder.
Ordered(events) == \A i \in 1 .. Len(events) - 1 : events[i].seq < events[i + 1].seq

\* The plugin sends all it has queued; a refused batch stays in its queue.
AppendDsh ==
    /\ queue # <<>> /\ ~refused
    /\ IF Ordered(history \o queue)
       THEN /\ raw' = raw \o queue /\ history' = Combined(queue) /\ queue' = <<>>
            /\ UNCHANGED refused
       ELSE refused' = TRUE /\ UNCHANGED <<raw, history, queue>>
    /\ UNCHANGED <<codex, place, revision, running, restarts>>

Next ==
    \/ \E t \in Named : StartTask(t)
    \/ EndTask
    \/ \E p \in Named \cup {NoTurn} : \E k \in {"user", "assistant"} : Record(k, None, p)
    \/ \E p \in Named \cup {NoTurn}, c \in Calls : \E k \in {"call", "result"} : Record(k, c, p)
    \/ RecordOther \/ Compact
    \/ Project \/ AppendDsh \/ DshUser
    \/ \E gap \in Gaps : DshAssistant(gap)
    \/ \E c \in Calls : DshCall(c) \/ DshResult(c)

Spec == Init /\ [][Next]_vars

-----------------------------------------------------------------------------
(* Properties.                                                             *)

TypeOK ==
    /\ place \in {"codex", "dsh"} /\ refused \in BOOLEAN
    /\ revision \in Nat /\ restarts \in 0 .. MaxRestarts
    /\ codex.active \in Named \cup {NoTurn}
    /\ Len(history) = Len(raw) /\ Ordered(history)
    /\ \A i \in DOMAIN raw : history[i] = [raw[i] EXCEPT !.topo = history[i].topo]
    /\ \A i \in DOMAIN history : history[i].kind \in Kinds

\* Where the appends cut the conversation does not matter: planning what was stored together with
\* each batch gives the topology the whole conversation would get at once, unless it holds
\* results without calls or other conflicts (conversation-topology.ts, dsh-append.ts).
ChunkingIrrelevant == Issues(raw) \subseteq {"unclosed"} => history = Planned(raw)

\* The history as the surface shows it: no event of the model moves across a user's message.
\* A step's message is shown at its first event (materialize.ts).
UsersKeepTheirPlace ==
    LET E == Range(history) IN
    Projects(E) => \A r \in Rows(E), u \in Rows(E) :
        (u.type = "user" /\ r.type = "assistant" /\ u.turn = r.turn) =>
            \A e \in r.of : (e.seq < Earliest(u.of).seq) = (r.key < u.key)

\* A log that materializes is one DSH accepts (materialize.ts, inspect.ts).
ProjectionIsWellFormed ==
    LET E == Range(history) IN Projects(E) => WellFormed(Native(E))

\* A user's message arrives while a call of its turn waits for its result.
Steered(events) == \E i, j \in DOMAIN events :
    /\ i < j /\ events[i].kind = "call" /\ events[j].kind = "user"
    /\ events[i].topo.turn = events[j].topo.turn
    /\ \A k \in i .. j : ~(events[k].kind = "result" /\ events[k].call = events[i].call)

\* What the planner calls eligible for a continuation can be materialized, unless a user steered
\* between a call and its result (conversation-topology.ts against materialize.ts).
EligibleProjects ==
    Issues(raw) = {} /\ ~Steered(history) => Projects(Range(history))

\* In an eligible conversation every call and every result reaches the model's history
\* (conversation-topology.ts against materialize.ts).
ToolsSurvive ==
    Issues(raw) = {} => \A e \in Range(history) :
        e.kind \in {"call", "result"} => Matched(Range(history), e)

\* The surface has every event where it was said, and what is called eligible projects whole
\* (conversation-topology.ts, materialize.ts).
PlacesHold == UsersKeepTheirPlace /\ EligibleProjects /\ ToolsSurvive

\* The stored history is typed, what can be projected of it is accepted and keeps its places.
HistoryInv == TypeOK /\ ProjectionIsWellFormed /\ PlacesHold

\* What DSH appends to a projected session is accepted, also after the next projection.  The
\* canonical sequences keep the rows that were dropped or merged, the native log of the next
\* projection does not (codex-observation.ts, normalize-append.ts, materialize.ts).
AppendAccepted == ~refused
=============================================================================
