----------------------- MODULE ProjectionHistory_proofs -----------------------
(***************************************************************************)
(* What ends up in the Maintenance history, for every kind of session,     *)
(* every set of steps that can fail and every value of the bounds: the run *)
(* implements AppendOnce, derives at most one session, keeps its           *)
(* write-ahead order and removes no record that is still needed.           *)
(*                                                                         *)
(* The argument rests on one idea.  An operation is open while it waits in *)
(* the log without a receipt, or with a receipt the mapping has not caught *)
(* up with.  At most one operation is ever open, and it starts where the   *)
(* history ends; so nothing can be appended a second time, or out of order.*)
(***************************************************************************)
EXTENDS ProjectionRun_proofs

(***************************************************************************)
(* The inductive invariant                                                 *)
(***************************************************************************)
Codex == canon[Root].scope = "codex"
Held == Len(History)

\* A place (session, version, count) is good if the session, should it still be at
\* that version, holds that many events.  Nothing is ever in a Codex mirror.
Anchored(l, base, n) ==
    /\ base \in 1..canon[l].version
    /\ base = canon[l].version => n = Len(canon[l].body)
    /\ l = Root /\ Codex => n = 0

\* The shape of an operation that exists.
GoodOp(op) ==
    /\ op.id \in {LiveId(op.hi), TailId(op.lo, op.hi)}
    /\ op.lo < op.hi /\ op.hi <= dsh.emitted
    /\ Anchored(op.logical, op.base, op.lo)

Kept == {id \in OpIds : wal[id].state \in {"pending", "applied"}}
Lags(id) == receipts[id].rev > mapping.rev
Open == {id \in Kept : ~Receipted(id) \/ Lags(id)}

Appends == {"append", "close", "recover"}
Closing == {"close", "recover", "discard"}
Ending == {"checkpoint", "remove", "final"}

\* The steps of each call.
StepsHold ==
    /\ task.call = "none" <=> task.at = "none"
    /\ task.at = "none" => task = NoTask
    /\ task.call = "register" => task.at \in {"write", "import", "rebase", "map", "done"}
    /\ task.call = "append" => task.at \in AppendSteps \cup {"done"}
    /\ task.call = "close" => task.at \in {"begin", "list", "replay", "done"} \cup Ending \cup AppendSteps
    /\ task.call = "recover" =>
          task.at \in {"begin", "restore", "adopt", "import", "rebase", "map", "supersede", "replay",
                       "done", "tail"} \cup Ending \cup AppendSteps
    /\ task.call = "discard" => task.at \in {"begin"} \cup Ending

\* The context in memory agrees with the table; a call that writes has one.
EngineHolds ==
    /\ engine.known = "attached" => ctx.where = "active"
    /\ ~engine.up => task.call = "none" /\ engine.known = "none"
    /\ ctx.where # "none" => ctx.map = mapping
    /\ task.call \in {"register", "append", "close"} => engine.known = "attached"
    /\ task.call = "recover" => engine.known # "prepared"
    /\ task.call = "recover" /\ task.at \notin {"begin", "restore"} => ctx.where = "active"

\* The directory is whole while anything is written to it.
DirHolds ==
    /\ ctx.bridge => dir = "whole"
    /\ task.call \in {"register", "append"} => dir = "whole"
    /\ task.call = "close" /\ task.at \notin {"begin", "final"} => dir = "whole"
    /\ task.call = "recover" /\ task.at \in AppendSteps \cup {"checkpoint", "remove", "done", "restore"}
          => dir = "whole"
    /\ task.call = "recover" /\ engine.known = "none" /\ task.at # "final" => dir = "whole"
    /\ dir # "whole" => task.todo = {}
    /\ task.at \in {"remove", "final"} => checkpoint /\ ~ctx.bridge

\* DSH has exited before its run is closed; a run that is given up at once has
\* never had an event.
DshHolds ==
    /\ task.call \in Closing \/ dir # "whole" => dsh.state = "exited"
    /\ Alive \/ dsh.emitted > 0 =>
          row # "preparing" /\ engine.known # "prepared" /\ task.call # "discard"
    /\ dsh.log <= dsh.emitted
    /\ dsh.state = "starting" => dsh.emitted = 0
    /\ engine.drained \/ task.call = "close" =>
          plugin.acked = dsh.emitted /\ dsh.state \in {"draining", "exited"}

PhasesHold == EngineHolds /\ DirHolds /\ DshHolds

\* Every history is 1, 2, ..., a mirror's is empty, and a derived session is there
\* for its receipt only.
HistoriesHold ==
    /\ \A l \in Logicals :
          /\ canon[l].body = FirstEvents(Len(canon[l].body))
          /\ Len(canon[l].body) <= dsh.emitted
          /\ Len(canon[l].body) <= Held
          /\ ~Exists(l) => canon[l].body = <<>>
    /\ Codex => canon[Root].body = <<>> /\ Exists(Root)
    /\ \A id \in OpIds :
          /\ canon[id].scope = "maintenance"
          /\ Exists(id) => Codex /\ Receipted(id) /\ receipts[id].logical = id
    /\ \A a, b \in OpIds : Exists(a) /\ Exists(b) => a = b
    /\ Held = 0 \/ \E id \in OpIds : Receipted(id) /\ receipts[id].rev = Held

\* The session an append of the run goes to.
Proper(l) == IF Codex THEN l \in OpIds /\ Exists(l) ELSE l = Root

ReceiptsHold ==
    \A id \in OpIds : Receipted(id) =>
        /\ receipts[id].rev = id[3] /\ receipts[id].rev \in 1..Held
        /\ Proper(receipts[id].logical)
        /\ Anchored(receipts[id].logical, receipts[id].version, receipts[id].rev)

MappingHolds ==
    /\ mapping.base = 0 =>
          /\ mapping = NoMapping /\ plugin.base = 0 /\ ~Codex
          /\ \A id \in OpIds : wal[id].state = "none" /\ ~Receipted(id)
    /\ mapping.base # 0 => Anchored(mapping.logical, mapping.base, mapping.rev)
    /\ mapping.logical = Root \/ Proper(mapping.logical)
    /\ mapping.rev <= Held
    /\ mapping.last # Root =>
          /\ Receipted(mapping.last)
          /\ receipts[mapping.last] =
                [logical |-> mapping.logical, version |-> mapping.base, rev |-> mapping.rev]

QueueHolds ==
    /\ plugin.acked <= Held
    /\ plugin.base = 0 => plugin.acked = 0 /\ plugin.batch = NoOp
    /\ plugin.base # 0 => Anchored(plugin.logical, plugin.base, plugin.acked)
    /\ plugin.batch # NoOp =>
          /\ plugin.batch = [id |-> LiveId(plugin.batch.hi), lo |-> plugin.acked, hi |-> plugin.batch.hi,
                             logical |-> plugin.logical, base |-> plugin.base]
          /\ GoodOp(plugin.batch)
          /\ wal[plugin.batch.id].state \in {"pending", "applied", "committed"}
                => wal[plugin.batch.id].op = plugin.batch

LogHolds ==
    \A id \in OpIds :
        /\ wal[id].state # "none" => id[3] <= dsh.emitted
        /\ wal[id].state \in {"pending", "applied", "committed"} => wal[id].op.id = id /\ GoodOp(wal[id].op)
        /\ wal[id].state = "committed" => Receipted(id) /\ ~Lags(id)
        /\ wal[id].state \in {"applied", "committed"} => wal[id].op.hi <= file.events
        /\ Receipted(id) /\ Lags(id) => wal[id].state = "applied"

\* At most one operation is open; it starts where the history ends and has the
\* place the mapping has.
OpenHolds ==
    /\ \A a, b \in Open : a = b
    /\ \A id \in Open :
          /\ wal[id].op.logical = mapping.logical /\ wal[id].op.base = mapping.base
          /\ ~Receipted(id) => Held <= wal[id].op.lo
          /\ \/ id = plugin.batch.id
             \/ id[1] = "tail" /\ dsh.state = "exited" /\ task.call # "append"
    /\ Held <= file.events

\* While the plugin lives, the history ends where its queue says.
Taken == plugin.batch # NoOp /\ Receipted(plugin.batch.id)
PluginAgrees ==
    Alive \/ dsh.state = "starting" \/ task.call = "append" =>
        /\ Taken => /\ Held <= plugin.batch.hi
                    /\ mapping.rev >= plugin.batch.hi => mapping.last = plugin.batch.id
        /\ ~Taken => /\ Held <= plugin.acked
                     /\ plugin.base # 0 => mapping.logical = plugin.logical /\ mapping.base = plugin.base
Done(id) == Receipted(id) /\ ~Lags(id)

\* The operation of a call is a good one, that of an append the plugin's, and the
\* record in the log is of the same operation.
CallHolds ==
    /\ task.call = "append" => task.op = plugin.batch /\ plugin.batch # NoOp
    /\ task.at \in AppendSteps \/ (task.at = "done" /\ task.call # "register") =>
          task.op.id \in OpIds /\ GoodOp(task.op) /\ mapping.base # 0
    /\ task.at \in AppendSteps /\ wal[task.op.id].state \in {"pending", "applied", "committed"}
          => wal[task.op.id].op = task.op
    /\ task.call = "register" => plugin.base = 0 /\ (task.at = "done" => mapping.base # 0)
    /\ task.at \in {"write", "import", "rebase", "map", "adopt"} => mapping.base = 0
    /\ task.at \in {"rebase", "map"} => canon[Root].version = 1
    /\ task.at = "map" => file.base = 1

\* From the look-up to the commit nothing else is open, and the operation goes
\* where the mapping points; afterwards the receipt is there.
NextInLine ==
    /\ ~Receipted(task.op.id)
    /\ task.op.logical = mapping.logical /\ task.op.base = mapping.base
    /\ Held <= task.op.lo
\* Only the plugin and a recovered tail bring operations that are not in the log.
NewRecord == task.call = "append" \/ task.op.id[1] = "tail"
AppendHolds ==
    /\ task.at = "look" /\ wal[task.op.id].state = "none" =>
          Done(task.op.id) \/ (NextInLine /\ Open = {} /\ NewRecord)
    /\ task.at \in {"put", "apply", "mark", "commit"} => NextInLine /\ Open \subseteq {task.op.id}
    /\ task.at = "put" => wal[task.op.id].state = "none" /\ NewRecord
    /\ task.at \in {"apply", "mark"} => wal[task.op.id].state = "pending"
    /\ task.at = "commit" => wal[task.op.id].state = "applied"
    /\ task.at \in {"mark", "commit"} => task.op.hi <= file.events
    /\ task.at \in {"switch", "upsert"} => Receipted(task.op.id) /\ Lags(task.op.id)
    /\ task.at = "settle" \/ (task.at = "done" /\ task.call # "register") => Done(task.op.id)

\* A close or a recovery has seen every open record it has not still to do; before
\* the directory goes nothing is open and everything saved is in the history.
ReplayHolds ==
    /\ \A id \in task.todo : wal[id].state \in {"pending", "applied", "committed"}
    /\ task.at \notin {"replay", "done"} \cup AppendSteps => task.todo = {}
    /\ dir # "whole" => Open = {}
    /\ task.call \in {"close", "recover"} =>
          /\ task.at \in {"replay", "done"} => Open \subseteq task.todo
          /\ task.at \in AppendSteps => Open \subseteq task.todo \cup {task.op.id}
          /\ task.at \in {"tail", "checkpoint", "remove"} => Open = {}
    /\ task.fixed <= mapping.rev
    /\ task.at \in {"checkpoint", "remove"} => dsh.log <= Held

DataInv == HistoriesHold /\ ReceiptsHold /\ MappingHolds /\ QueueHolds
               /\ LogHolds /\ OpenHolds /\ PluginAgrees
TaskInv == StepsHold /\ PhasesHold /\ CallHolds /\ AppendHolds /\ ReplayHolds
RunInv == TypeInv /\ DataInv /\ TaskInv

(***************************************************************************)
(* What does not move                                                      *)
(***************************************************************************)
LEMMA HeldSame == ASSUME UNCHANGED canon PROVE Held' = Held /\ Heir' = Heir /\ Codex' = Codex
<1>1. Heir' = Heir
  BY Zenon DEF Heir, Exists
<1> QED BY <1>1 DEF Held, History, Codex

LEMMA AnchoredSame ==
    ASSUME UNCHANGED canon
    PROVE  \A l, base, n : Anchored(l, base, n)' <=> Anchored(l, base, n)
BY DEF Anchored, Codex

LEMMA GoodOpSame ==
    ASSUME TypeOK, TypeOK', UNCHANGED canon, dsh'.emitted >= dsh.emitted
    PROVE  \A op \in Ops : GoodOp(op) => GoodOp(op)'
<1> SUFFICES ASSUME NEW op \in Ops, GoodOp(op) PROVE GoodOp(op)'
  OBVIOUS
<1>1. /\ op.hi \in 0..MaxEvents /\ op.lo \in 0..MaxEvents
      /\ dsh.emitted \in 0..MaxEvents /\ dsh'.emitted \in 0..MaxEvents
  BY DEF TypeOK, Processes, Ops
<1>2. Anchored(op.logical, op.base, op.lo)'
  BY AnchoredSame DEF GoodOp
<1>3. op.hi <= dsh'.emitted
  BY <1>1 DEF GoodOp
<1> QED BY <1>2, <1>3 DEF GoodOp

\* The shapes the proofs need of the tables and the processes.
LEMMA Shapes ==
    ASSUME TypeOK
    PROVE  /\ dsh.emitted \in 0..MaxEvents /\ dsh.log \in 0..MaxEvents
           /\ plugin.acked \in 0..MaxEvents /\ plugin.batch \in Ops
           /\ plugin.logical \in Logicals /\ plugin.base \in Nat
           /\ mapping.rev \in 0..MaxEvents /\ mapping.base \in Nat /\ mapping.logical \in Logicals
           /\ mapping.last \in OpIds \cup {Root}
           /\ file.events \in 0..MaxEvents /\ file.base \in Nat
           /\ task.op \in Ops /\ task.fixed \in 0..MaxEvents /\ task.todo \subseteq OpIds
           /\ \A id \in OpIds : /\ wal[id].op \in Ops
                                /\ receipts[id].rev \in 0..MaxEvents
                                /\ receipts[id].version \in Nat
                                /\ receipts[id].logical \in Logicals
           /\ \A l \in Logicals : /\ canon[l].version \in Nat
                                  /\ canon[l].body \in Seq(1..MaxEvents)
                                  /\ Len(canon[l].body) \in Nat
           /\ Heir \in Logicals /\ Held \in Nat
<1>1. Heir \in Logicals
  <2>1. CASE \E id \in OpIds : Exists(id)
    <3> DEFINE d == CHOOSE id \in OpIds : Exists(id)
    <3>1. d \in OpIds
      BY <2>1
    <3>2. Heir = d
      BY <2>1 DEF Heir
    <3> QED BY <3>1, <3>2, Names
  <2>2. CASE ~ \E id \in OpIds : Exists(id)
    BY <2>2, Names DEF Heir
  <2> QED BY <2>1, <2>2
<1>2. \A l \in Logicals : /\ canon[l].version \in Nat
                          /\ canon[l].body \in Seq(1..MaxEvents)
                          /\ Len(canon[l].body) \in Nat
  BY DEF TypeOK, Sessions
<1>3. Held \in Nat
  BY <1>1, <1>2 DEF Held, History
<1>4. /\ dsh.emitted \in 0..MaxEvents /\ dsh.log \in 0..MaxEvents
      /\ plugin.acked \in 0..MaxEvents /\ plugin.batch \in Ops
      /\ plugin.logical \in Logicals /\ plugin.base \in Nat
  BY DEF TypeOK, Processes, Queues
<1>5. /\ mapping.rev \in 0..MaxEvents /\ mapping.base \in Nat /\ mapping.logical \in Logicals
      /\ mapping.last \in OpIds \cup {Root}
      /\ file.events \in 0..MaxEvents /\ file.base \in Nat
  BY DEF TypeOK, Mappings, Files
<1>6. task.op \in Ops /\ task.fixed \in 0..MaxEvents /\ task.todo \subseteq OpIds
  BY DEF TypeOK, Tasks
<1>7. \A id \in OpIds : /\ wal[id].op \in Ops
                        /\ receipts[id].rev \in 0..MaxEvents
                        /\ receipts[id].version \in Nat
                        /\ receipts[id].logical \in Logicals
  BY DEF TypeOK, Records, Receipts
<1> QED BY <1>1, <1>2, <1>3, <1>4, <1>5, <1>6, <1>7

LEMMA NumbersNext ==
    ASSUME TypeOK'
    PROVE  dsh'.emitted \in Nat /\ dsh'.log \in Nat /\ file'.events \in Nat /\ plugin'.acked \in Nat
BY DEF TypeOK, Processes, Files, Queues

LEMMA HeldNext == ASSUME TypeOK' PROVE Held' \in Nat /\ Heir' \in Logicals
<1>1. Heir' \in Logicals
  <2>1. CASE \E id \in OpIds : Exists(id)'
    <3> DEFINE d == CHOOSE id \in OpIds : Exists(id)'
    <3>1. d \in OpIds
      BY <2>1
    <3>2. Heir' = d
      BY <2>1 DEF Heir
    <3> QED BY <3>1, <3>2, Names
  <2>2. CASE ~ \E id \in OpIds : Exists(id)'
    BY <2>2, Names DEF Heir
  <2> QED BY <2>1, <2>2
<1>2. \A l \in Logicals : Len(canon'[l].body) \in Nat
  BY DEF TypeOK, Sessions
<1> QED BY <1>1, <1>2 DEF Held, History

\* Nothing that lasts has changed, DSH may have gone on, the file may hold more.
Still ==
    /\ UNCHANGED <<wal, mapping, receipts, canon, plugin>>
    /\ dsh'.emitted >= dsh.emitted /\ file'.events >= file.events
    /\ dsh.state = "exited" => dsh'.state = "exited"
    /\ dsh'.state = "starting" => dsh.state = "starting"
    /\ Alive' => Alive \/ dsh.state = "starting"
    /\ task'.call = "append" => task.call = "append" \/ Alive

LEMMA HistoriesStill ==
    ASSUME TypeOK, TypeOK', HistoriesHold, ReceiptsHold, Still
    PROVE  HistoriesHold' /\ ReceiptsHold'
<1>1. Held' = Held /\ Codex' = Codex
  BY HeldSame DEF Still
<1>2. \A l \in Logicals :
          /\ canon'[l].body = FirstEvents(Len(canon'[l].body))
          /\ Len(canon'[l].body) <= dsh'.emitted
          /\ Len(canon'[l].body) <= Held'
          /\ ~Exists(l)' => canon'[l].body = <<>>
  <2> SUFFICES ASSUME NEW l \in Logicals
               PROVE  /\ canon[l].body = FirstEvents(Len(canon[l].body))
                      /\ Len(canon[l].body) <= dsh'.emitted
                      /\ Len(canon[l].body) <= Held
                      /\ ~Exists(l) => canon[l].body = <<>>
    BY <1>1 DEF Still, Exists
  <2>1. Len(canon[l].body) \in Nat /\ dsh.emitted \in Nat /\ dsh'.emitted \in Nat
    BY SMTT(60), Shapes, NumbersNext
  <2>2. Len(canon[l].body) <= dsh.emitted
    BY DEF HistoriesHold
  <2>3. Len(canon[l].body) <= dsh'.emitted
    BY <2>1, <2>2 DEF Still
  <2> QED BY <2>3 DEF HistoriesHold
<1>3. HistoriesHold'
  BY <1>1, <1>2 DEF HistoriesHold, Still, Exists, Receipted
<1>4. ReceiptsHold'
  BY <1>1, AnchoredSame DEF ReceiptsHold, Still, Receipted, Proper, Exists
<1> QED BY <1>3, <1>4

LEMMA MappingStill ==
    ASSUME TypeOK, TypeOK', MappingHolds, Still
    PROVE  MappingHolds'
<1>1. Held' = Held /\ Codex' = Codex
  BY HeldSame DEF Still
<1> QED BY <1>1, AnchoredSame DEF MappingHolds, Still, Receipted, Proper, Exists

LEMMA QueueStill ==
    ASSUME TypeOK, TypeOK', QueueHolds, Still
    PROVE  QueueHolds'
<1>1. Held' = Held
  BY HeldSame DEF Still
<1>2. GoodOp(plugin.batch) => GoodOp(plugin.batch)'
  BY GoodOpSame, Shapes DEF Still
<1>3. plugin'.base # 0 => Anchored(plugin.logical, plugin.base, plugin.acked)'
  BY AnchoredSame DEF Still, QueueHolds
<1> QED BY <1>1, <1>2, <1>3 DEF QueueHolds, Still

LEMMA OpenSame ==
    ASSUME UNCHANGED <<wal, mapping, receipts>>
    PROVE  /\ Open' = Open
           /\ \A id : Receipted(id)' = Receipted(id) /\ Lags(id)' = Lags(id) /\ Done(id)' = Done(id)
BY DEF Open, Kept, Receipted, Lags, Done

LEMMA LogStill ==
    ASSUME TypeOK, TypeOK', LogHolds, OpenHolds, Still
    PROVE  LogHolds' /\ OpenHolds'
<1>1. Held' = Held
  BY HeldSame DEF Still
<1>2. \A id \in OpIds : GoodOp(wal[id].op) => GoodOp(wal[id].op)'
  BY GoodOpSame, Shapes DEF Still
<1>3. LogHolds'
  <2> SUFFICES ASSUME NEW id \in OpIds
               PROVE  /\ wal'[id].state # "none" => id[3] <= dsh'.emitted
                      /\ wal'[id].state \in {"pending", "applied", "committed"}
                            => wal'[id].op.id = id /\ GoodOp(wal[id].op)'
                      /\ wal'[id].state = "committed" => Receipted(id)' /\ ~Lags(id)'
                      /\ wal'[id].state \in {"applied", "committed"} => wal'[id].op.hi <= file'.events
                      /\ Receipted(id)' /\ Lags(id)' => wal'[id].state = "applied"
    BY DEF LogHolds, Still
  <2>1. /\ wal'[id] = wal[id] /\ Receipted(id)' = Receipted(id) /\ Lags(id)' = Lags(id)
        /\ dsh.emitted \in Nat /\ dsh'.emitted \in Nat /\ file.events \in Nat /\ file'.events \in Nat
        /\ wal[id].op.hi \in Nat /\ dsh'.emitted >= dsh.emitted /\ file'.events >= file.events
    <3>1. wal'[id] = wal[id] /\ Receipted(id)' = Receipted(id) /\ Lags(id)' = Lags(id)
      BY OpenSame DEF Still
    <3>2. wal[id].op \in Ops
      BY Shapes
    <3>3. wal[id].op.hi \in Nat
      BY <3>2 DEF Ops
    <3>4. dsh.emitted \in Nat /\ dsh'.emitted \in Nat /\ file.events \in Nat /\ file'.events \in Nat
      BY SMTT(60), Shapes, NumbersNext
    <3> QED BY <3>1, <3>3, <3>4 DEF Still
  <2>2. wal[id].state # "none" => id[3] <= dsh'.emitted
    <3>1. id[3] \in Nat
      BY DEF OpIds, LiveId, TailId
    <3> QED BY <2>1, <3>1 DEF LogHolds
  <2> QED BY <1>2, <2>1, <2>2 DEF LogHolds
<1>4. OpenHolds'
  <2>1. Open' = Open /\ \A id : Receipted(id)' = Receipted(id)
    BY OpenSame DEF Still
  <2>2. Held <= file'.events
    BY Shapes, NumbersNext DEF OpenHolds, Still
  <2>3. \A id \in Open : \/ id = plugin'.batch.id
                         \/ id[1] = "tail" /\ dsh'.state = "exited" /\ task'.call # "append"
    BY DEF OpenHolds, Still, Alive
  <2> QED BY <1>1, <2>1, <2>2, <2>3 DEF OpenHolds, Still
<1> QED BY <1>3, <1>4

LEMMA PluginStill ==
    ASSUME TypeOK, TypeOK', PluginAgrees, Still
    PROVE  PluginAgrees'
<1>1. Held' = Held /\ Taken' = Taken
  BY HeldSame, OpenSame DEF Still, Taken
<1> QED BY <1>1 DEF PluginAgrees, Still

LEMMA DataStill ==
    ASSUME TypeOK, TypeOK', DataInv, Still
    PROVE  DataInv'
BY HistoriesStill, MappingStill, QueueStill, LogStill, PluginStill DEF DataInv

(***************************************************************************)
(* DSH, the plugin's signals and the start of the Engine                   *)
(***************************************************************************)
\* The task and what it works on stay.
LEMMA TaskStill ==
    ASSUME TypeOK, TypeOK', CallHolds, AppendHolds, ReplayHolds, Still, UNCHANGED <<task, file, dir>>,
           task.at \in {"checkpoint", "remove"} => dsh'.log = dsh.log
    PROVE  CallHolds' /\ AppendHolds' /\ ReplayHolds'
<1>1. Held' = Held
  BY HeldSame DEF Still
<1>2. Open' = Open /\ \A id : Receipted(id)' = Receipted(id) /\ Lags(id)' = Lags(id) /\ Done(id)' = Done(id)
  BY OpenSame DEF Still
<1>3. CallHolds'
  <2>1. GoodOp(task.op) => GoodOp(task.op)'
    BY GoodOpSame, Shapes DEF Still
  <2> QED BY <2>1 DEF CallHolds, Still
<1>4. AppendHolds'
  <2>1. NextInLine' = NextInLine
    BY <1>1, <1>2 DEF NextInLine, Still
  <2> QED BY <1>2, <2>1 DEF AppendHolds, NewRecord, Still
<1>5. ReplayHolds'
  BY <1>1, <1>2 DEF ReplayHolds, Still
<1> QED BY <1>3, <1>4, <1>5

LEMMA CallKinds ==
    ASSUME TypeOK, StepsHold
    PROVE  /\ task.call \in {"none", "register", "append", "close", "recover", "discard"}
           /\ task.at \in Ending \cup {"begin"} => task.call \in Closing
           /\ task.at \in AppendSteps => task.call \in Appends
           /\ task.at = "done" => task.call \in Appends \cup {"register"}
BY DEF TypeOK, Tasks, StepsHold, AppendSteps, Closing, Ending, Appends

Surroundings == Emit \/ Persist \/ StartDrain \/ Exit \/ DrainRun \/ Restart \/ AttachRun

LEMMA SurroundingsMove ==
    ASSUME RunInv, TypeInv', Surroundings
    PROVE  /\ UNCHANGED <<wal, mapping, receipts, canon, plugin, task, file, dir, checkpoint>>
           /\ dsh'.emitted >= dsh.emitted /\ dsh'.log <= dsh'.emitted
           /\ dsh.state = "exited" => dsh' = dsh
           /\ dsh'.state = "starting" => dsh' = dsh
           /\ Alive' => Alive \/ dsh.state = "starting"
           /\ dsh'.emitted # dsh.emitted => dsh.state = "running" /\ dsh'.state = "running"
           /\ dsh'.log # dsh.log => Alive
           /\ dsh.state = "draining" => dsh'.state \in {"draining", "exited"}
<1>1. UNCHANGED <<wal, mapping, receipts, canon, plugin, task, file, dir, checkpoint>>
  BY DEF Surroundings, Emit, Persist, StartDrain, Exit, DrainRun, Restart, AttachRun, files, tables,
     outside, memory
<1>2. dsh.emitted \in Nat /\ dsh.log \in Nat /\ dsh.log <= dsh.emitted /\ dsh \in Processes
  BY SMTT(60), Shapes DEF RunInv, TaskInv, PhasesHold, DshHolds, TypeInv, TypeOK
<1> DEFINE Goal ==
           /\ dsh'.emitted >= dsh.emitted /\ dsh'.log <= dsh'.emitted
           /\ dsh.state = "exited" => dsh' = dsh
           /\ dsh'.state = "starting" => dsh' = dsh
           /\ Alive' => Alive \/ dsh.state = "starting"
           /\ dsh'.emitted # dsh.emitted => dsh.state = "running" /\ dsh'.state = "running"
           /\ dsh'.log # dsh.log => Alive
           /\ dsh.state = "draining" => dsh'.state \in {"draining", "exited"}
<1> SUFFICES Goal
  BY <1>1
<1>3. CASE Emit
  <2>1. PICK stored \in {dsh.emitted + 1} \cup (IF Buffered THEN {dsh.log} ELSE {}) :
             dsh' = [dsh EXCEPT !.emitted = @ + 1, !.log = stored]
    BY <1>3 DEF Emit
  <2>2. /\ dsh.state = "running" /\ dsh'.state = "running"
        /\ dsh'.emitted = dsh.emitted + 1 /\ dsh'.log = stored /\ stored <= dsh.emitted + 1
    <3>1. stored <= dsh.emitted + 1
      BY <1>2, <2>1
    <3>2. dsh' = [state |-> dsh.state, emitted |-> dsh.emitted + 1, log |-> stored]
      BY <1>2, <2>1 DEF Processes
    <3> QED BY <1>3, <3>1, <3>2 DEF Emit
  <2> QED BY <1>2, <2>2 DEF Alive
<1>4. CASE Persist \/ StartDrain
  <2>1. /\ dsh'.emitted = dsh.emitted /\ dsh'.log = dsh.emitted /\ Alive
        /\ dsh'.state \in {dsh.state, "draining"}
    BY <1>2, <1>4 DEF Persist, StartDrain, Processes, Alive
  <2>2. dsh.state \in {"running", "draining"} /\ dsh'.state \in {"running", "draining"}
    BY <2>1 DEF Alive
  <2> QED BY <1>2, <2>1, <2>2
<1>5. CASE Exit
  <2>1. dsh'.emitted = dsh.emitted /\ dsh'.log = dsh.log /\ dsh'.state = "exited" /\ dsh.state # "exited"
    BY <1>2, <1>5 DEF Exit, Processes
  <2> QED BY <1>2, <2>1 DEF Alive
<1>6. CASE DrainRun \/ Restart
  <2>1. dsh' = dsh
    BY <1>6 DEF DrainRun, Restart, outside
  <2> QED BY <1>2, <2>1 DEF Alive
<1>7. CASE AttachRun
  <2>1. dsh' = dsh \/ dsh' = [dsh EXCEPT !.state = "running"]
    BY <1>7 DEF AttachRun
  <2>2. dsh.state = "starting"
    BY <1>7 DEF AttachRun
  <2>3. dsh'.emitted = dsh.emitted /\ dsh'.log = dsh.log /\ (dsh' = dsh \/ dsh'.state = "running")
    BY <1>2, <2>1 DEF Processes
  <2> QED BY <1>2, <2>2, <2>3 DEF Alive
<1> QED BY <1>3, <1>4, <1>5, <1>6, <1>7 DEF Surroundings

LEMMA SurroundingsPhases ==
    ASSUME RunInv, TypeInv', Surroundings
    PROVE  PhasesHold'
<1>0. /\ UNCHANGED <<wal, mapping, receipts, canon, plugin, task, file, dir, checkpoint>>
      /\ dsh'.emitted >= dsh.emitted /\ dsh'.log <= dsh'.emitted
      /\ dsh.state = "exited" => dsh' = dsh
      /\ dsh'.state = "starting" => dsh' = dsh
      /\ Alive' => Alive \/ dsh.state = "starting"
      /\ dsh'.emitted # dsh.emitted => dsh.state = "running" /\ dsh'.state = "running"
      /\ dsh.state = "draining" => dsh'.state \in {"draining", "exited"}
  BY SurroundingsMove
<1>1. PhasesHold /\ StepsHold /\ TypeOK
  BY DEF RunInv, TaskInv, TypeInv
<1>2. CASE Emit \/ Persist \/ StartDrain \/ Exit
  <2>1. UNCHANGED <<engine, ctx, row>>
    BY <1>2 DEF Emit, Persist, StartDrain, Exit, tables, memory
  <2>2. EngineHolds'
    BY <1>0, <1>1, <2>1 DEF PhasesHold, EngineHolds
  <2>3. DirHolds'
    BY <1>0, <1>1, <2>1 DEF PhasesHold, DirHolds
  <2>4. DshHolds'
    <3>1. Alive' => Alive
      BY <1>1, <1>2 DEF Emit, Persist, StartDrain, Exit, Alive, TypeOK, Processes
    <3>2. dsh.emitted \in Nat /\ dsh'.emitted \in Nat
      BY <1>1, Shapes, NumbersNext DEF TypeInv
    <3> HIDE <1>2
    <3>3. dsh'.emitted > 0 => Alive \/ dsh.emitted > 0
      BY <1>0, <3>2 DEF Alive
    <3>4. engine.drained \/ task.call = "close" =>
              plugin.acked = dsh'.emitted /\ dsh'.state \in {"draining", "exited"}
      BY <1>0, <1>1 DEF PhasesHold, DshHolds
    <3> QED BY <1>0, <1>1, <2>1, <3>1, <3>3, <3>4 DEF PhasesHold, DshHolds
  <2> QED BY <2>2, <2>3, <2>4 DEF PhasesHold
<1>3. CASE DrainRun
  <2>1. /\ dsh' = dsh /\ row' = row /\ ctx' = ctx /\ dsh.state = "draining" /\ plugin.acked = dsh.emitted
        /\ engine'.known = engine.known /\ engine'.up = engine.up
    BY <1>1, <1>3 DEF DrainRun, outside, tables, TypeOK, Engines
  <2>2. EngineHolds'
    BY <1>0, <1>1, <2>1 DEF PhasesHold, EngineHolds
  <2>3. DirHolds'
    BY <1>0, <1>1, <2>1 DEF PhasesHold, DirHolds
  <2>4. DshHolds'
    BY <1>0, <1>1, <2>1 DEF PhasesHold, DshHolds, Alive
  <2> QED BY <2>2, <2>3, <2>4 DEF PhasesHold
<1>4. CASE Restart
  <2>1. /\ dsh' = dsh /\ row' = row /\ ctx' = ctx
        /\ engine'.known = engine.known /\ engine'.up /\ engine'.drained = engine.drained
    BY <1>1, <1>4 DEF Restart, outside, tables, TypeOK, Engines
  <2>2. EngineHolds'
    BY <1>0, <1>1, <2>1 DEF PhasesHold, EngineHolds
  <2>3. DirHolds'
    BY <1>0, <1>1, <2>1 DEF PhasesHold, DirHolds
  <2>4. DshHolds'
    BY <1>0, <1>1, <2>1 DEF PhasesHold, DshHolds, Alive
  <2> QED BY <2>2, <2>3, <2>4 DEF PhasesHold
<1>5. CASE AttachRun
  <2>1. /\ task.call = "none" /\ task.at = "none" /\ engine.known = "prepared" /\ dsh.state = "starting"
        /\ engine.up /\ dir = "whole" /\ ctx.where = "prepared"
        /\ engine'.up /\ engine'.drained = engine.drained
    BY <1>0, <1>1, <1>5 DEF AttachRun, Idle, NoTask, TypeOK, Engines, PhasesHold, DshHolds
  <2>2. \/ /\ row' = "running" /\ engine'.known = "attached" /\ ctx'.where = "active" /\ ctx'.map = ctx.map
           /\ dsh'.state = "running"
        \/ /\ row' = "quarantined" /\ engine'.known = "prepared" /\ ctx'.where = "none" /\ ~ctx'.bridge
           /\ dsh' = dsh
    <3>1. ctx \in Contexts /\ engine \in Engines /\ dsh \in Processes
      BY <1>1 DEF TypeOK
    <3>2. CASE /\ row' = "running"
               /\ engine' = [engine EXCEPT !.known = "attached"]
               /\ ctx' = [ctx EXCEPT !.where = "active", !.accepting = TRUE, !.bridge = TRUE]
               /\ dsh' = [dsh EXCEPT !.state = "running"]
      BY <3>1, <3>2 DEF Contexts, Engines, Processes
    <3>3. CASE row' = "quarantined" /\ ctx' = NoContext /\ UNCHANGED <<engine, dsh>>
      BY <2>1, <3>3 DEF NoContext
    <3> QED BY <1>5, <3>2, <3>3 DEF AttachRun
  <2>3. EngineHolds'
    BY <1>0, <1>1, <2>1, <2>2 DEF PhasesHold, EngineHolds
  <2>4. DirHolds'
    BY <1>0, <1>1, <2>1, <2>2 DEF PhasesHold, DirHolds
  <2>5. DshHolds'
    BY <1>0, <1>1, <2>1, <2>2, Shapes DEF PhasesHold, DshHolds, Alive
  <2> QED BY <2>3, <2>4, <2>5 DEF PhasesHold
<1> QED BY <1>2, <1>3, <1>4, <1>5 DEF Surroundings

LEMMA SurroundingsKeep == ASSUME RunInv, TypeInv', Surroundings PROVE RunInv'
<1>1. TypeOK /\ TypeOK'
  BY DEF RunInv, TypeInv
<1> USE SurroundingsMove
<1>2. file'.events >= file.events
  BY <1>1, Shapes
<1>3. Still
  BY <1>2 DEF Still
<1>4. DataInv'
  BY <1>1, <1>3, DataStill DEF RunInv
<1>5. StepsHold'
  BY DEF RunInv, TaskInv, StepsHold
<1>6. task.at \in {"checkpoint", "remove"} => ~Alive
  BY <1>1, CallKinds DEF RunInv, TaskInv, PhasesHold, DshHolds, Alive, Ending
<1>7. CallHolds' /\ AppendHolds' /\ ReplayHolds'
  BY <1>1, <1>3, <1>6, TaskStill DEF RunInv, TaskInv
<1> QED BY <1>4, <1>5, <1>7, SurroundingsPhases DEF RunInv, TaskInv

(***************************************************************************)
(* The end of a call: an error, a crash, the last step                     *)
(***************************************************************************)
LEMMA NoTaskFits ==
    ASSUME task' = NoTask
    PROVE  StepsHold' /\ CallHolds' /\ AppendHolds'
BY DEF NoTask, StepsHold, CallHolds, AppendHolds, AppendSteps, Ending

LEMMA NoTaskReplays ==
    ASSUME TypeOK, task' = NoTask, UNCHANGED mapping, dir' # "whole" => Open' = {}
    PROVE  ReplayHolds'
<1>1. mapping'.rev \in Nat
  BY Shapes
<1> QED BY <1>1 DEF NoTask, ReplayHolds, AppendSteps

\* When the directory is being removed nothing is open.
LEMMA NothingOpen ==
    ASSUME RunInv, dir # "whole" \/ task.at = "remove"
    PROVE  Open = {}
<1>1. TypeOK /\ StepsHold /\ ReplayHolds /\ LogHolds /\ DshHolds
  BY DEF RunInv, TypeInv, TaskInv, DataInv, PhasesHold
<1>2. CASE task.call = "discard"
  <2>1. dsh.emitted = 0
    BY <1>1, <1>2, Shapes DEF DshHolds
  <2>2. \A id \in OpIds : id[3] \in Nat /\ id[3] > 0
    BY DEF OpIds, LiveId, TailId
  <2>3. \A id \in OpIds : wal[id].state = "none"
    BY <1>1, <2>1, <2>2 DEF LogHolds
  <2> QED BY <2>3 DEF Open, Kept
<1>3. CASE dir # "whole"
  BY <1>1, <1>3 DEF ReplayHolds
<1>4. CASE task.at = "remove" /\ task.call # "discard"
  BY <1>1, <1>4, CallKinds DEF ReplayHolds, Closing, Ending
<1> QED BY <1>2, <1>3, <1>4

\* The log changes at one operation.
LogChange(i) ==
    /\ i \in OpIds
    /\ \A id \in OpIds : id # i => wal'[id] = wal[id]
    /\ wal'[i].state # "none" => i[3] <= dsh.emitted
    /\ wal'[i].state \in {"pending", "applied", "committed"} =>
          /\ wal'[i].op.id = i /\ GoodOp(wal'[i].op)
          /\ plugin.batch # NoOp /\ plugin.batch.id = i => wal'[i].op = plugin.batch
    /\ wal'[i].state = "committed" => Done(i)
    /\ wal'[i].state \in {"applied", "committed"} => wal'[i].op.hi <= file.events
    /\ Receipted(i) /\ Lags(i) => wal'[i].state = "applied"

LEMMA LogStep ==
    ASSUME RunInv, TypeInv', NEW i, LogChange(i), mapping.base # 0,
           UNCHANGED <<mapping, receipts, canon, plugin, dsh>>, file'.events = file.events,
           task'.call \in {"none", task.call}
    PROVE  /\ HistoriesHold' /\ ReceiptsHold' /\ MappingHolds' /\ QueueHolds' /\ LogHolds' /\ PluginAgrees'
<1>1. Held' = Held /\ Codex' = Codex
  BY HeldSame
<1>2. /\ \A id : Receipted(id)' = Receipted(id) /\ Lags(id)' = Lags(id) /\ Done(id)' = Done(id)
      /\ Taken' = Taken
  BY DEF Receipted, Lags, Done, Taken
<1>3. TypeOK /\ TypeOK' /\ DataInv
  BY DEF RunInv, TypeInv
<1>4. \A op \in Ops : GoodOp(op) => GoodOp(op)'
  <2>1. dsh'.emitted >= dsh.emitted
    BY <1>3, Shapes
  <2> QED BY <1>3, <2>1, GoodOpSame
<1>5. HistoriesHold'
  BY <1>1, <1>2, <1>3 DEF DataInv, HistoriesHold, Exists
<1>6. ReceiptsHold'
  BY <1>1, <1>2, <1>3, AnchoredSame DEF DataInv, ReceiptsHold, Proper, Exists
<1>7. MappingHolds'
  BY <1>1, <1>2, <1>3, AnchoredSame DEF DataInv, MappingHolds, Proper, Exists
<1>8. QueueHolds'
  <2>1. GoodOp(plugin.batch) => GoodOp(plugin.batch)'
    BY <1>3, <1>4, Shapes
  <2>2. plugin.base # 0 => Anchored(plugin.logical, plugin.base, plugin.acked)'
    BY <1>3, AnchoredSame DEF DataInv, QueueHolds
  <2>3. plugin.batch # NoOp /\ wal'[plugin.batch.id].state \in {"pending", "applied", "committed"}
            => wal'[plugin.batch.id].op = plugin.batch
    <3>1. plugin.batch # NoOp => plugin.batch.id \in OpIds
      BY DEF RunInv, TypeInv, OpsNamed
    <3> QED BY <1>3, <3>1 DEF DataInv, QueueHolds, LogChange
  <2> QED BY <1>1, <1>3, <2>1, <2>2, <2>3 DEF DataInv, QueueHolds
<1>9. LogHolds'
  <2> SUFFICES ASSUME NEW id \in OpIds
               PROVE  /\ wal'[id].state # "none" => id[3] <= dsh.emitted
                      /\ wal'[id].state \in {"pending", "applied", "committed"}
                            => wal'[id].op.id = id /\ GoodOp(wal[id].op)'
                      /\ wal'[id].state = "committed" => Receipted(id) /\ ~Lags(id)
                      /\ wal'[id].state \in {"applied", "committed"} => wal'[id].op.hi <= file.events
                      /\ Receipted(id) /\ Lags(id) => wal'[id].state = "applied"
    BY <1>2 DEF LogHolds
  <2>1. wal'[id].op \in Ops
    BY <1>3 DEF TypeOK, Records
  <2>2. CASE id = i
    BY <1>4, <2>1, <2>2 DEF LogChange, Done
  <2>3. CASE id # i
    BY <1>3, <1>4, <2>1, <2>3 DEF LogChange, DataInv, LogHolds
  <2> QED BY <2>2, <2>3
<1>10. PluginAgrees'
  <2>1. Alive' = Alive /\ (task'.call = "append" => task.call = "append")
    BY DEF Alive
  <2> QED BY <1>1, <1>2, <1>3, <2>1 DEF DataInv, PluginAgrees
<1> QED BY <1>5, <1>6, <1>7, <1>8, <1>9, <1>10

\* What is open stays as it is.
LEMMA OpenKept ==
    ASSUME RunInv, Open' \subseteq Open, \A id \in Open' : wal'[id].op = wal[id].op,
           \A id \in Open' : Receipted(id)' = Receipted(id),
           UNCHANGED <<mapping, canon, plugin, dsh>>, file'.events = file.events,
           task'.call = "append" => task.call = "append" \/ Alive
    PROVE  OpenHolds'
<1>1. Held' = Held
  BY HeldSame
<1>2. OpenHolds
  BY DEF RunInv, DataInv
<1>3. \A id \in Open' : \/ id = plugin'.batch.id
                        \/ id[1] = "tail" /\ dsh'.state = "exited" /\ task'.call # "append"
  BY <1>2 DEF OpenHolds, Alive
<1> QED BY <1>1, <1>2, <1>3 DEF OpenHolds

\* An interrupted step: the run keeps everything that is not the task's.
LEMMA DamageKeeps ==
    ASSUME RunInv, TypeInv', Damage, task' = NoTask,
           UNCHANGED <<mapping, receipts, canon, plugin, dsh>>
    PROVE  DataInv'
<1>1. CASE wal' = wal
  <2>1. file'.events = file.events
    <3>1. file \in Files
      BY DEF RunInv, TypeInv, TypeOK
    <3> QED BY <1>1, <3>1 DEF Damage, Files
  <2>2. file'.events >= file.events /\ dsh'.emitted >= dsh.emitted
    BY <2>1, Shapes DEF RunInv, TypeInv
  <2>3. Still
    BY <1>1, <2>2 DEF Still, NoTask, Alive
  <2> QED BY <2>3, DataStill DEF RunInv, TypeInv
<1>2. CASE /\ task.at = "put" /\ wal' = [wal EXCEPT ![task.op.id].state = "torn"]
           /\ UNCHANGED <<dir, file>>
  <2> DEFINE i == task.op.id
  <2>1. /\ i \in OpIds /\ GoodOp(task.op) /\ mapping.base # 0 /\ ~Receipted(i) /\ wal[i].state = "none"
        /\ i = task.op.id
    BY <1>2 DEF RunInv, TaskInv, CallHolds, AppendHolds, NextInLine, AppendSteps
  <2>2. wal \in [OpIds -> Records]
    BY DEF RunInv, TypeInv, TypeOK
  <2>3. wal' = [wal EXCEPT ![i].state = "torn"]
    BY <1>2
  <2> HIDE DEF i
  <2>4. wal'[i].state = "torn" /\ \A id \in OpIds : id # i => wal'[id] = wal[id]
    BY <2>1, <2>2, <2>3 DEF Records
  <2>5. i[3] <= dsh.emitted
    <3>1. i[3] = task.op.hi
      BY <2>1 DEF GoodOp, LiveId, TailId
    <3> QED BY <2>1, <3>1 DEF GoodOp
  <2>6. LogChange(i)
    BY <2>1, <2>4, <2>5 DEF LogChange
  <2>7. Open' \subseteq Open /\ i \notin Open'
    BY <2>1, <2>4 DEF Open, Kept, Receipted, Lags
  <2>8. OpenHolds'
    <3>1. \A id \in Open' : wal'[id].op = wal[id].op
      BY <2>4, <2>7 DEF Open, Kept
    <3> QED BY <1>2, <2>7, <3>1, OpenKept DEF NoTask, Receipted
  <2> QED BY <1>2, <2>1, <2>6, <2>8, LogStep DEF DataInv, NoTask
<1> QED BY <1>1, <1>2 DEF Damage

\* The end of a call leaves the phases in order: the directory can only have been
\* damaged by its removal, which no bridge reaches any more.
LEMMA EndPhases ==
    ASSUME RunInv, TypeInv', task' = NoTask,
           \/ ctx' = ctx
           \/ ctx' = NoContext /\ engine'.known # "attached"
           \/ ~ctx'.bridge /\ ctx'.where = ctx.where /\ ctx'.map = ctx.map,
           engine' = engine \/ (engine'.known = "none" /\ engine'.drained \in {FALSE, engine.drained}),
           ~engine'.up => engine'.known = "none",
           dir' = dir \/ task.at = "remove",
           row' = row \/ row' # "preparing",
           UNCHANGED <<mapping, dsh, plugin>>
    PROVE  PhasesHold'
<1>1. TypeOK /\ StepsHold /\ EngineHolds /\ DirHolds /\ DshHolds
  BY DEF RunInv, TypeInv, TaskInv, PhasesHold
<1>2. task'.call = "none" /\ task'.at = "none" /\ task'.todo = {}
  BY DEF NoTask
<1>3. task.at = "remove" => task.call \in Closing /\ ~ctx.bridge
  BY <1>1, CallKinds DEF DirHolds, Ending
<1>4. EngineHolds'
  <2>1. \/ ctx'.where = "none" /\ engine'.known # "attached"
        \/ ctx'.where = ctx.where /\ ctx'.map = ctx.map
    BY DEF NoContext
  <2>2. engine'.known = "attached" => engine.known = "attached"
    OBVIOUS
  <2>3. ctx'.where # "none" => ctx'.map = mapping'
    BY <1>1, <2>1 DEF EngineHolds
  <2>4. engine'.known = "attached" => ctx'.where = "active"
    BY <1>1, <2>1, <2>2 DEF EngineHolds
  <2> QED BY <1>2, <2>3, <2>4 DEF EngineHolds
<1>5. DirHolds'
  <2>1. ctx'.bridge => ctx.bridge
    BY DEF NoContext
  <2> QED BY <1>1, <1>2, <1>3, <2>1 DEF DirHolds, AppendSteps
<1>6. DshHolds'
  <2>1. dir' # "whole" => dsh.state = "exited"
    BY <1>1, <1>3 DEF DshHolds
  <2>2. engine'.drained => engine.drained
    OBVIOUS
  <2>3. engine'.known # "prepared" \/ engine' = engine
    OBVIOUS
  <2> QED BY <1>1, <1>2, <2>1, <2>2, <2>3 DEF DshHolds, Closing, Alive
<1> QED BY <1>4, <1>5, <1>6 DEF PhasesHold

LEMMA ThrowPhases ==
    ASSUME RunInv, TypeInv', NEW corrupt \in BOOLEAN, AfterThrow(corrupt),
           dir' = dir \/ task.at = "remove", UNCHANGED <<mapping, engine, dsh, plugin>>
    PROVE  PhasesHold'
<1>1. engine.known # "attached" => ctx' \in {ctx, NoContext}
  BY DEF AfterThrow
<1>2. engine.known = "attached" => ctx' = ctx
  BY DEF AfterThrow
<1>3. row' = row \/ row' # "preparing"
  BY DEF AfterThrow
<1>4. ~engine'.up => engine'.known = "none"
  BY DEF RunInv, TaskInv, PhasesHold, EngineHolds
<1> QED BY <1>1, <1>2, <1>3, <1>4, EndPhases DEF AfterThrow

LEMMA FailsKeeps ==
    ASSUME RunInv, TypeInv', NEW corrupt \in BOOLEAN, Fails(corrupt)
    PROVE  RunInv'
<1>1. AfterThrow(corrupt) /\ UNCHANGED <<dir, checkpoint, file, wal, mapping, receipts, canon, engine, dsh, plugin>>
  BY DEF Fails, files
<1>2. task' = NoTask
  BY <1>1 DEF AfterThrow
<1>3. Still
  <2>1. file'.events >= file.events /\ dsh'.emitted >= dsh.emitted
    BY <1>1, Shapes DEF RunInv, TypeInv
  <2> QED BY <1>1, <1>2, <2>1 DEF Still, NoTask, Alive
<1>4. DataInv'
  BY <1>3, DataStill DEF RunInv, TypeInv
<1>5. PhasesHold'
  BY <1>1, ThrowPhases
<1>6. ReplayHolds'
  BY <1>1, <1>2, NoTaskReplays, NothingOpen, OpenSame DEF RunInv, TypeInv
<1> QED BY <1>2, <1>4, <1>5, <1>6, NoTaskFits DEF RunInv, TaskInv

LEMMA DamageOpens ==
    ASSUME RunInv, TypeInv', Damage, task' = NoTask, UNCHANGED <<mapping, receipts>>
    PROVE  dir' # "whole" => Open' = {}
<1>1. CASE task.at = "put" /\ UNCHANGED dir
  BY <1>1, CallKinds DEF RunInv, TypeInv, TaskInv, PhasesHold, DirHolds, Appends, AppendSteps
<1>2. CASE wal' = wal /\ (dir' = dir \/ task.at = "remove")
  BY <1>2, NothingOpen, OpenSame
<1> QED BY <1>1, <1>2 DEF Damage

LEMMA IoErrorKeeps == ASSUME RunInv, TypeInv', IoError PROVE RunInv'
<1>1. /\ AfterThrow(FALSE) /\ Damage /\ task' = NoTask
      /\ UNCHANGED <<checkpoint, mapping, receipts, canon, engine, dsh, plugin>>
  BY DEF IoError, AfterThrow
<1>2. DataInv'
  BY <1>1, DamageKeeps
<1>3. PhasesHold'
  <2>1. dir' = dir \/ task.at = "remove"
    BY <1>1 DEF Damage
  <2> QED BY <1>1, <2>1, ThrowPhases
<1>4. ReplayHolds'
  BY <1>1, NoTaskReplays, DamageOpens DEF RunInv, TypeInv
<1> QED BY <1>1, <1>2, <1>3, <1>4, NoTaskFits DEF RunInv, TaskInv

LEMMA CrashKeeps == ASSUME RunInv, TypeInv', Crash PROVE RunInv'
<1>1. /\ Damage /\ task' = NoTask /\ ctx' = NoContext
      /\ engine' = [up |-> FALSE, known |-> "none", drained |-> FALSE]
      /\ UNCHANGED <<row, checkpoint, mapping, receipts, canon, dsh, plugin>>
  BY DEF Crash, tables
<1>2. DataInv'
  BY <1>1, DamageKeeps
<1>3. PhasesHold'
  <2>1. dir' = dir \/ task.at = "remove"
    BY <1>1 DEF Damage
  <2> QED BY <1>1, <2>1, EndPhases
<1>4. ReplayHolds'
  BY <1>1, NoTaskReplays, DamageOpens DEF RunInv, TypeInv
<1> QED BY <1>1, <1>2, <1>3, <1>4, NoTaskFits DEF RunInv, TaskInv

LEMMA FinishRunKeeps == ASSUME RunInv, TypeInv', FinishRun PROVE RunInv'
<1>1. /\ task' = NoTask /\ ctx' = NoContext /\ engine' = [engine EXCEPT !.known = "none"]
      /\ row' \in {"closed", "recovered"}
      /\ UNCHANGED <<dir, checkpoint, file, wal, mapping, receipts, canon, dsh, plugin>>
  BY DEF FinishRun, files
<1>2. DataInv'
  <2>1. file'.events >= file.events /\ dsh'.emitted >= dsh.emitted
    BY <1>1, Shapes DEF RunInv, TypeInv
  <2>2. Still
    BY <1>1, <2>1 DEF Still, NoTask, Alive
  <2> QED BY <2>2, DataStill DEF RunInv, TypeInv
<1>3. PhasesHold'
  <2>1. engine'.known = "none" /\ engine'.drained = engine.drained
    BY <1>1 DEF RunInv, TypeInv, TypeOK, Engines
  <2> QED BY <1>1, <2>1, EndPhases
<1>4. ReplayHolds'
  BY <1>1, NoTaskReplays, NothingOpen, OpenSame DEF RunInv, TypeInv
<1> QED BY <1>1, <1>2, <1>3, <1>4, NoTaskFits DEF RunInv, TaskInv

(***************************************************************************)
(* The steps of an append                                                  *)
(***************************************************************************)
LEMMA AppendingNow ==
    ASSUME RunInv, task.at \in AppendSteps
    PROVE  /\ task.call \in Appends /\ ctx.where = "active" /\ ctx.map = mapping /\ dir = "whole"
           /\ engine.up /\ task.op.id \in OpIds /\ task.op \in Ops /\ GoodOp(task.op) /\ mapping.base # 0
           /\ task.call = "append" => task.op = plugin.batch /\ plugin.batch # NoOp
           /\ wal[task.op.id].state \in {"pending", "applied", "committed"} => wal[task.op.id].op = task.op
           /\ Open \subseteq task.todo \cup {task.op.id}
<1>1. TypeOK /\ StepsHold /\ EngineHolds /\ DirHolds /\ CallHolds /\ AppendHolds /\ ReplayHolds /\ OpenHolds
      /\ QueueHolds
  BY DEF RunInv, TypeInv, TaskInv, DataInv, PhasesHold
<1>2. task.call \in Appends
  BY <1>1, CallKinds
<1>3. ctx.where = "active"
  BY <1>1, <1>2 DEF EngineHolds, Appends, AppendSteps
<1>4. dir = "whole"
  BY <1>1, <1>2 DEF DirHolds, Appends, AppendSteps
<1>5. ctx.map = mapping /\ engine.up
  BY <1>1, <1>2, <1>3 DEF EngineHolds, Appends
<1>6. /\ task.op.id \in OpIds /\ GoodOp(task.op) /\ mapping.base # 0
      /\ task.call = "append" => task.op = plugin.batch /\ plugin.batch # NoOp
      /\ wal[task.op.id].state \in {"pending", "applied", "committed"} => wal[task.op.id].op = task.op
  BY <1>1 DEF CallHolds
<1>7. task.op \in Ops
  BY <1>1, Shapes
<1>8. Open \subseteq task.todo \cup {task.op.id}
  <2>1. CASE task.call = "append"
    <3> SUFFICES ASSUME NEW id \in Open PROVE id = plugin.batch.id
      BY <1>6, <2>1
    <3> QED BY <1>1, <2>1 DEF OpenHolds
  <2>2. CASE task.call # "append"
    BY <1>1, <1>2, <2>2 DEF ReplayHolds, Appends
  <2> QED BY <2>1, <2>2
<1> QED BY <1>2, <1>3, <1>4, <1>5, <1>6, <1>7, <1>8

LEMMA Inside ==
    ASSUME RunInv, TypeInv', task.at \in AppendSteps, NEW step \in AppendSteps \cup {"done"}, GoTo(step),
           UNCHANGED <<row, dir, checkpoint, engine, dsh, plugin>>,
           ctx'.where = ctx.where, ctx'.bridge = ctx.bridge, ctx'.map = mapping'
    PROVE  /\ StepsHold' /\ PhasesHold'
           /\ task'.at = step /\ task'.call = task.call /\ task'.op = task.op /\ task'.todo = task.todo
           /\ task'.fixed = task.fixed
<1>1. TypeOK /\ StepsHold /\ EngineHolds /\ DirHolds /\ DshHolds
  BY DEF RunInv, TypeInv, TaskInv, PhasesHold
<1>2. /\ task'.at = step /\ task'.call = task.call /\ task'.op = task.op /\ task'.todo = task.todo
      /\ task'.fixed = task.fixed
  BY <1>1 DEF GoTo, TypeOK, Tasks
<1>3. task.call \in Appends /\ ctx.where = "active" /\ dir = "whole" /\ engine.up
  BY AppendingNow
<1>4. StepsHold'
  BY <1>1, <1>2, <1>3 DEF StepsHold, Appends, AppendSteps
<1>5. EngineHolds'
  BY <1>1, <1>2, <1>3 DEF EngineHolds
<1>6. DirHolds'
  BY <1>1, <1>2, <1>3 DEF DirHolds, AppendSteps
<1>7. DshHolds'
  BY <1>1, <1>2 DEF DshHolds, Alive
<1> QED BY <1>2, <1>4, <1>5, <1>6, <1>7 DEF PhasesHold

\* An append that goes on while nothing lasting changes.
LEMMA InsideStill ==
    ASSUME RunInv, TypeInv', task.at \in AppendSteps, NEW step \in AppendSteps \cup {"done"}, GoTo(step),
           UNCHANGED <<tables, memory, outside, dir, checkpoint, wal>>, file'.events >= file.events
    PROVE  /\ StepsHold' /\ PhasesHold' /\ DataInv' /\ CallHolds'
           /\ Open' = Open /\ Held' = Held /\ NextInLine' = NextInLine
           /\ \A id : Receipted(id)' = Receipted(id) /\ Lags(id)' = Lags(id) /\ Done(id)' = Done(id)
           /\ task'.at = step /\ task'.call = task.call /\ task'.op = task.op /\ task'.todo = task.todo
           /\ task'.fixed = task.fixed
<1>1. TypeOK /\ TypeOK' /\ CallHolds
  BY DEF RunInv, TypeInv, TaskInv
<1>2. UNCHANGED <<row, mapping, receipts, canon, engine, ctx, dsh, plugin>>
  BY DEF tables, memory, outside
<1>3. ctx.map = mapping /\ task.op.id \in OpIds /\ task.op \in Ops /\ GoodOp(task.op) /\ mapping.base # 0
  BY AppendingNow
<1>4. /\ StepsHold' /\ PhasesHold'
      /\ task'.at = step /\ task'.call = task.call /\ task'.op = task.op /\ task'.todo = task.todo
      /\ task'.fixed = task.fixed
  BY <1>2, <1>3, Inside
<1>5. Still
  <2>1. dsh'.emitted >= dsh.emitted
    BY <1>1, <1>2, Shapes
  <2> QED BY <1>2, <1>4, <2>1 DEF Still, Alive
<1>6. DataInv'
  BY <1>1, <1>5, DataStill DEF RunInv
<1>7. /\ Held' = Held /\ Open' = Open
      /\ \A id : Receipted(id)' = Receipted(id) /\ Lags(id)' = Lags(id) /\ Done(id)' = Done(id)
  BY <1>2, HeldSame, OpenSame
<1>8. NextInLine' = NextInLine
  BY <1>2, <1>4, <1>7 DEF NextInLine
<1>9. CallHolds'
  <2>1. GoodOp(task.op)'
    BY <1>1, <1>3, <1>4, <1>5, GoodOpSame DEF Still
  <2> QED BY <1>1, <1>2, <1>3, <1>4, <2>1 DEF CallHolds, AppendSteps
<1> QED BY <1>4, <1>6, <1>7, <1>8, <1>9

\* A task inside an append that neither opens a record nor forgets one.
LEMMA InsideReplays ==
    ASSUME RunInv, TypeInv', task.at \in AppendSteps, task'.at \in AppendSteps \cup {"done"},
           task'.call = task.call, task'.op = task.op, task'.todo = task.todo, task'.fixed = task.fixed,
           Open' \subseteq Open \cup {task.op.id}, task'.at = "done" => task.op.id \notin Open',
           mapping'.rev >= mapping.rev, dir' = dir,
           \A id \in task.todo : wal'[id].state \in {"pending", "applied", "committed"}
    PROVE  ReplayHolds'
<1>1. Open \subseteq task.todo \cup {task.op.id} /\ dir' = "whole"
  BY AppendingNow
<1>2. task.fixed <= mapping.rev /\ task.fixed \in Nat /\ mapping.rev \in Nat /\ mapping'.rev \in Nat
  <2>1. task.fixed <= mapping.rev /\ task.fixed \in Nat /\ mapping.rev \in Nat
    BY Shapes DEF RunInv, TypeInv, TaskInv, ReplayHolds
  <2>2. mapping'.rev \in Nat
    BY DEF TypeInv, TypeOK, Mappings
  <2> QED BY <2>1, <2>2
<1> QED BY <1>1, <1>2 DEF ReplayHolds, AppendSteps

LEMMA MappedOrLags ==
    ASSUME RunInv, NEW id \in OpIds, Receipted(id)
    PROVE  receipts[id].logical = mapping.logical \/ Lags(id)
<1>1. TypeOK /\ HistoriesHold /\ ReceiptsHold /\ MappingHolds
  BY DEF RunInv, TypeInv, DataInv
<1>2. Proper(receipts[id].logical) /\ receipts[id].rev \in 1..Held /\ mapping.base # 0
  BY <1>1 DEF ReceiptsHold, MappingHolds
<1>3. CASE Proper(mapping.logical)
  BY <1>1, <1>2, <1>3 DEF Proper, HistoriesHold
<1>4. CASE mapping.logical = Root /\ ~Proper(mapping.logical)
  <2>1. Codex
    BY <1>4 DEF Proper
  <2>2. mapping.rev = 0
    BY <1>1, <1>2, <1>4, <2>1 DEF MappingHolds, Anchored
  <2> QED BY SMTT(60), <1>1, <1>2, <2>2, Shapes DEF Lags
<1> QED BY <1>1, <1>3, <1>4 DEF MappingHolds

LEMMA LookUpKeeps == ASSUME RunInv, TypeInv', LookUp PROVE RunInv'
<1> DEFINE op == task.op
<1>1. /\ TypeOK /\ TypeOK' /\ task.at = "look" /\ task.at \in AppendSteps
      /\ AppendHolds /\ ReplayHolds /\ LogHolds /\ OpenHolds
  BY DEF RunInv, TypeInv, TaskInv, DataInv, LookUp, At, AppendSteps
<1>2. /\ op.id \in OpIds /\ ctx.map = mapping
      /\ wal[op.id].state \in {"pending", "applied", "committed"} => wal[op.id].op = op
  BY <1>1, AppendingNow
<1>3. ASSUME Fails(FALSE) PROVE RunInv'
  BY <1>3, FailsKeeps
<1>4. ASSUME NEW step \in AppendSteps \cup {"done"}, GoTo(step), UNCHANGED <<files, tables, memory, outside>>,
             step \in {"put", "apply", "commit"} => NextInLine /\ Open \subseteq {op.id},
             step = "put" => wal[op.id].state = "none" /\ NewRecord,
             step = "apply" => wal[op.id].state = "pending",
             step = "commit" => wal[op.id].state = "applied",
             step \in {"switch", "upsert"} => Receipted(op.id) /\ Lags(op.id),
             step = "done" => Done(op.id),
             step \notin {"look", "mark", "settle"}
      PROVE  RunInv'
  <2>1. UNCHANGED <<dir, checkpoint, wal, file>> /\ file'.events >= file.events
    BY <1>1, <1>4, Shapes DEF files
  <2>2. /\ StepsHold' /\ PhasesHold' /\ DataInv' /\ CallHolds'
        /\ Open' = Open /\ Held' = Held /\ NextInLine' = NextInLine
        /\ \A id : Receipted(id)' = Receipted(id) /\ Lags(id)' = Lags(id) /\ Done(id)' = Done(id)
        /\ task'.at = step /\ task'.call = task.call /\ task'.op = task.op /\ task'.todo = task.todo
        /\ task'.fixed = task.fixed
    BY <1>1, <1>4, <2>1, InsideStill
  <2>3. AppendHolds'
    <3>1. step = "commit" => op.hi <= file.events
      BY <1>1, <1>2, <1>4 DEF LogHolds
    <3>2. NewRecord' = NewRecord
      BY <2>2 DEF NewRecord
    <3> QED BY <1>4, <2>1, <2>2, <3>1, <3>2 DEF AppendHolds, AppendSteps
  <2>4. ReplayHolds'
    <3>1. mapping'.rev >= mapping.rev /\ dir' = dir
      BY <1>1, <1>4, Shapes DEF tables, files
    <3>2. \A id \in task.todo : wal'[id].state \in {"pending", "applied", "committed"}
      BY <1>1, <2>1 DEF ReplayHolds
    <3>3. task'.at = "done" => task.op.id \notin Open'
      BY <1>4, <2>2 DEF Open, Done
    <3> QED BY <1>1, <1>4, <2>2, <3>1, <3>2, <3>3, InsideReplays
  <2> QED BY <2>2, <2>3, <2>4 DEF RunInv, TaskInv
<1>5. CASE Receipted(op.id) /\ GoTo(Reconcile(op.id)) /\ UNCHANGED <<files, tables, memory, outside>>
  <2> DEFINE step == Reconcile(op.id)
  <2>1. step \in {"switch", "upsert", "done"}
    BY DEF Reconcile
  <2>2. /\ step \in {"switch", "upsert"} => Lags(op.id)
        /\ step = "done" => Done(op.id)
    <3>1. receipts[op.id].logical = mapping.logical \/ Lags(op.id)
      BY <1>2, <1>5, MappedOrLags
    <3>2. mapping.rev \in Nat /\ receipts[op.id].rev \in Nat
      BY SMTT(60), <1>1, <1>2, Shapes
    <3> QED BY <1>2, <1>5, <3>1, <3>2 DEF Reconcile, Lags, Done
  <2> HIDE DEF step
  <2> QED BY <1>4, <1>5, <2>1, <2>2 DEF AppendSteps, step
<1>6. CASE /\ ~Receipted(op.id)
           /\ wal[op.id].state \in {"pending", "applied", "committed", "none"}
           /\ GoTo(Resume(wal[op.id].state))
           /\ UNCHANGED <<files, tables, memory, outside>>
  <2> DEFINE step == Resume(wal[op.id].state)
  <2>1. wal[op.id].state # "committed"
    BY <1>1, <1>2, <1>6 DEF LogHolds
  <2>2. /\ step \in {"put", "apply", "commit"}
        /\ step = "put" => wal[op.id].state = "none" /\ NewRecord
        /\ step = "apply" => wal[op.id].state = "pending"
        /\ step = "commit" => wal[op.id].state = "applied"
    BY <1>1, <1>6, <2>1 DEF Resume, AppendHolds, Done
  <2>3. NextInLine /\ Open \subseteq {op.id}
    <3>1. CASE wal[op.id].state = "none"
      BY <1>1, <1>6, <3>1 DEF AppendHolds, Done
    <3>2. CASE wal[op.id].state \in {"pending", "applied"}
      <4>1. op.id \in Open
        BY <1>2, <1>6, <3>2 DEF Open, Kept
      <4> QED BY <1>1, <1>2, <1>6, <3>2, <4>1 DEF OpenHolds, NextInLine
    <3> QED BY <1>6, <2>1, <3>1, <3>2
  <2> HIDE DEF step
  <2> QED BY <1>4, <1>6, <2>2, <2>3 DEF AppendSteps, step
<1> QED BY <1>3, <1>5, <1>6 DEF LookUp

LEMMA ApplyAppendKeeps == ASSUME RunInv, TypeInv', ApplyAppend PROVE RunInv'
<1>1. /\ TypeOK /\ TypeOK' /\ task.at = "apply" /\ task.at \in AppendSteps
      /\ AppendHolds /\ ReplayHolds
  BY DEF RunInv, TypeInv, TaskInv, ApplyAppend, At, AppendSteps
<1>2. CASE Fails(FALSE)
  BY <1>2, FailsKeeps
<1>3. CASE /\ Appliable(task.op) /\ file' = [file EXCEPT !.events = task.op.hi] /\ GoTo("mark")
           /\ UNCHANGED <<dir, checkpoint, wal, tables, memory, outside>>
  <2>1. task.op.hi \in 0..MaxEvents /\ task.op.lo \in 0..MaxEvents /\ file.events \in 0..MaxEvents
    BY <1>1, Shapes DEF Ops
  <2>2. file'.events = task.op.hi /\ file.events <= task.op.hi
    BY <1>1, <1>3, <2>1 DEF Appliable, TypeOK, Files
  <2>3. /\ StepsHold' /\ PhasesHold' /\ DataInv' /\ CallHolds'
        /\ Open' = Open /\ Held' = Held /\ NextInLine' = NextInLine
        /\ task'.at = "mark" /\ task'.call = task.call /\ task'.op = task.op /\ task'.todo = task.todo
        /\ task'.fixed = task.fixed
    <3>1. file'.events >= file.events /\ "mark" \in AppendSteps
      BY <2>1, <2>2 DEF AppendSteps
    <3> QED BY <1>1, <1>3, <3>1, InsideStill
  <2>4. AppendHolds'
    BY <1>1, <1>3, <2>1, <2>2, <2>3 DEF AppendHolds
  <2>5. ReplayHolds'
    <3>1. mapping'.rev >= mapping.rev /\ dir' = dir
      BY <1>1, <1>3, Shapes DEF tables
    <3>2. \A id \in task.todo : wal'[id].state \in {"pending", "applied", "committed"}
      BY <1>1, <1>3 DEF ReplayHolds
    <3> QED BY <1>1, <2>3, <3>1, <3>2, InsideReplays DEF AppendSteps
  <2> QED BY <2>3, <2>4, <2>5 DEF RunInv, TaskInv
<1> QED BY <1>2, <1>3 DEF ApplyAppend

LEMMA SwitchKeeps == ASSUME RunInv, TypeInv', SwitchLogicalSession PROVE RunInv'
<1>1. /\ TypeOK /\ TypeOK' /\ task.at = "switch" /\ task.at \in AppendSteps
      /\ AppendHolds /\ ReplayHolds
  BY DEF RunInv, TypeInv, TaskInv, SwitchLogicalSession, At, AppendSteps
<1>2. CASE Fails(FALSE)
  BY <1>2, FailsKeeps
<1>3. CASE /\ file' = [file EXCEPT !.logical = receipts[task.op.id].logical,
                                   !.base = receipts[task.op.id].version]
           /\ GoTo("upsert")
           /\ UNCHANGED <<dir, checkpoint, wal, tables, memory, outside>>
  <2>1. file'.events = file.events /\ file'.events >= file.events
    BY <1>1, <1>3, Shapes DEF TypeOK, Files
  <2>2. /\ StepsHold' /\ PhasesHold' /\ DataInv' /\ CallHolds'
        /\ Open' = Open /\ Held' = Held
        /\ \A id : Receipted(id)' = Receipted(id) /\ Lags(id)' = Lags(id)
        /\ task'.at = "upsert" /\ task'.call = task.call /\ task'.op = task.op /\ task'.todo = task.todo
        /\ task'.fixed = task.fixed
    <3>1. "upsert" \in AppendSteps
      BY DEF AppendSteps
    <3> QED BY <1>1, <1>3, <2>1, <3>1, InsideStill
  <2>3. AppendHolds'
    BY <1>1, <2>2 DEF AppendHolds
  <2>4. ReplayHolds'
    <3>1. mapping'.rev >= mapping.rev /\ dir' = dir
      BY <1>1, <1>3, Shapes DEF tables
    <3>2. \A id \in task.todo : wal'[id].state \in {"pending", "applied", "committed"}
      BY <1>1, <1>3 DEF ReplayHolds
    <3> QED BY <1>1, <2>2, <3>1, <3>2, InsideReplays DEF AppendSteps
  <2> QED BY <2>2, <2>3, <2>4 DEF RunInv, TaskInv
<1> QED BY <1>2, <1>3 DEF SwitchLogicalSession

\* A step of an append that writes the record of its operation.
LEMMA InsideLog ==
    ASSUME RunInv, TypeInv', task.at \in AppendSteps, NEW step \in AppendSteps \cup {"done"}, GoTo(step),
           UNCHANGED <<dir, checkpoint, file, tables, memory, outside>>, LogChange(task.op.id),
           wal'[task.op.id].state \in {"pending", "applied", "committed"} => wal'[task.op.id].op = task.op
    PROVE  /\ StepsHold' /\ PhasesHold' /\ CallHolds'
           /\ HistoriesHold' /\ ReceiptsHold' /\ MappingHolds' /\ QueueHolds' /\ LogHolds' /\ PluginAgrees'
           /\ Held' = Held /\ NextInLine' = NextInLine
           /\ \A id : Receipted(id)' = Receipted(id) /\ Lags(id)' = Lags(id) /\ Done(id)' = Done(id)
           /\ task'.at = step /\ task'.call = task.call /\ task'.op = task.op /\ task'.todo = task.todo
           /\ task'.fixed = task.fixed
<1>1. TypeOK /\ TypeOK' /\ CallHolds
  BY DEF RunInv, TypeInv, TaskInv
<1>2. UNCHANGED <<row, mapping, receipts, canon, engine, ctx, dsh, plugin, file>> /\ file'.events = file.events
  BY DEF tables, memory, outside
<1>3. ctx.map = mapping /\ task.op.id \in OpIds /\ task.op \in Ops /\ GoodOp(task.op) /\ mapping.base # 0
  BY AppendingNow
<1>4. /\ StepsHold' /\ PhasesHold'
      /\ task'.at = step /\ task'.call = task.call /\ task'.op = task.op /\ task'.todo = task.todo
      /\ task'.fixed = task.fixed
  BY <1>2, <1>3, Inside
<1>5. HistoriesHold' /\ ReceiptsHold' /\ MappingHolds' /\ QueueHolds' /\ LogHolds' /\ PluginAgrees'
  BY <1>2, <1>3, <1>4, LogStep
<1>6. /\ Held' = Held
      /\ \A id : Receipted(id)' = Receipted(id) /\ Lags(id)' = Lags(id) /\ Done(id)' = Done(id)
  BY <1>2, HeldSame DEF Receipted, Lags, Done
<1>7. NextInLine' = NextInLine
  BY <1>2, <1>4, <1>6 DEF NextInLine
<1>8. CallHolds'
  <2>1. dsh'.emitted >= dsh.emitted
    BY <1>1, <1>2, Shapes
  <2>2. GoodOp(task.op)'
    BY <1>1, <1>2, <1>3, <1>4, <2>1, GoodOpSame
  <2> QED BY <1>1, <1>2, <1>3, <1>4, <2>2 DEF CallHolds, AppendSteps
<1> QED BY <1>4, <1>5, <1>6, <1>7, <1>8

\* The name of a good operation tells where it ends.
LEMMA NameTells ==
    ASSUME NEW op, GoodOp(op)
    PROVE  op.id[3] = op.hi /\ (op.id = LiveId(op.hi) \/ op.id[1] = "tail")
BY DEF GoodOp, LiveId, TailId

LEMMA PutPendingKeeps == ASSUME RunInv, TypeInv', PutPending PROVE RunInv'
<1> DEFINE i == task.op.id
<1>1. /\ TypeOK /\ TypeOK' /\ task.at = "put" /\ task.at \in AppendSteps
      /\ AppendHolds /\ ReplayHolds /\ OpenHolds /\ EngineHolds /\ DshHolds /\ QueueHolds
      /\ task' = [task EXCEPT !.at = "apply"] /\ GoTo("apply")
      /\ wal' = [wal EXCEPT ![i] = [state |-> "pending", op |-> task.op]]
      /\ UNCHANGED <<dir, checkpoint, file, tables, memory, outside>>
      /\ UNCHANGED <<mapping, receipts, canon, plugin, dsh>>
  BY DEF RunInv, TypeInv, TaskInv, DataInv, PhasesHold, PutPending, At, GoTo, AppendSteps, tables, outside
<1>2. /\ i \in OpIds /\ task.op \in Ops /\ GoodOp(task.op) /\ i = task.op.id /\ task.call \in Appends
      /\ task.call = "append" => task.op = plugin.batch /\ plugin.batch # NoOp
  BY <1>1, AppendingNow
<1>3. /\ NextInLine /\ NewRecord /\ Open \subseteq {i} /\ wal[i].state = "none" /\ ~Receipted(i)
  BY <1>1 DEF AppendHolds, NextInLine
<1> HIDE DEF i
<1>4. /\ wal'[i] = [state |-> "pending", op |-> task.op]
      /\ \A id \in OpIds : id # i => wal'[id] = wal[id]
  BY <1>1, <1>2 DEF TypeOK
<1>5. \* A new record of the plugin's batch is the batch.
      plugin.batch # NoOp /\ plugin.batch.id = i => task.op = plugin.batch
  <2> SUFFICES ASSUME plugin.batch # NoOp, plugin.batch.id = i, task.call # "append" PROVE FALSE
    BY <1>2
  <2>1. i[1] = "tail" /\ i = LiveId(plugin.batch.hi)
    BY <1>1, <1>2, <1>3 DEF NewRecord, QueueHolds
  <2> QED BY <2>1 DEF LiveId
<1>6. LogChange(i)
  <2>1. i[3] <= dsh.emitted
    BY <1>2, NameTells DEF GoodOp
  <2> QED BY <1>2, <1>3, <1>4, <1>5, <2>1 DEF LogChange
<1>7. /\ StepsHold' /\ PhasesHold' /\ CallHolds'
      /\ HistoriesHold' /\ ReceiptsHold' /\ MappingHolds' /\ QueueHolds' /\ LogHolds' /\ PluginAgrees'
      /\ Held' = Held /\ NextInLine' = NextInLine
      /\ \A id : Receipted(id)' = Receipted(id) /\ Lags(id)' = Lags(id)
      /\ task'.at = "apply" /\ task'.call = task.call /\ task'.op = task.op /\ task'.todo = task.todo
      /\ task'.fixed = task.fixed
  <2>1. "apply" \in AppendSteps
    BY DEF AppendSteps
  <2> QED BY <1>1, <1>2, <1>4, <1>6, <2>1, InsideLog
<1>8. Open' \subseteq {i}
  BY <1>3, <1>4, <1>7 DEF Open, Kept
<1>9. OpenHolds'
  <2>1. \/ i = plugin.batch.id
        \/ i[1] = "tail" /\ dsh.state = "exited" /\ task.call # "append"
    BY <1>1, <1>2, <1>3 DEF NewRecord, DshHolds, Appends, Closing
  <2> QED BY <1>1, <1>2, <1>3, <1>4, <1>7, <1>8, <2>1 DEF OpenHolds, NextInLine
<1>10. AppendHolds'
  BY <1>2, <1>3, <1>4, <1>7, <1>8 DEF AppendHolds
<1>11. ReplayHolds'
  <2>1. mapping'.rev >= mapping.rev /\ dir' = dir
    BY <1>1, Shapes
  <2>2. \A id \in task.todo : wal'[id].state \in {"pending", "applied", "committed"}
    BY <1>1, <1>4, Shapes DEF ReplayHolds
  <2> QED BY <1>1, <1>2, <1>7, <1>8, <2>1, <2>2, InsideReplays DEF AppendSteps
<1> QED BY <1>7, <1>9, <1>10, <1>11 DEF RunInv, TaskInv, DataInv

LEMMA MarkProjectionAppliedKeeps == ASSUME RunInv, TypeInv', MarkProjectionApplied PROVE RunInv'
<1> DEFINE i == task.op.id
<1>1. /\ TypeOK /\ TypeOK' /\ task.at = "mark" /\ task.at \in AppendSteps
      /\ AppendHolds /\ ReplayHolds /\ OpenHolds /\ LogHolds /\ QueueHolds
      /\ GoTo("commit") /\ wal' = [wal EXCEPT ![i].state = "applied"]
      /\ UNCHANGED <<dir, checkpoint, file, tables, memory, outside>>
      /\ UNCHANGED <<mapping, receipts, canon, plugin, dsh, file>>
  BY DEF RunInv, TypeInv, TaskInv, DataInv, MarkProjectionApplied, At, AppendSteps, tables, outside
<1>2. /\ i \in OpIds /\ GoodOp(task.op) /\ i = task.op.id
      /\ wal[i].state \in {"pending", "applied", "committed"} => wal[i].op = task.op
  BY <1>1, AppendingNow
<1>3. /\ NextInLine /\ Open \subseteq {i} /\ wal[i].state = "pending" /\ task.op.hi <= file.events
  BY <1>1 DEF AppendHolds, NextInLine
<1> HIDE DEF i
<1>4. /\ wal'[i].state = "applied" /\ wal'[i].op = wal[i].op /\ wal[i].op = task.op
      /\ \A id \in OpIds : id # i => wal'[id] = wal[id]
  BY <1>1, <1>2, <1>3 DEF TypeOK, Records
<1>5. LogChange(i)
  BY <1>1, <1>2, <1>3, <1>4 DEF LogChange, LogHolds, QueueHolds
<1>6. /\ StepsHold' /\ PhasesHold' /\ CallHolds'
      /\ HistoriesHold' /\ ReceiptsHold' /\ MappingHolds' /\ QueueHolds' /\ LogHolds' /\ PluginAgrees'
      /\ Held' = Held /\ NextInLine' = NextInLine
      /\ \A id : Receipted(id)' = Receipted(id) /\ Lags(id)' = Lags(id)
      /\ task'.at = "commit" /\ task'.call = task.call /\ task'.op = task.op /\ task'.todo = task.todo
      /\ task'.fixed = task.fixed
  <2>1. "commit" \in AppendSteps
    BY DEF AppendSteps
  <2> QED BY <1>1, <1>2, <1>4, <1>5, <2>1, InsideLog
<1>7. Open' \subseteq Open
  BY <1>2, <1>3, <1>4, <1>6 DEF Open, Kept
<1>8. OpenHolds'
  <2>1. \A id \in Open' : wal'[id].op = wal[id].op
    BY <1>4 DEF Open, Kept
  <2> QED BY <1>1, <1>6, <1>7, <2>1, OpenKept
<1>9. AppendHolds'
  BY <1>2, <1>3, <1>4, <1>6, <1>7, <1>1 DEF AppendHolds
<1>10. ReplayHolds'
  <2>1. mapping'.rev >= mapping.rev /\ dir' = dir
    BY <1>1, Shapes
  <2>2. \A id \in task.todo : wal'[id].state \in {"pending", "applied", "committed"}
    BY <1>1, <1>4, Shapes DEF ReplayHolds
  <2> QED BY <1>1, <1>6, <1>7, <2>1, <2>2, InsideReplays DEF AppendSteps
<1> QED BY <1>6, <1>8, <1>9, <1>10 DEF RunInv, TaskInv, DataInv

LEMMA MarkCommittedKeeps == ASSUME RunInv, TypeInv', MarkCommitted PROVE RunInv'
<1> DEFINE i == task.op.id
<1>1. /\ TypeOK /\ TypeOK' /\ task.at = "settle" /\ task.at \in AppendSteps
      /\ AppendHolds /\ ReplayHolds /\ OpenHolds /\ LogHolds /\ QueueHolds
      /\ GoTo("done") /\ wal' = [wal EXCEPT ![i].state = IF @ = "applied" THEN "committed" ELSE @]
      /\ UNCHANGED <<dir, checkpoint, file, tables, memory, outside>>
      /\ UNCHANGED <<mapping, receipts, canon, plugin, dsh, file>>
  BY DEF RunInv, TypeInv, TaskInv, DataInv, MarkCommitted, At, AppendSteps, tables, outside
<1>2. /\ i \in OpIds /\ GoodOp(task.op) /\ i = task.op.id
      /\ wal[i].state \in {"pending", "applied", "committed"} => wal[i].op = task.op
  BY <1>1, AppendingNow
<1>3. Done(i)
  BY <1>1 DEF AppendHolds
<1> HIDE DEF i
<1>4. /\ wal'[i].state = IF wal[i].state = "applied" THEN "committed" ELSE wal[i].state
      /\ wal'[i].op = wal[i].op
      /\ \A id \in OpIds : id # i => wal'[id] = wal[id]
  BY <1>1, <1>2 DEF TypeOK, Records
<1>5. LogChange(i)
  BY SMTT(60), <1>1, <1>2, <1>3, <1>4 DEF LogChange, LogHolds, QueueHolds, Done
<1>6. /\ StepsHold' /\ PhasesHold' /\ CallHolds'
      /\ HistoriesHold' /\ ReceiptsHold' /\ MappingHolds' /\ QueueHolds' /\ LogHolds' /\ PluginAgrees'
      /\ Held' = Held
      /\ \A id : Receipted(id)' = Receipted(id) /\ Lags(id)' = Lags(id) /\ Done(id)' = Done(id)
      /\ task'.at = "done" /\ task'.call = task.call /\ task'.op = task.op /\ task'.todo = task.todo
      /\ task'.fixed = task.fixed
  BY <1>1, <1>2, <1>4, <1>5, InsideLog
<1>7. Open' \subseteq Open /\ i \notin Open'
  BY <1>2, <1>3, <1>4, <1>6 DEF Open, Kept, Done
<1>8. OpenHolds'
  <2>1. \A id \in Open' : wal'[id].op = wal[id].op
    BY <1>4 DEF Open, Kept
  <2> QED BY <1>1, <1>6, <1>7, <2>1, OpenKept
<1>9. AppendHolds'
  BY <1>2, <1>3, <1>6 DEF AppendHolds
<1>10. ReplayHolds'
  <2>1. mapping'.rev >= mapping.rev /\ dir' = dir
    BY <1>1, Shapes
  <2>2. \A id \in task.todo : wal'[id].state \in {"pending", "applied", "committed"}
    BY <1>1, <1>4, Shapes DEF ReplayHolds
  <2> QED BY <1>1, <1>2, <1>6, <1>7, <2>1, <2>2, InsideReplays
<1> QED BY <1>6, <1>8, <1>9, <1>10 DEF RunInv, TaskInv, DataInv

(***************************************************************************)
(* The canonical sessions grow                                             *)
(***************************************************************************)
Grows ==
    \A l \in Logicals :
        /\ canon'[l].version >= canon[l].version
        /\ canon'[l].version = canon[l].version => canon'[l].body = canon[l].body
        /\ canon'[l].scope = canon[l].scope

LEMMA GrownPlaces ==
    ASSUME TypeOK, TypeOK', Grows
    PROVE  /\ Codex' = Codex
           /\ \A l \in Logicals : Exists(l) => Exists(l)'
           /\ \A l \in Logicals : \A base, n : Anchored(l, base, n) => Anchored(l, base, n)'
<1>1. Codex' = Codex
  BY Names DEF Codex, Grows
<1>2. \A l \in Logicals : canon[l].version \in Nat /\ canon'[l].version \in Nat
  BY DEF TypeOK, Sessions
<1>3. \A l \in Logicals : Exists(l) => Exists(l)'
  BY <1>2 DEF Grows, Exists
<1>4. \A l \in Logicals : \A base, n : Anchored(l, base, n) => Anchored(l, base, n)'
  <2> SUFFICES ASSUME NEW l \in Logicals, NEW base, NEW n, Anchored(l, base, n) PROVE Anchored(l, base, n)'
    OBVIOUS
  <2>1. base \in 1..canon'[l].version
    BY <1>2 DEF Anchored, Grows
  <2>2. base = canon'[l].version => n = Len(canon'[l].body)
    BY <1>2 DEF Anchored, Grows
  <2> QED BY <1>1, <2>1, <2>2 DEF Anchored
<1> QED BY <1>1, <1>3, <1>4

LEMMA GrownOps ==
    ASSUME TypeOK, TypeOK', Grows, dsh'.emitted = dsh.emitted
    PROVE  \A op \in Ops : GoodOp(op) => GoodOp(op)'
<1> SUFFICES ASSUME NEW op \in Ops, GoodOp(op) PROVE GoodOp(op)'
  OBVIOUS
<1>1. op.logical \in Logicals
  BY DEF Ops
<1>2. Anchored(op.logical, op.base, op.lo)'
  BY <1>1, GrownPlaces DEF GoodOp
<1> QED BY <1>2 DEF GoodOp

LEMMA TheHeir ==
    ASSUME HistoriesHold
    PROVE  /\ \A id \in OpIds : Exists(id) => Heir = id
           /\ (\A id \in OpIds : ~Exists(id)) => Heir = Root
<1>1. ASSUME NEW id \in OpIds, Exists(id) PROVE Heir = id
  <2> DEFINE d == CHOOSE other \in OpIds : Exists(other)
  <2>1. d \in OpIds /\ Exists(d)
    BY <1>1
  <2>2. Heir = d
    BY <1>1 DEF Heir
  <2> HIDE DEF d
  <2> QED BY <1>1, <2>1, <2>2 DEF HistoriesHold
<1> QED BY <1>1 DEF Heir

LEMMA TheNextHeir ==
    /\ \A id \in OpIds : Exists(id)' /\ (\A other \in OpIds : Exists(other)' => other = id) => Heir' = id
    /\ (\A id \in OpIds : ~Exists(id)') => Heir' = Root
<1>1. ASSUME NEW id \in OpIds, Exists(id)', \A other \in OpIds : Exists(other)' => other = id
      PROVE  Heir' = id
  <2>1. Heir' = CHOOSE other \in OpIds : Exists(other)'
    BY <1>1 DEF Heir
  <2>2. (CHOOSE other \in OpIds : Exists(other)') = id
    BY <1>1
  <2> QED BY <2>1, <2>2
<1> QED BY <1>1 DEF Heir

\* A new version of the same body changes nothing that an append looks at.
BodiesStay ==
    /\ Grows
    /\ \A l \in Logicals : canon'[l].body = canon[l].body
    /\ \A id \in OpIds : Exists(id)' <=> Exists(id)

LEMMA BodiesStayData ==
    ASSUME RunInv, TypeInv', BodiesStay, UNCHANGED <<wal, mapping, receipts, plugin, dsh>>,
           file'.events = file.events, task'.call = task.call
    PROVE  DataInv' /\ Held' = Held /\ Open' = Open
<1>1. /\ TypeOK /\ TypeOK' /\ Grows /\ HistoriesHold /\ ReceiptsHold /\ MappingHolds /\ QueueHolds /\ LogHolds
      /\ OpenHolds /\ PluginAgrees
  BY DEF RunInv, TypeInv, DataInv, BodiesStay
<1>2. Heir' = Heir
  <2>1. CASE \E id \in OpIds : Exists(id)
    <3>1. PICK id \in OpIds : Exists(id)
      BY <2>1
    <3>2. Heir = id
      BY <1>1, <3>1, TheHeir
    <3>3. Exists(id)' /\ \A other \in OpIds : Exists(other)' => other = id
      BY <1>1, <3>1 DEF BodiesStay, HistoriesHold
    <3> QED BY <3>2, <3>3, TheNextHeir
  <2>2. CASE ~ \E id \in OpIds : Exists(id)
    <3>1. Heir = Root
      BY <1>1, <2>2, TheHeir
    <3>2. Heir' = Root
      BY <2>2, TheNextHeir DEF BodiesStay
    <3> QED BY <3>1, <3>2
  <2> QED BY <2>1, <2>2
<1>3. Held' = Held
  BY <1>1, <1>2, Shapes DEF Held, History, BodiesStay
<1>4. /\ Open' = Open
      /\ \A id : Receipted(id)' = Receipted(id) /\ Lags(id)' = Lags(id)
  BY OpenSame
<1>5. /\ Codex' = Codex /\ \A l \in Logicals : Exists(l) => Exists(l)'
      /\ \A l \in Logicals : \A base, n : Anchored(l, base, n) => Anchored(l, base, n)'
      /\ \A op \in Ops : GoodOp(op) => GoodOp(op)'
  BY <1>1, GrownPlaces, GrownOps
<1>6. HistoriesHold'
  <2>1. \A l \in Logicals : /\ canon'[l].body = FirstEvents(Len(canon'[l].body))
                            /\ Len(canon'[l].body) <= dsh'.emitted
                            /\ Len(canon'[l].body) <= Held'
                            /\ ~Exists(l)' => canon'[l].body = <<>>
    BY <1>1, <1>3, <1>5 DEF HistoriesHold, BodiesStay
  <2>2. Codex' => canon'[Root].body = <<>> /\ Exists(Root)'
    BY <1>1, <1>5, Names DEF HistoriesHold, BodiesStay
  <2>3. \A id \in OpIds : /\ canon'[id].scope = "maintenance"
                          /\ Exists(id)' => Codex' /\ Receipted(id)' /\ receipts'[id].logical = id
    BY <1>1, <1>4, <1>5, Names DEF HistoriesHold, BodiesStay, Grows
  <2>4. \A a, b \in OpIds : Exists(a)' /\ Exists(b)' => a = b
    BY <1>1 DEF HistoriesHold, BodiesStay
  <2>5. Held' = 0 \/ \E id \in OpIds : Receipted(id)' /\ receipts'[id].rev = Held'
    BY <1>1, <1>3, <1>4 DEF HistoriesHold
  <2> QED BY <2>1, <2>2, <2>3, <2>4, <2>5 DEF HistoriesHold
<1>7. \A l \in Logicals : Proper(l) => Proper(l)'
  BY <1>5 DEF Proper
<1>8. ReceiptsHold'
  BY <1>1, <1>3, <1>4, <1>5, <1>7, Shapes DEF ReceiptsHold
<1>9. MappingHolds'
  BY <1>1, <1>3, <1>4, <1>5, <1>7, Shapes DEF MappingHolds
<1>10. QueueHolds'
  BY <1>1, <1>3, <1>5, Shapes DEF QueueHolds
<1>11. LogHolds'
  BY <1>1, <1>4, <1>5, Shapes DEF LogHolds
<1>12. OpenHolds'
  BY <1>1, <1>3, <1>4 DEF OpenHolds
<1>13. PluginAgrees'
  BY <1>1, <1>3, <1>4 DEF PluginAgrees, Taken, Alive
<1> QED BY <1>3, <1>4, <1>6, <1>8, <1>9, <1>10, <1>11, <1>12, <1>13 DEF DataInv

LEMMA EventsFollow ==
    ASSUME NEW op \in Ops, op.lo < op.hi
    PROVE  /\ FirstEvents(op.lo) \o Events(op) = FirstEvents(op.hi)
           /\ Len(FirstEvents(op.hi)) = op.hi
<1> DEFINE lo == op.lo
           hi == op.hi
<1>1. lo \in Nat /\ hi \in Nat /\ lo < hi
  BY DEF Ops
<1>2. Events(op) = [i \in 1..(hi - lo) |-> lo + i]
  BY DEF Events
<1> HIDE DEF lo, hi
<1>3. hi - lo \in Nat
  BY <1>1
<1>4. FirstEvents(lo) \in Seq(Nat) /\ Len(FirstEvents(lo)) = lo
  BY <1>1 DEF FirstEvents
<1>5. FirstEvents(hi) \in Seq(Nat) /\ Len(FirstEvents(hi)) = hi
  BY <1>1 DEF FirstEvents
<1>6. Events(op) \in Seq(Nat) /\ Len(Events(op)) = hi - lo
  BY <1>1, <1>2, <1>3
<1> DEFINE both == FirstEvents(lo) \o Events(op)
<1>7. both \in Seq(Nat) /\ Len(both) = hi
  BY SMTT(60), <1>1, <1>4, <1>6
<1>8. \A i \in 1..hi : both[i] = i
  <2> SUFFICES ASSUME NEW i \in 1..hi PROVE both[i] = i
    OBVIOUS
  <2>1. CASE i <= lo
    <3>1. both[i] = FirstEvents(lo)[i]
      BY <1>1, <1>4, <1>6, <2>1
    <3> QED BY <1>1, <2>1, <3>1 DEF FirstEvents
  <2>2. CASE i > lo
    <3>1. both[i] = Events(op)[i - lo]
      BY <1>1, <1>4, <1>6, <2>2
    <3>2. i - lo \in 1..(hi - lo)
      BY <1>1, <2>2
    <3>3. Events(op)[i - lo] = lo + (i - lo)
      BY <1>2, <3>2
    <3> QED BY <1>1, <3>1, <3>3
  <2>3. i <= lo \/ i > lo
    BY <1>1
  <2> QED BY <2>1, <2>2, <2>3
<1>9. \A i \in 1..hi : FirstEvents(hi)[i] = i
  BY <1>1 DEF FirstEvents
<1> HIDE DEF both
<1>10. both = FirstEvents(hi)
  BY <1>1, <1>5, <1>7, <1>8, <1>9
<1> QED BY <1>5, <1>10 DEF both, lo, hi

\* What an accepted append finds: the operation starts where the session it goes
\* to ends, nothing else is open, and the session is the heir of the history.
Target == IF canon[task.op.logical].scope = "codex" THEN task.op.id ELSE task.op.logical
Accepted ==
    /\ task.op.logical = ctx.map.logical
    /\ IF canon[task.op.logical].scope = "codex" THEN ~Exists(Target)
       ELSE task.op.base = canon[task.op.logical].version

LEMMA AcceptedFits ==
    ASSUME RunInv, task.at = "commit", Accepted
    PROVE  /\ canon[task.op.logical].body = FirstEvents(task.op.lo)
           /\ Target \in Logicals
           /\ canon[Target].scope = "maintenance"
           /\ Codex => Target \in OpIds /\ \A id \in OpIds : Exists(id) => id = Target
           /\ ~Codex => Target = Root
           /\ Target \in OpIds /\ ~Exists(Target) => Target = task.op.id
           /\ Held < task.op.hi
<1> DEFINE op == task.op
<1>1. /\ TypeOK /\ HistoriesHold /\ ReceiptsHold /\ MappingHolds /\ LogHolds /\ OpenHolds /\ AppendHolds
      /\ task.at \in AppendSteps
  BY DEF RunInv, TypeInv, DataInv, TaskInv, AppendSteps
<1>2. op.id \in OpIds /\ op \in Ops /\ GoodOp(op) /\ mapping.base # 0 /\ op.logical \in Logicals
  BY <1>1, AppendingNow DEF Ops
<1>3. op.logical = mapping.logical /\ Held <= op.lo /\ ~Receipted(op.id) /\ Open \subseteq {op.id}
  BY <1>1 DEF AppendHolds, NextInLine
<1>4. op.lo \in Nat /\ op.hi \in Nat /\ op.lo < op.hi /\ Held \in Nat
  BY SMTT(60), <1>1, <1>2, Shapes DEF Ops, GoodOp
<1>5. canon[op.logical].body = FirstEvents(Len(canon[op.logical].body)) /\ Len(canon[op.logical].body) \in Nat
  BY <1>1, <1>2, Shapes DEF HistoriesHold
<1>6. canon[op.logical].scope = "codex" => op.logical = Root /\ Codex
  BY <1>1, <1>2 DEF HistoriesHold, Logicals, Codex
<1>7. canon[op.logical].scope \in {"codex", "maintenance"}
  BY <1>1, <1>2 DEF TypeOK, Sessions
<1>8. Len(canon[op.logical].body) = op.lo
  <2>1. CASE canon[op.logical].scope = "codex"
    <3>1. op.lo = 0 /\ canon[op.logical].body = <<>>
      BY <1>1, <1>2, <1>6, <2>1 DEF GoodOp, Anchored, HistoriesHold
    <3> QED BY <3>1
  <2>2. CASE canon[op.logical].scope # "codex"
    BY <1>2, <2>2 DEF Accepted, GoodOp, Anchored
  <2> QED BY <2>1, <2>2
<1>9. ASSUME Codex, op.logical = Root PROVE \A id \in OpIds : ~Exists(id)
  <2> SUFFICES ASSUME NEW id \in OpIds, Exists(id) PROVE FALSE
    OBVIOUS
  <2>1. Receipted(id) /\ receipts[id].logical = id /\ id # Root
    BY <1>1 DEF HistoriesHold, OpIds, LiveId, TailId, Root
  <2>2. Lags(id)
    BY <1>3, <1>9, <2>1, MappedOrLags
  <2>3. id \in Open
    BY <1>1, <2>1, <2>2 DEF LogHolds, Open, Kept
  <2> QED BY <1>3, <2>1, <2>3
<1>10. CASE canon[op.logical].scope = "codex"
  <2>1. Target = op.id /\ op.logical = Root /\ Codex
    BY <1>6, <1>10 DEF Target
  <2>2. canon[op.id].scope = "maintenance"
    BY <1>1, <1>2 DEF HistoriesHold
  <2> QED BY <1>2, <1>3, <1>4, <1>5, <1>8, <1>9, <2>1, <2>2, Names
<1>11. CASE canon[op.logical].scope = "maintenance"
  <2>1. Target = op.logical
    BY <1>11 DEF Target
  <2>2. Codex => op.logical # Root
    BY <1>11 DEF Codex
  <2>3. Proper(op.logical)
    BY <1>1, <1>3, <2>2 DEF MappingHolds, Proper
  <2>4. Root \notin OpIds
    BY DEF OpIds, LiveId, TailId, Root
  <2> QED BY <1>1, <1>2, <1>3, <1>4, <1>5, <1>8, <1>11, <2>1, <2>3, <2>4 DEF Proper, HistoriesHold
<1> QED BY <1>7, <1>10, <1>11

Committed ==
    LET op == task.op
        version == canon[Target].version + 1
    IN /\ canon' = [canon EXCEPT ![Target] =
             [version |-> version, body |-> canon[op.logical].body \o Events(op),
              scope |-> "maintenance", gone |-> FALSE]]
       /\ receipts' = [receipts EXCEPT ![op.id] =
             [logical |-> Target, version |-> version, rev |-> op.hi]]
       /\ GoTo(IF ctx.codex THEN "switch" ELSE "upsert")
       /\ UNCHANGED <<files, row, mapping, memory, outside>>

\* What an accepted append leaves in the tables.
LEMMA CommittedTables ==
    ASSUME RunInv, TypeInv', task.at = "commit", Accepted, Committed
    PROVE  /\ Grows /\ Codex' = Codex
           /\ Heir' = Target /\ Held' = task.op.hi /\ Held < Held'
           /\ canon'[Target].body = FirstEvents(task.op.hi)
           /\ canon'[Target].version # 0
           /\ \A l \in Logicals : l # Target => canon'[l] = canon[l]
           /\ receipts'[task.op.id] = [logical |-> Target, version |-> canon'[Target].version,
                                       rev |-> task.op.hi]
           /\ \A id \in OpIds : id # task.op.id => receipts'[id] = receipts[id]
           /\ receipts'[task.op.id].version # 0
           /\ \A l, base, n :
                 l = Target /\ base = canon'[Target].version /\ n = task.op.hi => Anchored(l, base, n)'
<1> DEFINE op == task.op
           version == canon[Target].version + 1
<1>1. /\ TypeOK /\ TypeOK' /\ HistoriesHold /\ AppendHolds /\ task.at \in AppendSteps
  BY DEF RunInv, TypeInv, DataInv, TaskInv, AppendSteps
<1>2. op.id \in OpIds /\ op \in Ops /\ GoodOp(op)
  BY <1>1, AppendingNow
<1>3. /\ canon[op.logical].body = FirstEvents(op.lo)
      /\ Target \in Logicals
      /\ canon[Target].scope = "maintenance"
      /\ Codex => Target \in OpIds /\ \A id \in OpIds : Exists(id) => id = Target
      /\ ~Codex => Target = Root
      /\ Target \in OpIds /\ ~Exists(Target) => Target = op.id
      /\ Held < op.hi
  BY AcceptedFits
<1>4. op.lo < op.hi
  BY <1>2 DEF GoodOp
<1>5. FirstEvents(op.lo) \o Events(op) = FirstEvents(op.hi) /\ Len(FirstEvents(op.hi)) = op.hi
  BY <1>2, <1>4, EventsFollow
<1>6. /\ canon' = [canon EXCEPT ![Target] = [version |-> version, body |-> FirstEvents(op.hi),
                                             scope |-> "maintenance", gone |-> FALSE]]
      /\ receipts' = [receipts EXCEPT ![op.id] = [logical |-> Target, version |-> version, rev |-> op.hi]]
  BY <1>3, <1>5 DEF Committed
<1>7. /\ canon'[Target] = [version |-> version, body |-> FirstEvents(op.hi),
                           scope |-> "maintenance", gone |-> FALSE]
      /\ \A l \in Logicals : l # Target => canon'[l] = canon[l]
  BY <1>1, <1>3, <1>6 DEF TypeOK
<1>8. /\ receipts'[op.id] = [logical |-> Target, version |-> version, rev |-> op.hi]
      /\ \A id \in OpIds : id # op.id => receipts'[id] = receipts[id]
  BY <1>1, <1>2, <1>6 DEF TypeOK
<1>9. canon[Target].version \in Nat /\ version \in Nat /\ version > canon[Target].version /\ version # 0
  <2>1. \A l \in Logicals : canon[l].version \in Nat
    BY <1>1, Shapes
  <2>2. canon[Target].version \in Nat
    BY <1>3, <2>1
  <2> QED BY <2>2
<1>10. Grows
  <2>1. \A l \in Logicals : canon[l].version \in Nat
    BY <1>1, Shapes
  <2> QED BY <1>3, <1>7, <1>9, <2>1 DEF Grows
<1>11. Codex' = Codex
  BY <1>1, <1>10, GrownPlaces
<1>12. canon'[Target].version # 0
  BY <1>7, <1>9
<1>13. Heir' = Target
  <2>1. CASE Codex
    <3>1. Target \in OpIds /\ \A other \in OpIds : Exists(other)' => other = Target
      BY <1>3, <1>7, <2>1, Names DEF Exists
    <3>2. \E id \in OpIds : id = Target
      BY <3>1
    <3>3. PICK id \in OpIds : id = Target
      BY <3>2
    <3>4. Exists(id)' /\ \A other \in OpIds : Exists(other)' => other = id
      BY <1>7, <1>9, <3>1, <3>3 DEF Exists
    <3> QED BY <3>3, <3>4, TheNextHeir
  <2>2. CASE ~Codex
    <3>1. Target = Root /\ Root \notin OpIds /\ \A id \in OpIds : ~Exists(id)
      BY <1>1, <1>3, <2>2 DEF HistoriesHold, OpIds, LiveId, TailId, Root
    <3>2. \A id \in OpIds : ~Exists(id)'
      BY <1>7, <3>1, Names DEF Exists
    <3> QED BY <3>1, <3>2, TheNextHeir
  <2> QED BY <2>1, <2>2
<1>14. Held' = op.hi
  BY <1>5, <1>7, <1>13 DEF Held, History
<1>15. receipts'[op.id].version # 0 /\ receipts'[op.id].version = canon'[Target].version
  BY <1>7, <1>8, <1>9
<1>16. ASSUME NEW l, NEW base, NEW n, l = Target, base = canon'[Target].version, n = op.hi
       PROVE  Anchored(l, base, n)'
  <2>1. base \in 1..canon'[l].version
    BY <1>7, <1>9, <1>16
  <2>2. n = Len(canon'[l].body)
    BY <1>5, <1>7, <1>16
  <2>3. ~(l = Root /\ Codex')
    BY <1>3, <1>11, <1>16 DEF OpIds, LiveId, TailId, Root
  <2> QED BY <2>1, <2>2, <2>3 DEF Anchored
<1> QED BY <1>3, <1>7, <1>8, <1>10, <1>11, <1>12, <1>13, <1>14, <1>15, <1>16

LEMMA CommittedKeeps ==
    ASSUME RunInv, TypeInv', task.at = "commit", engine.up, Accepted, Committed
    PROVE  RunInv'
<1>0. SUFFICES ASSUME NEW op, NEW i, NEW t, op = task.op, i = task.op.id, t = Target PROVE RunInv'
  OBVIOUS
<1>1. /\ TypeOK /\ TypeOK' /\ HistoriesHold /\ ReceiptsHold /\ MappingHolds /\ QueueHolds /\ LogHolds
      /\ OpenHolds /\ PluginAgrees /\ AppendHolds /\ ReplayHolds /\ CallHolds /\ DshHolds
      /\ task.at \in AppendSteps
  BY DEF RunInv, TypeInv, DataInv, TaskInv, PhasesHold, AppendSteps
<1>2. /\ i \in OpIds /\ op \in Ops /\ GoodOp(op) /\ mapping.base # 0 /\ task.call \in Appends /\ i[3] = op.hi
      /\ ctx.map = mapping
      /\ task.call = "append" => op = plugin.batch /\ plugin.batch # NoOp
      /\ wal[i].state \in {"pending", "applied", "committed"} => wal[i].op = op
  BY <1>0, <1>1, AppendingNow, NameTells
<1>3. /\ ~Receipted(i) /\ wal[i].state = "applied" /\ op.hi <= file.events /\ Open \subseteq {i}
      /\ Held <= op.lo
  BY <1>0, <1>1 DEF AppendHolds, NextInLine
<1>4. /\ t \in Logicals /\ canon[t].scope = "maintenance"
      /\ Codex => t \in OpIds /\ \A id \in OpIds : Exists(id) => id = t
      /\ ~Codex => t = Root
      /\ t \in OpIds /\ ~Exists(t) => t = i
  BY <1>0, AcceptedFits
<1>5. /\ Grows /\ Codex' = Codex
      /\ Held' = op.hi /\ Held < Held'
      /\ canon'[t].body = FirstEvents(op.hi)
      /\ canon'[t].version # 0
      /\ \A l \in Logicals : l # t => canon'[l] = canon[l]
      /\ receipts'[i] = [logical |-> t, version |-> canon'[t].version, rev |-> op.hi]
      /\ \A id \in OpIds : id # i => receipts'[id] = receipts[id]
      /\ receipts'[i].version # 0
      /\ \A l, base, n : l = t /\ base = canon'[t].version /\ n = op.hi => Anchored(l, base, n)'
  BY <1>0, CommittedTables
<1>6. /\ UNCHANGED <<row, dir, checkpoint, file, wal, mapping, engine, ctx, dsh, plugin>>
      /\ GoTo(IF ctx.codex THEN "switch" ELSE "upsert")
  BY DEF Committed, files, memory, outside
<1>7. PICK step \in {"switch", "upsert"} : GoTo(step)
  BY <1>0, <1>6
<1>8. /\ StepsHold' /\ PhasesHold'
      /\ task'.at = step /\ task'.call = task.call /\ task'.op = task.op /\ task'.todo = task.todo
      /\ task'.fixed = task.fixed
  BY <1>0, <1>1, <1>2, <1>6, <1>7, Inside DEF AppendSteps
<1>9. /\ op.lo \in Nat /\ op.hi \in Nat /\ op.lo < op.hi /\ op.hi <= dsh.emitted /\ Held \in Nat
      /\ dsh.emitted \in Nat /\ Len(FirstEvents(op.hi)) = op.hi
      /\ mapping.rev \in Nat /\ mapping.rev < op.hi
  <2>1. op.lo \in Nat /\ op.hi \in Nat /\ op.lo < op.hi /\ op.hi <= dsh.emitted
    BY <1>0, <1>2 DEF Ops, GoodOp
  <2>2. mapping.rev \in Nat /\ Held \in Nat /\ dsh.emitted \in Nat /\ mapping.rev <= Held
    BY <1>0, <1>1, Shapes DEF MappingHolds
  <2>3. Len(FirstEvents(op.hi)) = op.hi
    BY <1>0, <1>2, <2>1, EventsFollow
  <2> QED BY <1>0, <1>3, <2>1, <2>2, <2>3
<1>10. /\ \A l \in Logicals : Exists(l) => Exists(l)'
       /\ \A l \in Logicals : \A base, n : Anchored(l, base, n) => Anchored(l, base, n)'
       /\ \A o \in Ops : GoodOp(o) => GoodOp(o)'
  BY <1>0, <1>1, <1>5, <1>6, GrownPlaces, GrownOps
<1>11. /\ Receipted(i)' /\ Lags(i)'
       /\ \A id \in OpIds : id # i => Receipted(id)' = Receipted(id) /\ Lags(id)' = Lags(id)
  BY <1>0, <1>2, <1>5, <1>6, <1>9 DEF Receipted, Lags
<1>12. \A l \in Logicals : l # t => Exists(l)' = Exists(l)
  BY <1>0, <1>5 DEF Exists
<1>13. HistoriesHold'
  <2>1. \A l \in Logicals : /\ canon'[l].body = FirstEvents(Len(canon'[l].body))
                            /\ Len(canon'[l].body) <= dsh'.emitted
                            /\ Len(canon'[l].body) <= Held'
                            /\ ~Exists(l)' => canon'[l].body = <<>>
    <3> SUFFICES ASSUME NEW l \in Logicals
                 PROVE  /\ canon'[l].body = FirstEvents(Len(canon'[l].body))
                        /\ Len(canon'[l].body) <= dsh.emitted
                        /\ Len(canon'[l].body) <= op.hi
                        /\ ~Exists(l)' => canon'[l].body = <<>>
      BY <1>0, <1>5, <1>6
    <3>1. CASE l = t
      BY <1>0, <1>5, <1>9, <3>1 DEF Exists
    <3>2. CASE l # t
      <4>1. canon'[l] = canon[l] /\ Len(canon[l].body) \in Nat
        BY <1>0, <1>1, <1>5, <3>2, Shapes
      <4> QED BY <1>0, <1>1, <1>5, <1>9, <1>12, <3>2, <4>1 DEF HistoriesHold
    <3> QED BY <3>1, <3>2
  <2>2. Codex' => canon'[Root].body = <<>> /\ Exists(Root)'
    <3>1. Codex => t # Root
      BY <1>0, <1>4 DEF OpIds, LiveId, TailId, Root
    <3> QED BY <1>0, <1>1, <1>5, <1>12, <3>1, Names DEF HistoriesHold
  <2>3. \A id \in OpIds : canon'[id].scope = "maintenance"
    BY <1>0, <1>1, <1>5, Names DEF HistoriesHold, Grows
  <2>4. \A id \in OpIds : Exists(id)' => Codex /\ id = t
    BY <1>0, <1>1, <1>4, <1>12, Names DEF HistoriesHold, OpIds, LiveId, TailId, Root
  <2>5. \A id \in OpIds : Exists(id)' => Receipted(id)' /\ receipts'[id].logical = id
    <3> SUFFICES ASSUME NEW id \in OpIds, Exists(id)' PROVE Receipted(id)' /\ receipts'[id].logical = id
      OBVIOUS
    <3>1. id = t
      BY <2>4
    <3>2. CASE id = i
      BY <1>0, <1>2, <1>5, <1>11, <3>1, <3>2
    <3>3. CASE id # i
      <4>1. Exists(id)
        BY <1>0, <1>4, <3>1, <3>3
      <4> QED BY <1>0, <1>1, <1>5, <1>11, <3>3, <4>1 DEF HistoriesHold
    <3> QED BY <3>2, <3>3
  <2>6. Held' = 0 \/ \E id \in OpIds : Receipted(id)' /\ receipts'[id].rev = Held'
    BY <1>0, <1>2, <1>5, <1>11
  <2> QED BY <1>0, <1>5, <2>1, <2>2, <2>3, <2>4, <2>5, <2>6 DEF HistoriesHold
<1>14. \A l \in Logicals : Proper(l) => Proper(l)'
  BY <1>0, <1>5, <1>10 DEF Proper
<1>15. ReceiptsHold'
  <2> SUFFICES ASSUME NEW id \in OpIds, Receipted(id)'
               PROVE  /\ receipts'[id].rev = id[3] /\ receipts'[id].rev \in 1..Held'
                      /\ Proper(receipts[id].logical)'
                      /\ Anchored(receipts[id].logical, receipts[id].version, receipts[id].rev)'
    BY DEF ReceiptsHold
  <2>1. CASE id = i
    <3>1. Proper(receipts[id].logical)'
      BY <1>0, <1>4, <1>5, <1>10, <2>1 DEF Proper, Exists
    <3> QED BY <1>0, <1>2, <1>5, <1>9, <2>1, <3>1
  <2>2. CASE id # i
    <3>1. Receipted(id) /\ receipts'[id] = receipts[id] /\ receipts[id].logical \in Logicals
      BY <1>0, <1>1, <1>5, <1>11, <2>2, Shapes
    <3> QED BY <1>0, <1>1, <1>5, <1>9, <1>10, <1>14, <3>1 DEF ReceiptsHold
  <2> QED BY <2>1, <2>2
<1>16. MappingHolds'
  <2>1. mapping.logical \in Logicals /\ mapping.rev <= Held'
    BY SMTT(60), <1>0, <1>1, <1>5, <1>9, Shapes
  <2>2. mapping.last # Root => mapping.last \in OpIds /\ mapping.last # i
    BY <1>0, <1>1, <1>3, Shapes DEF MappingHolds
  <2> QED BY <1>0, <1>1, <1>2, <1>5, <1>6, <1>10, <1>11, <1>14, <2>1, <2>2 DEF MappingHolds
<1>17. QueueHolds'
  <2>1. plugin.acked <= Held' /\ plugin.batch \in Ops /\ plugin.logical \in Logicals
    <3>1. plugin.acked \in Nat /\ plugin.batch \in Ops /\ plugin.logical \in Logicals
      BY <1>0, <1>1, Shapes
    <3> QED BY <1>0, <1>1, <1>5, <1>9, <3>1 DEF QueueHolds
  <2> QED BY <1>0, <1>1, <1>6, <1>10, <2>1 DEF QueueHolds
<1>18. LogHolds'
  <2> SUFFICES ASSUME NEW id \in OpIds
               PROVE  /\ wal[id].state # "none" => id[3] <= dsh.emitted
                      /\ wal[id].state \in {"pending", "applied", "committed"}
                            => wal[id].op.id = id /\ GoodOp(wal[id].op)'
                      /\ wal[id].state = "committed" => Receipted(id)' /\ ~Lags(id)'
                      /\ wal[id].state \in {"applied", "committed"} => wal[id].op.hi <= file.events
                      /\ Receipted(id)' /\ Lags(id)' => wal[id].state = "applied"
    BY <1>0, <1>6 DEF LogHolds
  <2>1. wal[id].op \in Ops
    BY <1>0, <1>1, Shapes
  <2>2. wal[id].state \in {"pending", "applied", "committed"} => GoodOp(wal[id].op)'
    BY <1>0, <1>1, <1>6, <1>10, <2>1 DEF LogHolds
  <2>3. CASE id = i
    BY <1>0, <1>1, <1>3, <2>2, <2>3 DEF LogHolds
  <2>4. CASE id # i
    BY <1>0, <1>1, <1>11, <2>2, <2>4 DEF LogHolds
  <2> QED BY <2>3, <2>4
<1>19. Open' \subseteq Open
  <2> SUFFICES ASSUME NEW id \in Open' PROVE id \in Open
    OBVIOUS
  <2>1. CASE id = i
    BY <1>0, <1>2, <1>3, <2>1 DEF Open, Kept
  <2>2. CASE id # i
    BY <1>0, <1>6, <1>11, <2>2 DEF Open, Kept
  <2> QED BY <2>1, <2>2
<1>20. OpenHolds'
  <2>1. \A id \in Open' : Receipted(id)'
    BY <1>0, <1>3, <1>11, <1>19
  <2>2. Held' <= file'.events
    BY <1>0, <1>3, <1>5, <1>6
  <2>3. \A id \in Open' : \/ id = plugin.batch.id
                          \/ id[1] = "tail" /\ dsh.state = "exited" /\ task.call # "append"
    BY <1>0, <1>1, <1>19 DEF OpenHolds
  <2> QED BY <1>0, <1>1, <1>6, <1>8, <1>19, <2>1, <2>2, <2>3 DEF OpenHolds
<1>21. PluginAgrees'
  <2>1. CASE task.call = "append"
    <3>1. Taken' /\ plugin'.batch.hi = op.hi /\ plugin'.batch.id = i
      BY <1>0, <1>2, <1>6, <1>11, <2>1 DEF Taken
    <3> QED BY <1>0, <1>5, <1>6, <1>9, <3>1 DEF PluginAgrees
  <2>2. CASE task.call # "append"
    <3>1. dsh.state = "exited"
      BY <1>0, <1>1, <1>2, <2>2 DEF DshHolds, Appends, Closing
    <3> QED BY <1>0, <1>6, <1>8, <2>2, <3>1 DEF PluginAgrees, Alive
  <2> QED BY <2>1, <2>2
<1>22. CallHolds'
  <2>1. GoodOp(op)'
    BY <1>0, <1>2, <1>10
  <2>2. GoodOp(task.op)'
    BY <1>0, <1>2, <1>8, <1>10
  <2> QED BY <1>0, <1>1, <1>2, <1>6, <1>8, <2>2 DEF CallHolds, AppendSteps
<1>23. AppendHolds'
  <2>1. Receipted(task.op.id)' /\ Lags(task.op.id)'
    BY <1>0, <1>8, <1>11 DEF Receipted, Lags
  <2> QED BY <1>0, <1>8, <2>1 DEF AppendHolds
<1>24. ReplayHolds'
  <2>1. \A id \in task.todo : wal'[id].state \in {"pending", "applied", "committed"}
    BY <1>0, <1>1, <1>6 DEF ReplayHolds
  <2>2. mapping'.rev >= mapping.rev /\ dir' = dir
    BY <1>0, <1>6, <1>9
  <2> QED BY <1>0, <1>1, <1>7, <1>8, <1>19, <2>1, <2>2, InsideReplays DEF AppendSteps
<1> QED BY <1>0, <1>8, <1>13, <1>15, <1>16, <1>17, <1>18, <1>20, <1>21, <1>22, <1>23, <1>24
        DEF RunInv, TaskInv, DataInv

LEMMA AppendDshKeeps == ASSUME RunInv, TypeInv', AppendDsh PROVE RunInv'
<1>1. task.at = "commit" /\ engine.up
  BY DEF AppendDsh, At
<1>2. Fails(FALSE) \/ (Accepted /\ Committed)
  BY DEF AppendDsh, Accepted, Committed, Target
<1> QED BY <1>1, <1>2, CommittedKeeps, FailsKeeps

\* The mapping catches up with the only operation that is open.
LEMMA UpsertKeeps == ASSUME RunInv, TypeInv', UpsertProjectionSession PROVE RunInv'
<1>0. SUFFICES ASSUME NEW i, i = task.op.id PROVE RunInv'
  OBVIOUS
<1>1. /\ TypeOK /\ TypeOK' /\ HistoriesHold /\ ReceiptsHold /\ MappingHolds /\ QueueHolds /\ LogHolds
      /\ OpenHolds /\ PluginAgrees /\ AppendHolds /\ ReplayHolds /\ CallHolds /\ DshHolds
      /\ task.at = "upsert" /\ task.at \in AppendSteps /\ engine.up
  BY DEF RunInv, TypeInv, DataInv, TaskInv, PhasesHold, AppendSteps, UpsertProjectionSession, At
<1>2. CASE Fails(FALSE)
  BY <1>2, FailsKeeps
<1>3. CASE /\ mapping' = [logical |-> receipts[i].logical, base |-> receipts[i].version,
                          rev |-> receipts[i].rev, last |-> i]
           /\ ctx' = [ctx EXCEPT !.map = mapping', !.codex = FALSE]
           /\ GoTo("settle")
           /\ UNCHANGED <<files, row, receipts, canon, engine, outside>>
  <2>1. /\ i \in OpIds /\ task.op \in Ops /\ GoodOp(task.op) /\ mapping.base # 0 /\ task.call \in Appends
        /\ task.call = "append" => task.op = plugin.batch /\ plugin.batch # NoOp
        /\ wal[i].state \in {"pending", "applied", "committed"} => wal[i].op = task.op
    BY <1>0, <1>1, AppendingNow
  <2>2. Receipted(i) /\ Lags(i)
    BY <1>0, <1>1 DEF AppendHolds
  <2>3. /\ UNCHANGED <<dir, checkpoint, file, wal, row, receipts, canon, engine, dsh, plugin>>
    BY <1>3 DEF files, outside
  <2>4. ctx'.where = ctx.where /\ ctx'.bridge = ctx.bridge /\ ctx'.map = mapping'
    BY <1>1, <1>3 DEF TypeOK, Contexts
  <2>5. /\ StepsHold' /\ PhasesHold'
        /\ task'.at = "settle" /\ task'.call = task.call /\ task'.op = task.op /\ task'.todo = task.todo
        /\ task'.fixed = task.fixed
    BY <1>1, <1>3, <2>3, <2>4, Inside DEF AppendSteps
  <2>6. \A id \in OpIds : receipts[id].rev \in Nat /\ receipts[id].version \in Nat
    BY SMTT(60), <1>1, Shapes
  <2>7. i \in Open
    BY <1>1, <2>1, <2>2 DEF LogHolds, Open, Kept
  <2>8. \A id \in OpIds : Receipted(id) => receipts[id].rev <= receipts[i].rev
    <3> SUFFICES ASSUME NEW id \in OpIds, Receipted(id), receipts[id].rev > receipts[i].rev PROVE FALSE
      BY <2>1, <2>6
    <3>1. Lags(id)
      <4>1. mapping.rev \in Nat
        BY <1>1, Shapes
      <4> QED BY <2>1, <2>2, <2>6, <4>1 DEF Lags
    <3>2. id \in Open
      BY <1>1, <3>1 DEF LogHolds, Open, Kept
    <3> QED BY <1>1, <2>1, <2>6, <2>7, <3>2 DEF OpenHolds
  <2>9. /\ \A id \in OpIds : Receipted(id) => ~Lags(id)'
        /\ \A id : Receipted(id)' = Receipted(id)
    BY <1>3, <2>1, <2>3, <2>6, <2>8 DEF Lags, Receipted
  <2>10. Open' = {}
    <3> SUFFICES ASSUME NEW id \in Open' PROVE FALSE
      OBVIOUS
    <3>1. id \in Kept /\ ~Receipted(id)
      BY <2>3, <2>9 DEF Open, Kept
    <3>2. id \in Open
      BY <3>1 DEF Open
    <3> QED BY <1>1, <2>2, <2>7, <3>1, <3>2 DEF OpenHolds
  <2>11. Held' = Held /\ Codex' = Codex
    BY <2>3, HeldSame
  <2>12. HistoriesHold'
    BY <1>1, <2>3, <2>9, <2>11 DEF HistoriesHold, Exists
  <2>13. \A l : Proper(l)' = Proper(l)
    BY <2>3, <2>11 DEF Proper, Exists
  <2>14. \A l, base, n : Anchored(l, base, n)' <=> Anchored(l, base, n)
    BY <2>3, AnchoredSame
  <2>15. ReceiptsHold'
    BY <1>1, <2>3, <2>9, <2>11, <2>13, <2>14 DEF ReceiptsHold
  <2>16. MappingHolds'
    <3>1. /\ receipts[i].rev \in 1..Held /\ Proper(receipts[i].logical)
          /\ Anchored(receipts[i].logical, receipts[i].version, receipts[i].rev)
      BY <1>1, <2>1, <2>2 DEF ReceiptsHold
    <3>2. mapping'.base # 0 /\ mapping'.rev <= Held'
      BY <1>1, <1>3, <2>2, <2>11, <3>1, Shapes DEF Receipted
    <3>3. Anchored(mapping.logical, mapping.base, mapping.rev)'
      BY <1>3, <2>14, <3>1
    <3>4. Proper(mapping.logical)'
      BY <1>3, <2>13, <3>1
    <3>5. /\ Receipted(mapping.last)'
          /\ receipts'[mapping'.last] =
                [logical |-> mapping'.logical, version |-> mapping'.base, rev |-> mapping'.rev]
      <4>1. receipts[i] \in Receipts
        BY <1>1, <2>1 DEF TypeOK
      <4>2. receipts[i] = [logical |-> receipts[i].logical, version |-> receipts[i].version,
                           rev |-> receipts[i].rev]
        BY <4>1 DEF Receipts
      <4> QED BY <1>3, <2>2, <2>3, <4>2 DEF Receipted
    <3> QED BY <3>2, <3>3, <3>4, <3>5 DEF MappingHolds
  <2>17. \A op \in Ops : GoodOp(op) => GoodOp(op)'
    BY <2>3, <2>14 DEF GoodOp
  <2>18. QueueHolds'
    BY <1>1, <2>3, <2>11, <2>14, <2>17, Shapes DEF QueueHolds
  <2>19. LogHolds'
    BY <1>1, <2>3, <2>9, <2>17, Shapes DEF LogHolds
  <2>20. OpenHolds'
    BY <1>1, <2>3, <2>10, <2>11 DEF OpenHolds
  <2>21. PluginAgrees'
    <3>1. CASE task.call = "append"
      <4>1. Taken /\ plugin.batch.id = i
        BY <1>0, <2>1, <2>2, <3>1 DEF Taken
      <4>2. Held <= plugin.batch.hi
        BY <1>1, <3>1, <4>1 DEF PluginAgrees
      <4> QED BY <1>3, <2>3, <2>9, <2>11, <4>1, <4>2 DEF PluginAgrees, Taken
    <3>2. CASE task.call # "append"
      <4>1. dsh.state = "exited"
        BY <1>1, <2>1, <3>2 DEF DshHolds, Appends, Closing
      <4> QED BY <2>3, <2>5, <3>2, <4>1 DEF PluginAgrees, Alive
    <3> QED BY <3>1, <3>2
  <2>22. CallHolds'
    <3>1. GoodOp(task.op)' /\ mapping'.base # 0
      BY <1>3, <2>1, <2>2, <2>5, <2>17 DEF Receipted
    <3> QED BY <1>0, <1>1, <2>1, <2>3, <2>5, <3>1 DEF CallHolds, AppendSteps
  <2>23. AppendHolds'
    <3>1. Done(task.op.id)'
      BY <1>0, <2>1, <2>2, <2>5, <2>9 DEF Done
    <3> QED BY <2>5, <3>1 DEF AppendHolds
  <2>24. ReplayHolds'
    <3>1. \A id \in task.todo : wal'[id].state \in {"pending", "applied", "committed"}
      BY <1>1, <2>3 DEF ReplayHolds
    <3>2. mapping'.rev >= mapping.rev /\ dir' = dir
      <4>1. mapping.rev \in Nat
        BY <1>1, Shapes
      <4> QED BY <1>3, <2>1, <2>2, <2>3, <2>6, <4>1 DEF Lags
    <3> QED BY <1>1, <2>5, <2>10, <3>1, <3>2, InsideReplays DEF AppendSteps
  <2> QED BY <2>5, <2>12, <2>15, <2>16, <2>18, <2>19, <2>20, <2>21, <2>22, <2>23, <2>24
          DEF RunInv, TaskInv, DataInv
<1> QED BY <1>0, <1>2, <1>3 DEF UpsertProjectionSession

(***************************************************************************)
(* The calls begin                                                         *)
(***************************************************************************)
\* Only the task, the context, the row and the directory have moved.
LEMMA QuietData ==
    ASSUME RunInv, TypeInv', UNCHANGED <<wal, mapping, receipts, canon, plugin, dsh>>,
           file'.events = file.events, task'.call = "append" => task.call = "append" \/ Alive
    PROVE  /\ DataInv' /\ Held' = Held /\ Open' = Open
           /\ \A id : Receipted(id)' = Receipted(id) /\ Lags(id)' = Lags(id) /\ Done(id)' = Done(id)
           /\ \A op \in Ops : GoodOp(op) => GoodOp(op)'
<1>1. TypeOK /\ TypeOK' /\ DataInv
  BY DEF RunInv, TypeInv
<1>2. file'.events >= file.events /\ dsh'.emitted >= dsh.emitted
  BY <1>1, Shapes
<1>3. Still
  BY <1>2 DEF Still, Alive
<1> QED BY <1>1, <1>2, <1>3, DataStill, HeldSame, OpenSame, GoodOpSame

LEMMA SendRegisterKeeps == ASSUME RunInv, TypeInv', SendRegister PROVE RunInv'
<1>1. /\ TypeOK /\ DataInv /\ StepsHold /\ EngineHolds /\ DirHolds /\ DshHolds /\ engine.up
  BY DEF RunInv, TypeInv, TaskInv, PhasesHold, SendRegister, Idle
<1>2. /\ task = NoTask /\ Alive /\ plugin.base = 0 /\ plugin.acked < dsh.emitted /\ engine.known = "attached"
      /\ UNCHANGED <<row, dir, checkpoint, file, wal, mapping, receipts, canon, engine, ctx, dsh, plugin>>
  BY DEF SendRegister, Idle, files, tables, memory, outside
<1>3. ctx.map = mapping /\ dir = "whole"
  BY <1>1, <1>2 DEF EngineHolds, DshHolds, Alive
<1>4. PICK step \in {"done", "write"} : /\ task' = [NoTask EXCEPT !.call = "register", !.at = step]
                                        /\ step = "done" <=> mapping.base # 0
  BY <1>3 DEF SendRegister, Begin, Known
<1>5. task'.call = "register" /\ task'.at = step /\ task'.todo = {} /\ task'.fixed = 0
  BY <1>4 DEF NoTask
<1>6. DataInv' /\ Held' = Held
  BY <1>2, <1>5, QuietData
<1>7. StepsHold'
  BY <1>5 DEF StepsHold
<1>8. PhasesHold'
  <2>1. EngineHolds'
    BY <1>1, <1>2, <1>5 DEF EngineHolds
  <2>2. DirHolds'
    BY <1>1, <1>2, <1>3, <1>5 DEF DirHolds, AppendSteps
  <2>3. DshHolds'
    BY <1>1, <1>2, <1>3, <1>5 DEF DshHolds, Closing, Alive, NoTask
  <2> QED BY <2>1, <2>2, <2>3 DEF PhasesHold
<1>9. CallHolds' /\ AppendHolds' /\ ReplayHolds'
  <2>1. mapping'.rev \in Nat /\ dir' = "whole"
    BY <1>1, <1>2, <1>3, Shapes
  <2>2. CallHolds'
    BY <1>2, <1>4, <1>5 DEF CallHolds, AppendSteps
  <2>3. AppendHolds'
    BY <1>5 DEF AppendHolds
  <2>4. ReplayHolds'
    BY <1>5, <1>6, <2>1 DEF ReplayHolds
  <2> QED BY <2>2, <2>3, <2>4
<1> QED BY <1>6, <1>7, <1>8, <1>9 DEF RunInv, TaskInv

\* The batch the plugin sends: its last one, or one that starts where the queue does.
LEMMA SentBatch ==
    ASSUME RunInv, SendAppend, NEW b, b = NextBatch
    PROVE  /\ GoodOp(b) /\ b.id \in OpIds /\ b # NoOp
           /\ b = [id |-> LiveId(b.hi), lo |-> plugin.acked, hi |-> b.hi,
                   logical |-> plugin.logical, base |-> plugin.base]
           /\ wal[b.id].state \in {"pending", "applied", "committed"} => wal[b.id].op = b
           /\ Open \subseteq {b.id}
           /\ Receipted(b.id) => Taken
           /\ plugin.batch = NoOp \/ plugin.batch = b
<1>1. /\ TypeOK /\ QueueHolds /\ LogHolds /\ OpenHolds /\ PluginAgrees /\ ReceiptsHold
      /\ Alive /\ plugin.base # 0 /\ plugin.acked < dsh.emitted
  BY DEF RunInv, TypeInv, DataInv, SendAppend
<1>2. CASE plugin.batch # NoOp
  <2>1. b = plugin.batch
    BY <1>2 DEF NextBatch
  <2>2. b.id \in OpIds
    BY <1>2, <2>1 DEF RunInv, TypeInv, OpsNamed
  <2> QED BY <1>1, <1>2, <2>1, <2>2 DEF QueueHolds, OpenHolds, Taken, Alive
<1>3. CASE plugin.batch = NoOp
  <2>1. b = [id |-> LiveId(dsh.emitted), lo |-> plugin.acked, hi |-> dsh.emitted,
             logical |-> plugin.logical, base |-> plugin.base]
    BY <1>3 DEF NextBatch
  <2>2. /\ dsh.emitted \in 1..MaxEvents /\ Held \in Nat /\ plugin.acked \in Nat
        /\ Held < dsh.emitted
    BY <1>1, <1>3, Shapes DEF PluginAgrees, Taken
  <2>3. b.id \in OpIds /\ b.id[3] = dsh.emitted /\ b.id[1] = "live" /\ b.id # Root
    BY <2>1, <2>2 DEF OpIds, LiveId, Root
  <2>4. GoodOp(b)
    BY <1>1, <2>1, <2>2 DEF GoodOp, QueueHolds
  <2>5. ~Receipted(b.id)
    BY <1>1, <2>2, <2>3 DEF ReceiptsHold
  <2>6. Open = {}
    BY <1>1, <1>3 DEF OpenHolds, NoOp, Open, Kept, OpIds, LiveId, TailId, Root, Alive
  <2>7. wal[b.id].state \notin {"pending", "applied", "committed"}
    BY <1>1, <2>3, <2>5, <2>6 DEF Open, Kept, LogHolds
  <2>8. b # NoOp
    BY <2>1, <2>3 DEF NoOp
  <2> QED BY <1>3, <2>1, <2>3, <2>4, <2>5, <2>6, <2>7, <2>8
<1> QED BY <1>2, <1>3

LEMMA SendAppendKeeps == ASSUME RunInv, TypeInv', SendAppend PROVE RunInv'
<1>0. SUFFICES ASSUME NEW b, b = NextBatch PROVE RunInv'
  OBVIOUS
<1>1. /\ TypeOK /\ TypeOK' /\ StepsHold /\ EngineHolds /\ DirHolds /\ DshHolds /\ engine.up
      /\ HistoriesHold /\ ReceiptsHold /\ MappingHolds /\ QueueHolds /\ LogHolds /\ OpenHolds /\ PluginAgrees
  BY DEF RunInv, TypeInv, TaskInv, PhasesHold, SendAppend, Idle, DataInv
<1>2. /\ task = NoTask /\ Alive /\ plugin.base # 0 /\ plugin.acked < dsh.emitted /\ engine.known = "attached"
      /\ UNCHANGED <<row, dir, checkpoint, file, wal, mapping, receipts, canon, engine, ctx, dsh>>
      /\ plugin' = [plugin EXCEPT !.batch = b]
      /\ task' = [NoTask EXCEPT !.call = "append", !.at = "look", !.op = b]
  BY <1>0 DEF SendAppend, Idle, files, tables, memory
<1>3. /\ GoodOp(b) /\ b.id \in OpIds /\ b # NoOp
      /\ b = [id |-> LiveId(b.hi), lo |-> plugin.acked, hi |-> b.hi,
              logical |-> plugin.logical, base |-> plugin.base]
      /\ wal[b.id].state \in {"pending", "applied", "committed"} => wal[b.id].op = b
      /\ Open \subseteq {b.id}
      /\ Receipted(b.id) => Taken
      /\ plugin.batch = NoOp \/ plugin.batch = b
  BY <1>0, SentBatch
<1>4. /\ plugin'.batch = b /\ plugin'.acked = plugin.acked /\ plugin'.base = plugin.base
      /\ plugin'.logical = plugin.logical
  BY <1>1, <1>2 DEF TypeOK, Queues
<1>5. /\ task'.call = "append" /\ task'.at = "look" /\ task'.op = b /\ task'.todo = {} /\ task'.fixed = 0
  BY <1>2 DEF NoTask
<1>6. Held' = Held /\ Codex' = Codex /\ Held \in Nat
  BY <1>1, <1>2, HeldSame, Shapes
<1>7. /\ Open' = Open
      /\ \A id : Receipted(id)' = Receipted(id) /\ Lags(id)' = Lags(id) /\ Done(id)' = Done(id)
  BY <1>2, OpenSame
<1>8. \A l, base, n : Anchored(l, base, n)' <=> Anchored(l, base, n)
  BY <1>2, AnchoredSame
<1>9. \A op : GoodOp(op)' <=> GoodOp(op)
  BY <1>2, <1>8 DEF GoodOp
<1>10. \A l : Proper(l)' = Proper(l)
  BY <1>2, <1>6 DEF Proper, Exists
<1>11. HistoriesHold' /\ ReceiptsHold'
  BY <1>1, <1>2, <1>6, <1>7, <1>8, <1>10 DEF HistoriesHold, ReceiptsHold, Exists
<1>12. MappingHolds'
  BY <1>1, <1>2, <1>4, <1>6, <1>7, <1>8, <1>10 DEF MappingHolds
<1>13. QueueHolds'
  <2>1. GoodOp(b)'
    BY <1>3, <1>9
  <2> QED BY <1>1, <1>2, <1>3, <1>4, <1>6, <1>8, <2>1 DEF QueueHolds
<1>14. LogHolds'
  BY <1>1, <1>2, <1>7, <1>9 DEF LogHolds
<1>15. OpenHolds'
  BY <1>1, <1>2, <1>3, <1>4, <1>6, <1>7 DEF OpenHolds
<1>16. Taken' = Taken
  BY <1>3, <1>4, <1>7 DEF Taken
<1>17. PluginAgrees'
  <2>1. Taken => plugin.batch = b
    BY <1>3 DEF Taken
  <2> QED BY <1>1, <1>2, <1>4, <1>6, <1>16, <2>1 DEF PluginAgrees
<1>18. StepsHold'
  BY <1>5 DEF StepsHold, AppendSteps
<1>19. PhasesHold'
  <2>1. dir = "whole"
    BY <1>1, <1>2 DEF DshHolds, Alive
  <2>2. EngineHolds'
    BY <1>1, <1>2, <1>5 DEF EngineHolds
  <2>3. DirHolds'
    BY <1>1, <1>2, <1>5, <2>1 DEF DirHolds, AppendSteps
  <2>4. DshHolds'
    BY <1>1, <1>2, <1>4, <1>5, <2>1 DEF DshHolds, Closing, Alive, NoTask
  <2> QED BY <2>2, <2>3, <2>4 DEF PhasesHold
<1>20. CallHolds'
  <2>1. mapping.base # 0
    BY <1>1, <1>2 DEF MappingHolds
  <2>2. GoodOp(task.op)'
    BY <1>3, <1>5, <1>9
  <2> QED BY <1>2, <1>3, <1>4, <1>5, <2>1, <2>2 DEF CallHolds, AppendSteps
<1>21. AppendHolds'
  <2> SUFFICES ASSUME wal[b.id].state = "none"
               PROVE  Done(b.id) \/ (NextInLine' /\ Open = {})
    BY <1>2, <1>5, <1>7 DEF AppendHolds, NewRecord
  <2>1. CASE Receipted(b.id)
    BY <1>1, <1>3, <2>1 DEF LogHolds, Done
  <2>2. CASE ~Receipted(b.id)
    <3>1. ~Taken
      BY <1>3, <2>2 DEF Taken
    <3>2. b.logical = plugin.logical /\ b.base = plugin.base /\ b.lo = plugin.acked
      BY <1>3
    <3>3. Held <= plugin.acked /\ mapping.logical = plugin.logical /\ mapping.base = plugin.base
      BY <1>1, <1>2, <3>1 DEF PluginAgrees
    <3>4. NextInLine'
      BY <1>2, <1>5, <1>6, <1>7, <2>2, <3>2, <3>3 DEF NextInLine
    <3>5. Open = {}
      BY <1>3 DEF Open, Kept
    <3> QED BY <3>4, <3>5
  <2> QED BY <2>1, <2>2
<1>22. ReplayHolds'
  <2>1. mapping'.rev \in Nat /\ dir' = "whole"
    BY <1>1, <1>2, Shapes DEF DshHolds, Alive
  <2> QED BY <1>5, <2>1 DEF ReplayHolds, AppendSteps
<1> QED BY <1>11, <1>12, <1>13, <1>14, <1>15, <1>17, <1>18, <1>19, <1>20, <1>21, <1>22
        DEF RunInv, TaskInv, DataInv

(***************************************************************************)
(* Close and recovery, step by step                                        *)
(***************************************************************************)
\* A task that goes on while the tables and the log stay.
LEMMA TaskGoesOn ==
    ASSUME RunInv, TypeInv', UNCHANGED <<wal, mapping, receipts, canon, plugin, dsh>>,
           file'.events = file.events, StepsHold', PhasesHold', CallHolds', AppendHolds',
           task'.call # "append",
           \A id \in task'.todo : wal[id].state \in {"pending", "applied", "committed"},
           task'.at \notin {"replay", "done"} \cup AppendSteps => task'.todo = {},
           dir' # "whole" => Open = {},
           task'.call \in {"close", "recover"} =>
               /\ task'.at \in {"replay", "done"} => Open \subseteq task'.todo
               /\ task'.at \in AppendSteps => Open \subseteq task'.todo \cup {task'.op.id}
               /\ task'.at \in {"tail", "checkpoint", "remove"} => Open = {},
           task'.fixed <= mapping.rev,
           task'.at \in {"checkpoint", "remove"} => dsh.log <= Held
    PROVE  RunInv'
<1>1. DataInv' /\ Held' = Held /\ Open' = Open
  BY QuietData
<1>2. ReplayHolds'
  BY <1>1 DEF ReplayHolds
<1> QED BY <1>1, <1>2 DEF RunInv, TaskInv

LEMMA AskKeeps == ASSUME RunInv, TypeInv', AskClose \/ AskRecover PROVE RunInv'
<1>1. /\ TypeOK /\ StepsHold /\ EngineHolds /\ DirHolds /\ DshHolds /\ ReplayHolds
  BY DEF RunInv, TypeInv, TaskInv, PhasesHold
<1>2. /\ engine.up /\ task = NoTask /\ dsh.state = "exited"
      /\ UNCHANGED <<row, dir, checkpoint, file, wal, mapping, receipts, canon, engine, ctx, dsh, plugin>>
  BY DEF AskClose, AskRecover, Idle, files, tables, memory, outside
<1>3. PICK call \in Closing :
          /\ task' = [NoTask EXCEPT !.call = call, !.at = "begin"]
          /\ call = "close" => engine.known = "attached" /\ engine.drained
          /\ call = "recover" => \/ engine.known = "attached"
                                 \/ engine.known = "none" /\ dir = "whole"
          /\ call = "discard" => \/ engine.known = "prepared"
                                 \/ engine.known = "none" /\ row = "preparing"
  BY DEF AskClose, AskRecover, Begin, Closing
<1>4. /\ task'.call = call /\ task'.at = "begin" /\ task'.todo = {} /\ task'.fixed = 0
  BY <1>3 DEF NoTask
<1>5. StepsHold'
  BY <1>4 DEF StepsHold, Closing
<1>6. EngineHolds'
  BY <1>1, <1>2, <1>3, <1>4 DEF EngineHolds, Closing
<1>7. DirHolds'
  BY <1>1, <1>2, <1>3, <1>4 DEF DirHolds, Closing, AppendSteps
<1>8. DshHolds'
  BY <1>1, <1>2, <1>3, <1>4 DEF DshHolds, Closing, Alive
<1>9. CallHolds' /\ AppendHolds'
  BY <1>4 DEF CallHolds, AppendHolds, AppendSteps, Closing
<1>10. task'.fixed <= mapping.rev
  BY <1>1, <1>4, Shapes
<1> QED BY <1>1, <1>2, <1>4, <1>5, <1>6, <1>7, <1>8, <1>9, <1>10, TaskGoesOn
        DEF ReplayHolds, PhasesHold, AppendSteps, Closing

LEMMA BeginCloseKeeps == ASSUME RunInv, TypeInv', BeginClose PROVE RunInv'
<1>1. /\ TypeOK /\ StepsHold /\ EngineHolds /\ DirHolds /\ DshHolds /\ ReplayHolds
      /\ task.at = "begin" /\ task.call = "close" /\ engine.up
  BY DEF RunInv, TypeInv, TaskInv, PhasesHold, BeginClose, At
<1>2. CASE Fails(FALSE)
  BY <1>2, FailsKeeps
<1>3. CASE /\ ctx.bridge /\ row' = "draining" /\ ctx' = [ctx EXCEPT !.accepting = FALSE] /\ GoTo("list")
           /\ UNCHANGED <<files, mapping, receipts, canon, engine, outside>>
  <2>1. UNCHANGED <<dir, checkpoint, file, wal, mapping, receipts, canon, engine, dsh, plugin>>
    BY <1>3 DEF files, outside
  <2>2. /\ task'.call = "close" /\ task'.at = "list" /\ task'.todo = {} /\ task'.fixed = task.fixed
        /\ ctx'.where = ctx.where /\ ctx'.map = ctx.map /\ ctx'.bridge = ctx.bridge
    BY <1>1, <1>3 DEF GoTo, TypeOK, Tasks, Contexts, ReplayHolds, AppendSteps
  <2>3. StepsHold'
    BY <2>2 DEF StepsHold
  <2>4. EngineHolds' /\ DirHolds'
    BY <1>1, <1>3, <2>1, <2>2 DEF EngineHolds, DirHolds
  <2>5. DshHolds'
    BY <1>1, <1>3, <2>1, <2>2 DEF DshHolds, Closing, Alive
  <2>6. CallHolds' /\ AppendHolds'
    BY <2>2 DEF CallHolds, AppendHolds, AppendSteps
  <2> QED BY <1>1, <2>1, <2>2, <2>3, <2>4, <2>5, <2>6, TaskGoesOn DEF ReplayHolds, PhasesHold, AppendSteps
<1> QED BY <1>2, <1>3 DEF BeginClose

LEMMA BeginRecoverKeeps == ASSUME RunInv, TypeInv', BeginRecover PROVE RunInv'
<1>1. /\ TypeOK /\ StepsHold /\ EngineHolds /\ DirHolds /\ DshHolds /\ ReplayHolds /\ LogHolds
      /\ task.at = "begin" /\ task.call \in {"recover", "discard"} /\ engine.up
  BY DEF RunInv, TypeInv, TaskInv, DataInv, PhasesHold, BeginRecover, At
<1>2. /\ row' = "recovering" /\ ctx' = [ctx EXCEPT !.accepting = FALSE]
      /\ UNCHANGED <<dir, checkpoint, file, wal, mapping, receipts, canon, engine, dsh, plugin>>
  BY DEF BeginRecover, files, outside
<1>3. PICK step \in {"checkpoint", "supersede", "restore"} :
          /\ GoTo(step)
          /\ step = "checkpoint" <=> task.call = "discard"
          /\ step = "supersede" => ctx.where = "active"
          /\ step = "restore" => ctx.where # "active"
  <2>1. CASE task.call = "discard"
    <3>1. GoTo("checkpoint")
      BY <2>1 DEF BeginRecover
    <3> QED BY <2>1, <3>1
  <2>2. CASE task.call = "recover" /\ ctx.where = "active"
    <3>1. GoTo("supersede")
      BY <2>2 DEF BeginRecover
    <3> QED BY <2>2, <3>1
  <2>3. CASE task.call = "recover" /\ ctx.where # "active"
    <3>1. GoTo("restore")
      BY <2>3 DEF BeginRecover
    <3> QED BY <2>3, <3>1
  <2> QED BY <1>1, <2>1, <2>2, <2>3
<1>4. /\ task'.call = task.call /\ task'.at = step /\ task'.todo = {} /\ task'.fixed = task.fixed
      /\ ctx'.where = ctx.where /\ ctx'.map = ctx.map /\ ctx'.bridge = ctx.bridge
  BY <1>1, <1>2, <1>3 DEF GoTo, TypeOK, Tasks, Contexts, ReplayHolds, AppendSteps
<1>5. StepsHold'
  BY <1>1, <1>3, <1>4 DEF StepsHold, Ending
<1>6. EngineHolds'
  BY <1>1, <1>2, <1>3, <1>4 DEF EngineHolds
<1>7. DirHolds'
  <2>1. step = "restore" => dir = "whole"
    BY <1>1, <1>3, <1>4, <1>6 DEF EngineHolds, DirHolds, TypeOK, Engines
  <2> QED BY <1>1, <1>2, <1>3, <1>4, <2>1 DEF DirHolds, AppendSteps
<1>8. DshHolds'
  BY <1>1, <1>2, <1>4 DEF DshHolds, Closing, Alive
<1>9. CallHolds' /\ AppendHolds'
  BY <1>1, <1>4 DEF CallHolds, AppendHolds, AppendSteps
<1>10. step = "checkpoint" => dsh.log <= Held
  BY <1>1, <1>3, Shapes DEF DshHolds
<1> QED BY <1>1, <1>2, <1>3, <1>4, <1>5, <1>6, <1>7, <1>8, <1>9, <1>10, TaskGoesOn
        DEF ReplayHolds, PhasesHold, AppendSteps

LEMMA ListPendingKeeps == ASSUME RunInv, TypeInv', ListPending PROVE RunInv'
<1>1. /\ TypeOK /\ StepsHold /\ EngineHolds /\ DirHolds /\ DshHolds /\ ReplayHolds
      /\ task.at = "list" /\ task.call = "close" /\ engine.up /\ dir = "whole"
  BY DEF RunInv, TypeInv, TaskInv, PhasesHold, ListPending, At, StepsHold, DirHolds, AppendSteps,
         TypeOK, Tasks, Ending
<1>2. /\ task' = [task EXCEPT !.at = "replay", !.todo = Pending]
      /\ UNCHANGED <<row, dir, checkpoint, file, wal, mapping, receipts, canon, engine, ctx, dsh, plugin>>
  BY DEF ListPending, files, tables, memory, outside
<1>3. /\ task'.call = "close" /\ task'.at = "replay" /\ task'.todo = Kept /\ task'.fixed = task.fixed
  BY <1>1, <1>2 DEF TypeOK, Tasks, Pending, Kept
<1>4. StepsHold'
  BY <1>3 DEF StepsHold
<1>5. EngineHolds' /\ DirHolds' /\ DshHolds'
  BY <1>1, <1>2, <1>3 DEF EngineHolds, DirHolds, DshHolds, Closing, Alive
<1>6. CallHolds' /\ AppendHolds'
  BY <1>3 DEF CallHolds, AppendHolds, AppendSteps
<1>7. Open \subseteq Kept /\ \A id \in Kept : wal[id].state \in {"pending", "applied", "committed"}
  BY DEF Open, Kept
<1> QED BY <1>1, <1>2, <1>3, <1>4, <1>5, <1>6, <1>7, TaskGoesOn DEF ReplayHolds, PhasesHold, AppendSteps

LEMMA ListTornKeeps == ASSUME RunInv, TypeInv', ListTorn PROVE RunInv'
BY FailsKeeps DEF ListTorn

LEMMA AdoptKeeps == ASSUME RunInv, TypeInv', AdoptRegistration PROVE RunInv'
<1>1. /\ TypeOK /\ StepsHold /\ EngineHolds /\ DirHolds /\ DshHolds /\ ReplayHolds /\ CallHolds
      /\ task.at = "adopt" /\ engine.up
  BY DEF RunInv, TypeInv, TaskInv, PhasesHold, AdoptRegistration, At
<1>2. task.call = "recover"
  BY <1>1 DEF StepsHold, TypeOK, Tasks, AppendSteps, Ending
<1>3. CASE Fails(TRUE)
  BY <1>3, FailsKeeps
<1>4. CASE GoTo("import") /\ UNCHANGED <<files, tables, memory, outside>>
  <2>1. UNCHANGED <<row, dir, checkpoint, file, wal, mapping, receipts, canon, engine, ctx, dsh, plugin>>
    BY <1>4 DEF files, tables, memory, outside
  <2>2. /\ task'.call = "recover" /\ task'.at = "import" /\ task'.todo = {} /\ task'.fixed = task.fixed
    BY <1>1, <1>2, <1>4 DEF GoTo, TypeOK, Tasks, ReplayHolds, AppendSteps
  <2>3. StepsHold'
    BY <2>2 DEF StepsHold
  <2>4. EngineHolds' /\ DirHolds' /\ DshHolds'
    BY <1>1, <1>2, <2>1, <2>2 DEF EngineHolds, DirHolds, DshHolds, Closing, Alive, AppendSteps
  <2>5. CallHolds' /\ AppendHolds'
    BY <1>1, <2>1, <2>2 DEF CallHolds, AppendHolds, AppendSteps
  <2> QED BY <1>1, <2>1, <2>2, <2>3, <2>4, <2>5, TaskGoesOn DEF ReplayHolds, PhasesHold, AppendSteps
<1> QED BY <1>3, <1>4 DEF AdoptRegistration

LEMMA NextRecordKeeps == ASSUME RunInv, TypeInv', NextRecord PROVE RunInv'
<1>1. /\ TypeOK /\ StepsHold /\ EngineHolds /\ DirHolds /\ DshHolds /\ ReplayHolds /\ AppendHolds
      /\ task.at = "done" /\ task.call \in {"close", "recover"} /\ engine.up
  BY DEF RunInv, TypeInv, TaskInv, PhasesHold, NextRecord, At
<1>2. /\ task' = [task EXCEPT !.at = "replay", !.todo = @ \ {task.op.id}]
      /\ UNCHANGED <<row, dir, checkpoint, file, wal, mapping, receipts, canon, engine, ctx, dsh, plugin>>
  BY DEF NextRecord, files, tables, memory, outside
<1>3. /\ task'.call = task.call /\ task'.at = "replay" /\ task'.todo = task.todo \ {task.op.id}
      /\ task'.fixed = task.fixed
  BY <1>1, <1>2 DEF TypeOK, Tasks
<1>4. StepsHold'
  BY <1>1, <1>3 DEF StepsHold
<1>5. EngineHolds' /\ DirHolds' /\ DshHolds'
  BY <1>1, <1>2, <1>3 DEF EngineHolds, DirHolds, DshHolds, Closing, Alive
<1>6. CallHolds' /\ AppendHolds'
  BY <1>1, <1>3 DEF CallHolds, AppendHolds, AppendSteps
<1>7. Open \subseteq task.todo \ {task.op.id}
  BY <1>1 DEF ReplayHolds, AppendHolds, Open, Done
<1> QED BY <1>1, <1>2, <1>3, <1>4, <1>5, <1>6, <1>7, TaskGoesOn DEF ReplayHolds, PhasesHold, AppendSteps

\* A record goes through its append, or there is none left.
LEMMA ReplayPendingKeeps == ASSUME RunInv, TypeInv', ReplayPending PROVE RunInv'
<1>1. /\ TypeOK /\ StepsHold /\ EngineHolds /\ DirHolds /\ DshHolds /\ ReplayHolds /\ MappingHolds
      /\ QueueHolds /\ LogHolds /\ task.at = "replay" /\ engine.up
  BY DEF RunInv, TypeInv, TaskInv, DataInv, PhasesHold, ReplayPending, At
<1>2. task.call \in {"close", "recover"}
  BY <1>1 DEF StepsHold, TypeOK, Tasks, AppendSteps, Ending
<1>3. ASSUME NEW id \in task.todo, task' = [task EXCEPT !.at = "look", !.op = wal[id].op],
             UNCHANGED <<files, tables, memory, outside>>
      PROVE  RunInv'
  <2>1. UNCHANGED <<row, dir, checkpoint, file, wal, mapping, receipts, canon, engine, ctx, dsh, plugin>>
    BY <1>3 DEF files, tables, memory, outside
  <2>2. id \in OpIds /\ wal[id].state \in {"pending", "applied", "committed"}
    BY <1>1, <1>3, Shapes DEF ReplayHolds
  <2>3. wal[id].op.id = id /\ GoodOp(wal[id].op) /\ mapping.base # 0
    BY <1>1, <2>2 DEF LogHolds, MappingHolds
  <2>4. /\ task'.call = task.call /\ task'.at = "look" /\ task'.op = wal[id].op /\ task'.todo = task.todo
        /\ task'.fixed = task.fixed
    BY <1>1, <1>3 DEF TypeOK, Tasks
  <2>5. dir = "whole"
    BY <1>1, <1>3 DEF DirHolds
  <2>6. StepsHold'
    BY <1>2, <2>4 DEF StepsHold, AppendSteps
  <2>7. EngineHolds'
    BY <1>1, <1>2, <2>1, <2>4 DEF EngineHolds
  <2>8. DirHolds'
    BY <1>1, <1>2, <2>1, <2>4, <2>5 DEF DirHolds
  <2>9. DshHolds'
    BY <1>1, <1>2, <2>1, <2>4 DEF DshHolds, Closing, Alive
  <2>10. CallHolds'
    <3>1. GoodOp(task.op)'
      BY <2>1, <2>3, <2>4, AnchoredSame DEF GoodOp
    <3> QED BY <1>2, <2>1, <2>2, <2>3, <2>4, <3>1 DEF CallHolds
  <2>11. AppendHolds'
    BY <2>1, <2>2, <2>3, <2>4 DEF AppendHolds
  <2> QED BY <1>1, <1>2, <2>1, <2>3, <2>4, <2>5, <2>6, <2>7, <2>8, <2>9, <2>10, <2>11, TaskGoesOn
          DEF ReplayHolds, PhasesHold, AppendSteps
<1>4. ASSUME NEW step \in {"tail", "checkpoint"}, GoTo(step), task.todo = {},
             step = "tail" <=> task.call = "recover",
             UNCHANGED <<files, tables, memory, outside>>
      PROVE  RunInv'
  <2>1. UNCHANGED <<row, dir, checkpoint, file, wal, mapping, receipts, canon, engine, ctx, dsh, plugin>>
    BY <1>4 DEF files, tables, memory, outside
  <2>2. /\ task'.call = task.call /\ task'.at = step /\ task'.todo = {} /\ task'.fixed = task.fixed
    BY <1>1, <1>4 DEF GoTo, TypeOK, Tasks
  <2>3. StepsHold'
    BY <1>2, <1>4, <2>2 DEF StepsHold, Ending
  <2>4. EngineHolds'
    BY <1>1, <1>2, <2>1, <2>2 DEF EngineHolds
  <2>5. DirHolds'
    BY <1>1, <1>2, <1>4, <2>1, <2>2 DEF DirHolds, AppendSteps
  <2>6. DshHolds'
    BY <1>1, <1>2, <2>1, <2>2 DEF DshHolds, Closing, Alive
  <2>7. CallHolds' /\ AppendHolds'
    BY <1>2, <2>2 DEF CallHolds, AppendHolds, AppendSteps
  <2>8. step = "checkpoint" => dsh.log <= Held
    <3>1. dsh.log \in Nat /\ dsh.emitted \in Nat /\ plugin.acked \in Nat /\ Held \in Nat
      BY <1>1, Shapes
    <3> QED BY <1>1, <1>2, <1>4, <3>1 DEF DshHolds, QueueHolds
  <2> QED BY <1>1, <1>2, <1>4, <2>1, <2>2, <2>3, <2>4, <2>5, <2>6, <2>7, <2>8, TaskGoesOn
          DEF ReplayHolds, PhasesHold, AppendSteps
<1>5. ASSUME Fails(FALSE) PROVE RunInv'
  BY <1>5, FailsKeeps
<1>6. CASE GoTo(IF task.call = "recover" THEN "tail" ELSE "checkpoint") /\ task.todo = {}
           /\ UNCHANGED <<files, tables, memory, outside>>
  <2>1. CASE task.call = "recover"
    <3>1. GoTo("tail")
      BY <1>6, <2>1
    <3> QED BY <1>4, <1>6, <2>1, <3>1
  <2>2. CASE task.call # "recover"
    <3>1. GoTo("checkpoint")
      BY <1>6, <2>2
    <3> QED BY <1>4, <1>6, <2>2, <3>1
  <2> QED BY <2>1, <2>2
<1> QED BY <1>3, <1>5, <1>6 DEF ReplayPending

\* When nothing is open the mapping has caught up with the history.
LEMMA NothingLags ==
    ASSUME RunInv, Open = {}
    PROVE  /\ Held <= mapping.rev
           /\ \A id \in OpIds : Receipted(id) => receipts[id].rev <= mapping.rev
<1>1. TypeOK /\ HistoriesHold /\ LogHolds
  BY DEF RunInv, TypeInv, DataInv
<1>2. mapping.rev \in Nat /\ Held \in Nat /\ \A id \in OpIds : receipts[id].rev \in Nat
  BY <1>1, Shapes
<1>3. ASSUME NEW id \in OpIds, Receipted(id) PROVE receipts[id].rev <= mapping.rev
  <2>1. ~Lags(id)
    BY <1>1, <1>3 DEF LogHolds, Open, Kept
  <2> QED BY <1>2, <2>1 DEF Lags
<1>4. Held <= mapping.rev
  BY <1>1, <1>2, <1>3 DEF HistoriesHold
<1> QED BY <1>3, <1>4

LEMMA RecoverTailKeeps == ASSUME RunInv, TypeInv', RecoverTail PROVE RunInv'
<1>1. /\ TypeOK /\ TypeOK' /\ StepsHold /\ EngineHolds /\ DirHolds /\ DshHolds /\ ReplayHolds /\ MappingHolds
      /\ LogHolds /\ ReceiptsHold /\ task.at = "tail" /\ engine.up
  BY DEF RunInv, TypeInv, TaskInv, DataInv, PhasesHold, RecoverTail, At
<1>2. task.call = "recover" /\ task.todo = {} /\ Open = {} /\ ctx.map = mapping
  BY <1>1 DEF StepsHold, TypeOK, Tasks, AppendSteps, Ending, ReplayHolds, EngineHolds
<1>3. ASSUME NEW corrupt \in BOOLEAN, Fails(corrupt) PROVE RunInv'
  BY <1>3, FailsKeeps
<1> DEFINE rev == mapping.rev
           tail == [id |-> TailId(rev, dsh.log), lo |-> rev, hi |-> dsh.log,
                    logical |-> mapping.logical, base |-> mapping.base]
<1>4. rev \in Nat /\ dsh.log \in 0..MaxEvents /\ dsh.emitted \in Nat /\ Held \in Nat /\ rev \in 0..MaxEvents
  BY <1>1, Shapes
<1>5. ASSUME dir = "whole", ~(dsh.log > 0 /\ mapping.base = 0), dsh.log \notin 1..(rev - 1),
             task' = IF dsh.log <= rev THEN [task EXCEPT !.at = "checkpoint"]
                     ELSE [task EXCEPT !.at = "look", !.op = tail],
             UNCHANGED <<files, tables, memory, outside>>
      PROVE  RunInv'
  <2>1. UNCHANGED <<row, dir, checkpoint, file, wal, mapping, receipts, canon, engine, ctx, dsh, plugin>>
    BY <1>5 DEF files, tables, memory, outside
  <2>2. EngineHolds' /\ DshHolds' /\ DirHolds' /\ StepsHold'
    <3>1. /\ task'.call = "recover" /\ task'.at \in {"checkpoint", "look"} /\ task'.todo = {}
      BY <1>1, <1>2, <1>5 DEF TypeOK, Tasks
    <3>2. StepsHold'
      BY <3>1 DEF StepsHold, Ending, AppendSteps
    <3>3. EngineHolds'
      BY <1>1, <1>2, <2>1, <3>1 DEF EngineHolds
    <3>4. DirHolds'
      BY <1>1, <1>5, <2>1, <3>1 DEF DirHolds
    <3>5. DshHolds'
      BY <1>1, <1>2, <2>1, <3>1 DEF DshHolds, Closing, Alive
    <3> QED BY <3>2, <3>3, <3>4, <3>5
  <2>3. CASE dsh.log <= rev
    <3>1. /\ task'.call = "recover" /\ task'.at = "checkpoint" /\ task'.todo = {} /\ task'.fixed = task.fixed
      BY <1>1, <1>2, <1>5, <2>3 DEF TypeOK, Tasks
    <3>2. CallHolds' /\ AppendHolds'
      BY <3>1 DEF CallHolds, AppendHolds, AppendSteps
    <3>3. dsh.log <= Held
      BY <1>1, <1>4, <2>3 DEF MappingHolds
    <3> QED BY <1>1, <1>2, <1>5, <2>1, <2>2, <3>1, <3>2, <3>3, TaskGoesOn
            DEF ReplayHolds, PhasesHold, AppendSteps
  <2>4. CASE dsh.log > rev
    <3>1. /\ task'.call = "recover" /\ task'.at = "look" /\ task'.todo = {} /\ task'.fixed = task.fixed
          /\ task'.op = tail
      <4>1. task' = [task EXCEPT !.at = "look", !.op = tail]
        BY <1>4, <1>5, <2>4
      <4> HIDE DEF tail
      <4> QED BY <1>1, <1>2, <4>1 DEF TypeOK, Tasks
    <3>2. mapping.base # 0 /\ rev < dsh.log /\ dsh.log <= dsh.emitted
      BY <1>1, <1>4, <1>5, <2>4 DEF DshHolds
    <3>3. GoodOp(tail) /\ tail.id \in OpIds /\ tail.id[3] = dsh.log /\ tail.id[1] = "tail"
      <4>1. tail.id \in OpIds /\ tail.id[3] = dsh.log /\ tail.id[1] = "tail"
        BY <1>4, <3>2 DEF OpIds, TailId
      <4> QED BY <1>1, <3>2, <4>1 DEF GoodOp, MappingHolds
    <3>4. ~Receipted(tail.id)
      BY <1>1, <1>2, <1>4, <3>2, <3>3, NothingLags DEF ReceiptsHold
    <3>5. wal[tail.id].state \notin {"pending", "applied", "committed"}
      BY <1>1, <1>2, <3>3, <3>4 DEF Open, Kept, LogHolds
    <3> DEFINE i == tail.id
    <3>6. tail.logical = mapping.logical /\ tail.base = mapping.base /\ tail.lo = rev
      OBVIOUS
    <3> HIDE DEF tail
    <3>7. CallHolds'
      <4>1. GoodOp(task.op)'
        BY <2>1, <3>1, <3>3, AnchoredSame DEF GoodOp
      <4> QED BY <2>1, <3>1, <3>2, <3>3, <3>5, <4>1 DEF CallHolds, AppendSteps
    <3>8. NextInLine' /\ NewRecord'
      <4>1. Held' = Held /\ Held <= rev
        BY <1>2, <2>1, HeldSame, NothingLags
      <4> QED BY <2>1, <3>1, <3>3, <3>4, <3>6, <4>1 DEF NextInLine, NewRecord, Receipted
    <3>9. AppendHolds'
      <4>1. Open' = {}
        BY <1>2, <2>1, OpenSame
      <4> QED BY <3>1, <3>8, <4>1 DEF AppendHolds
    <3> QED BY <1>1, <1>2, <1>5, <2>1, <2>2, <3>1, <3>7, <3>9, TaskGoesOn
            DEF ReplayHolds, PhasesHold, AppendSteps
  <2> QED BY <1>4, <2>3, <2>4
<1> HIDE DEF rev, tail
<1> QED BY <1>2, <1>3, <1>5 DEF RecoverTail, Known, rev, tail

LEMMA CheckpointKeeps == ASSUME RunInv, TypeInv', CheckpointAndDetach PROVE RunInv'
<1>1. /\ TypeOK /\ StepsHold /\ EngineHolds /\ DirHolds /\ DshHolds /\ ReplayHolds
      /\ task.at = "checkpoint" /\ task.call \in Closing /\ engine.up
  BY CallKinds DEF RunInv, TypeInv, TaskInv, PhasesHold, CheckpointAndDetach, At, Ending
<1>2. CASE Fails(TRUE)
  BY <1>2, FailsKeeps
<1>3. CASE /\ AfterThrow(FALSE)
           /\ UNCHANGED <<dir, file, wal, mapping, receipts, canon, engine, dsh, plugin, spent>>
  <2>1. task' = NoTask
    BY <1>3 DEF AfterThrow
  <2>2. DataInv' /\ Open' = Open
    BY <1>3, <2>1, QuietData DEF NoTask
  <2>3. PhasesHold'
    BY <1>3, ThrowPhases
  <2>4. ReplayHolds'
    BY <1>1, <1>3, <2>1, <2>2, NoTaskReplays, NothingOpen
  <2> QED BY <2>1, <2>2, <2>3, <2>4, NoTaskFits DEF RunInv, TaskInv
<1>4. CASE /\ checkpoint' = TRUE /\ ctx' = [ctx EXCEPT !.bridge = FALSE] /\ GoTo("remove")
           /\ UNCHANGED <<row, dir, file, wal, mapping, receipts, canon, engine, dsh, plugin>>
  <2>1. /\ task'.call = task.call /\ task'.at = "remove" /\ task'.todo = {} /\ task'.fixed = task.fixed
        /\ ctx'.where = ctx.where /\ ctx'.map = ctx.map /\ ~ctx'.bridge
    BY <1>1, <1>4 DEF GoTo, TypeOK, Tasks, Contexts, ReplayHolds, AppendSteps
  <2>2. StepsHold'
    BY <1>1, <2>1 DEF StepsHold, Closing, Ending
  <2>3. EngineHolds'
    BY <1>1, <1>4, <2>1 DEF EngineHolds, Closing
  <2>4. DirHolds'
    BY <1>1, <1>4, <2>1 DEF DirHolds, Closing, AppendSteps
  <2>5. DshHolds'
    BY <1>1, <1>4, <2>1 DEF DshHolds, Closing, Alive
  <2>6. CallHolds' /\ AppendHolds'
    BY <1>1, <2>1 DEF CallHolds, AppendHolds, AppendSteps, Closing
  <2> QED BY <1>1, <1>4, <2>1, <2>2, <2>3, <2>4, <2>5, <2>6, TaskGoesOn
          DEF ReplayHolds, PhasesHold, AppendSteps, Closing
<1>5. CheckpointAndDetach
  OBVIOUS
<1> QED BY <1>2, <1>3, <1>4, <1>5 DEF CheckpointAndDetach

LEMMA RemoveKeeps == ASSUME RunInv, TypeInv', RemoveProjectionRun PROVE RunInv'
<1>1. /\ TypeOK /\ StepsHold /\ EngineHolds /\ DirHolds /\ DshHolds /\ ReplayHolds
      /\ task.at = "remove" /\ task.call \in Closing /\ engine.up
  BY CallKinds DEF RunInv, TypeInv, TaskInv, PhasesHold, RemoveProjectionRun, At, Ending
<1>2. CASE Fails(FALSE)
  BY <1>2, FailsKeeps
<1>3. CASE dir' = "gone" /\ GoTo("final") /\ UNCHANGED <<checkpoint, file, wal, tables, memory, outside>>
  <2>1. UNCHANGED <<row, checkpoint, file, wal, mapping, receipts, canon, engine, ctx, dsh, plugin>>
    BY <1>3 DEF tables, memory, outside
  <2>2. /\ task'.call = task.call /\ task'.at = "final" /\ task'.todo = {} /\ task'.fixed = task.fixed
    BY <1>1, <1>3 DEF GoTo, TypeOK, Tasks, ReplayHolds, AppendSteps
  <2>3. StepsHold'
    BY <1>1, <2>2 DEF StepsHold, Closing, Ending
  <2>4. EngineHolds'
    BY <1>1, <2>1, <2>2 DEF EngineHolds, Closing
  <2>5. DirHolds'
    BY <1>1, <1>3, <2>1, <2>2 DEF DirHolds, Closing, AppendSteps
  <2>6. DshHolds'
    BY <1>1, <1>3, <2>1, <2>2 DEF DshHolds, Closing, Alive
  <2>7. CallHolds' /\ AppendHolds'
    BY <1>1, <2>2 DEF CallHolds, AppendHolds, AppendSteps, Closing
  <2>8. Open = {}
    BY <1>1, NothingOpen
  <2> QED BY <1>1, <2>1, <2>2, <2>3, <2>4, <2>5, <2>6, <2>7, <2>8, TaskGoesOn
          DEF ReplayHolds, PhasesHold, AppendSteps, Closing
<1> QED BY <1>2, <1>3 DEF RemoveProjectionRun

(***************************************************************************)
(* Registration                                                            *)
(***************************************************************************)
Registering == {"write", "import", "rebase", "map"}

LEMMA RegisteringNow ==
    ASSUME RunInv, task.at \in Registering
    PROVE  /\ task.call \in {"register", "recover"} /\ task.todo = {}
           /\ task.call = "register" => dir = "whole" /\ engine.known = "attached" /\ plugin.base = 0
           /\ task.call = "recover" => ctx.where = "active" /\ engine.known # "prepared"
           /\ task.at = "write" => task.call = "register"
           /\ mapping = NoMapping /\ plugin.base = 0 /\ plugin.batch = NoOp /\ plugin.acked = 0
           /\ ~Codex /\ Held = 0 /\ Open = {}
           /\ \A id \in OpIds : wal[id].state = "none" /\ ~Receipted(id)
<1>1. /\ TypeOK /\ StepsHold /\ EngineHolds /\ DirHolds /\ ReplayHolds /\ CallHolds /\ MappingHolds
      /\ QueueHolds /\ HistoriesHold
  BY DEF RunInv, TypeInv, TaskInv, DataInv, PhasesHold
<1>2. /\ task.call \in {"register", "recover"} /\ (task.at = "write" => task.call = "register")
  BY <1>1 DEF StepsHold, TypeOK, Tasks, AppendSteps, Ending, Registering
<1>3. mapping.base = 0
  BY <1>1 DEF CallHolds, Registering
<1>4. /\ mapping = NoMapping /\ plugin.base = 0 /\ plugin.batch = NoOp /\ plugin.acked = 0 /\ ~Codex
      /\ \A id \in OpIds : wal[id].state = "none" /\ ~Receipted(id)
  BY <1>1, <1>3 DEF MappingHolds, QueueHolds
<1>5. Held = 0 /\ Open = {}
  BY <1>1, <1>4 DEF HistoriesHold, Open, Kept
<1> QED BY <1>1, <1>2, <1>4, <1>5 DEF EngineHolds, DirHolds, ReplayHolds, AppendSteps, Registering

\* A registration goes on; the log and the tables stay.
LEMMA RegistrationGoesOn ==
    ASSUME RunInv, TypeInv', task.at \in Registering, NEW step \in {"import", "rebase", "map"}, GoTo(step),
           UNCHANGED <<row, dir, checkpoint, wal, mapping, receipts, engine, ctx, dsh, plugin>>,
           step \in {"rebase", "map"} => canon'[Root].version = 1, step = "map" => file'.base = 1
    PROVE  /\ StepsHold' /\ PhasesHold' /\ CallHolds' /\ AppendHolds'
           /\ task'.call = task.call /\ task'.at = step /\ task'.todo = {} /\ task'.fixed = task.fixed
<1>1. /\ TypeOK /\ StepsHold /\ EngineHolds /\ DirHolds /\ DshHolds
  BY DEF RunInv, TypeInv, TaskInv, PhasesHold
<1>2. /\ task.call \in {"register", "recover"} /\ task.todo = {} /\ mapping = NoMapping /\ plugin.base = 0
      /\ task.call = "recover" => ctx.where = "active"
  BY RegisteringNow
<1>3. /\ task'.call = task.call /\ task'.at = step /\ task'.todo = {} /\ task'.fixed = task.fixed
  BY <1>1, <1>2 DEF GoTo, TypeOK, Tasks
<1>4. StepsHold'
  BY <1>2, <1>3 DEF StepsHold
<1>5. EngineHolds'
  BY <1>1, <1>2, <1>3 DEF EngineHolds
<1>6. DirHolds'
  BY <1>1, <1>2, <1>3 DEF DirHolds, AppendSteps, Registering
<1>7. DshHolds'
  BY <1>1, <1>2, <1>3 DEF DshHolds, Closing, Alive
<1>8. CallHolds' /\ AppendHolds'
  BY <1>2, <1>3 DEF CallHolds, AppendHolds, AppendSteps, NoMapping
<1> QED BY <1>3, <1>4, <1>5, <1>6, <1>7, <1>8 DEF PhasesHold

LEMMA WriteRegistrationKeeps == ASSUME RunInv, TypeInv', WriteRegistration PROVE RunInv'
<1>1. TypeOK /\ ReplayHolds /\ task.at = "write" /\ task.at \in Registering
  BY DEF RunInv, TypeInv, TaskInv, WriteRegistration, At, Registering
<1>2. CASE Fails(FALSE)
  BY <1>2, FailsKeeps
<1>3. CASE /\ file' = [file EXCEPT !.there = TRUE] /\ GoTo("import")
           /\ UNCHANGED <<dir, checkpoint, wal, tables, memory, outside>>
  <2>1. /\ file'.events = file.events
        /\ UNCHANGED <<row, dir, checkpoint, wal, mapping, receipts, canon, engine, ctx, dsh, plugin>>
    BY <1>1, <1>3 DEF tables, memory, outside, TypeOK, Files
  <2>2. /\ StepsHold' /\ PhasesHold' /\ CallHolds' /\ AppendHolds' /\ Open = {}
        /\ task'.call = task.call /\ task'.at = "import" /\ task'.todo = {} /\ task'.fixed = task.fixed
        /\ task.call \in {"register", "recover"}
    BY <1>1, <1>3, <2>1, RegisteringNow, RegistrationGoesOn
  <2> QED BY <1>1, <2>1, <2>2, TaskGoesOn DEF ReplayHolds, AppendSteps
<1> QED BY <1>2, <1>3 DEF WriteRegistration

LEMMA RebaseRegistrationKeeps == ASSUME RunInv, TypeInv', RebaseRegistration PROVE RunInv'
<1>1. /\ TypeOK /\ ReplayHolds /\ CallHolds /\ task.at = "rebase" /\ task.at \in Registering
      /\ file' = [file EXCEPT !.base = canon[Root].version] /\ GoTo("map")
      /\ UNCHANGED <<dir, checkpoint, wal, tables, memory, outside>>
  BY DEF RunInv, TypeInv, TaskInv, RebaseRegistration, At, Registering
<1>2. /\ file'.events = file.events /\ file'.base = 1 /\ canon'[Root].version = 1
      /\ UNCHANGED <<row, dir, checkpoint, wal, mapping, receipts, canon, engine, ctx, dsh, plugin>>
  BY <1>1 DEF tables, memory, outside, TypeOK, Files, CallHolds
<1>3. /\ StepsHold' /\ PhasesHold' /\ CallHolds' /\ AppendHolds' /\ Open = {}
      /\ task'.call = task.call /\ task'.at = "map" /\ task'.todo = {} /\ task'.fixed = task.fixed
      /\ task.call \in {"register", "recover"}
  BY <1>1, <1>2, RegisteringNow, RegistrationGoesOn
<1> QED BY <1>1, <1>2, <1>3, TaskGoesOn DEF ReplayHolds, AppendSteps

\* Importing the native session is a new version of an empty body, or nothing.
LEMMA ImportedBodies ==
    ASSUME TypeOK, HistoriesHold, ~(canon[Root].version > 1),
           canon' = [canon EXCEPT ![Root].version = 1]
    PROVE  /\ canon'[Root].version = 1
           /\ BodiesStay
<1>1. /\ canon'[Root].version = 1 /\ canon[Root].version \in {0, 1}
      /\ canon'[Root].body = canon[Root].body /\ canon'[Root].scope = canon[Root].scope
      /\ \A l \in Logicals : l # Root => canon'[l] = canon[l]
  <2>1. canon[Root] \in Sessions /\ canon \in [Logicals -> Sessions]
    BY Names DEF TypeOK
  <2>2. canon'[Root] = [canon[Root] EXCEPT !.version = 1]
    BY <2>1, Names
  <2>3. canon[Root].version \in Nat
    BY <2>1 DEF Sessions
  <2> QED BY <2>1, <2>2, <2>3, Names DEF Sessions
<1>2. canon[Root].version = 0 => canon[Root].body = <<>>
  BY Names DEF HistoriesHold, Exists
<1>3. \A l \in Logicals : canon[l].version \in Nat
  BY Shapes
<1>4. Grows
  BY <1>1, <1>3 DEF Grows
<1>5. \A id \in OpIds : id # Root /\ id \in Logicals
  BY Names DEF OpIds, LiveId, TailId, Root
<1> QED BY <1>1, <1>4, <1>5 DEF BodiesStay, Exists

LEMMA ImportNativeKeeps == ASSUME RunInv, TypeInv', ImportNative PROVE RunInv'
<1>1. TypeOK /\ HistoriesHold /\ ReplayHolds /\ task.at = "import" /\ task.at \in Registering
  BY DEF RunInv, TypeInv, TaskInv, DataInv, ImportNative, At, Registering
<1>2. CASE Fails(FALSE)
  BY <1>2, FailsKeeps
<1>3. CASE /\ ~(canon[Root].version > 1) /\ canon' = [canon EXCEPT ![Root].version = 1] /\ GoTo("rebase")
           /\ UNCHANGED <<files, row, mapping, receipts, memory, outside>>
  <2>1. /\ UNCHANGED <<row, dir, checkpoint, file, wal, mapping, receipts, engine, ctx, dsh, plugin>>
    BY <1>3 DEF files, memory, outside
  <2>2. canon'[Root].version = 1 /\ BodiesStay
    BY <1>1, <1>3, ImportedBodies
  <2>4. /\ StepsHold' /\ PhasesHold' /\ CallHolds' /\ AppendHolds' /\ Open = {}
        /\ task'.call = task.call /\ task'.at = "rebase" /\ task'.todo = {} /\ task'.fixed = task.fixed
        /\ task.call \in {"register", "recover"}
    BY <1>1, <1>3, <2>1, <2>2, RegisteringNow, RegistrationGoesOn
  <2>5. DataInv' /\ Held' = Held /\ Open' = Open
    BY <2>1, <2>2, <2>4, BodiesStayData
  <2>6. ReplayHolds'
    BY <1>1, <2>1, <2>4, <2>5 DEF ReplayHolds, AppendSteps
  <2> QED BY <2>4, <2>5, <2>6 DEF RunInv, TaskInv
<1> QED BY <1>2, <1>3 DEF ImportNative

LEMMA MapRegistrationKeeps == ASSUME RunInv, TypeInv', MapRegistration PROVE RunInv'
<1>1. /\ TypeOK /\ TypeOK' /\ HistoriesHold /\ ReceiptsHold /\ MappingHolds /\ QueueHolds /\ LogHolds
      /\ OpenHolds /\ StepsHold /\ EngineHolds /\ DirHolds /\ DshHolds /\ ReplayHolds /\ CallHolds
      /\ task.at = "map" /\ task.at \in Registering /\ engine.up
  BY DEF RunInv, TypeInv, TaskInv, DataInv, PhasesHold, MapRegistration, At, Registering
<1>2. /\ mapping' = [NoMapping EXCEPT !.base = file.base]
      /\ ctx' = [ctx EXCEPT !.map = mapping', !.codex = FALSE]
      /\ UNCHANGED <<row, dir, checkpoint, file, wal, receipts, canon, engine, dsh, plugin>>
  BY DEF MapRegistration, files, outside
<1>3. /\ task.call \in {"register", "recover"} /\ task.todo = {}
      /\ task.call = "recover" => ctx.where = "active"
      /\ mapping = NoMapping /\ plugin.base = 0 /\ plugin.batch = NoOp /\ plugin.acked = 0
      /\ ~Codex /\ Held = 0 /\ Open = {}
      /\ \A id \in OpIds : wal[id].state = "none" /\ ~Receipted(id)
  BY <1>1, RegisteringNow
<1>4. PICK step \in {"supersede", "done"} :
          GoTo(step) /\ (step = "supersede" <=> task.call = "recover")
  <2>1. CASE task.call = "recover"
    <3>1. GoTo("supersede")
      BY <2>1 DEF MapRegistration
    <3> QED BY <2>1, <3>1
  <2>2. CASE task.call # "recover"
    <3>1. GoTo("done")
      BY <2>2 DEF MapRegistration
    <3> QED BY <2>2, <3>1
  <2> QED BY <2>1, <2>2
<1>5. /\ task'.call = task.call /\ task'.at = step /\ task'.todo = {} /\ task'.fixed = task.fixed
  BY <1>1, <1>3, <1>4 DEF GoTo, TypeOK, Tasks
<1>6. /\ mapping'.logical = Root /\ mapping'.base = 1 /\ mapping'.rev = 0 /\ mapping'.last = Root
  BY <1>1, <1>2 DEF NoMapping, CallHolds
<1>7. ctx'.where = ctx.where /\ ctx'.bridge = ctx.bridge /\ ctx'.map = mapping'
  BY <1>1, <1>2 DEF TypeOK, Contexts
<1>8. Held' = Held /\ Codex' = Codex
  BY <1>2, HeldSame
<1>9. \A l, base, n : Anchored(l, base, n)' <=> Anchored(l, base, n)
  BY <1>2, AnchoredSame
<1>10. \A id \in OpIds : wal'[id].state = "none" /\ ~Receipted(id)'
  BY <1>2, <1>3 DEF Receipted
<1>11. Open' = {}
  BY <1>10 DEF Open, Kept
<1>12. HistoriesHold' /\ ReceiptsHold'
  BY <1>1, <1>2, <1>3, <1>8, <1>10 DEF HistoriesHold, ReceiptsHold, Exists, Receipted
<1>13. MappingHolds'
  <2>1. Anchored(Root, 1, 0)
    <3>1. canon[Root].version = 1 /\ Len(canon[Root].body) <= Held /\ Len(canon[Root].body) \in Nat
      BY <1>1, Names, Shapes DEF CallHolds, HistoriesHold
    <3>2. Len(canon[Root].body) = 0
      BY <1>3, <3>1
    <3> QED BY <3>1, <3>2 DEF Anchored
  <2> QED BY <1>3, <1>6, <1>8, <1>9, <2>1 DEF MappingHolds
<1>14. QueueHolds'
  BY <1>1, <1>2, <1>3, <1>8 DEF QueueHolds
<1>15. LogHolds'
  BY <1>10 DEF LogHolds
<1>16. OpenHolds'
  BY <1>1, <1>2, <1>8, <1>11 DEF OpenHolds
<1>17. PluginAgrees'
  BY <1>2, <1>3, <1>8 DEF PluginAgrees, Taken
<1>18. StepsHold'
  BY <1>3, <1>4, <1>5 DEF StepsHold
<1>19. EngineHolds'
  BY <1>1, <1>2, <1>3, <1>5, <1>7 DEF EngineHolds
<1>20. DirHolds'
  BY <1>1, <1>2, <1>3, <1>4, <1>5, <1>7 DEF DirHolds, AppendSteps
<1>21. DshHolds'
  BY <1>1, <1>2, <1>3, <1>5 DEF DshHolds, Closing, Alive
<1>22. CallHolds' /\ AppendHolds'
  BY <1>2, <1>3, <1>4, <1>5, <1>6 DEF CallHolds, AppendHolds, AppendSteps
<1>23. ReplayHolds'
  BY <1>1, <1>3, <1>4, <1>5, <1>6, <1>11 DEF ReplayHolds, AppendSteps, NoMapping
<1> QED BY <1>12, <1>13, <1>14, <1>15, <1>16, <1>17, <1>18, <1>19, <1>20, <1>21, <1>22, <1>23
        DEF RunInv, TaskInv, DataInv, PhasesHold

(***************************************************************************)
(* The context is restored, stale records are set aside                    *)
(***************************************************************************)
LEMMA RestoreContextKeeps == ASSUME RunInv, TypeInv', RestoreContext PROVE RunInv'
<1>1. /\ TypeOK /\ TypeOK' /\ HistoriesHold /\ ReceiptsHold /\ MappingHolds /\ QueueHolds /\ LogHolds
      /\ OpenHolds /\ StepsHold /\ EngineHolds /\ DirHolds /\ DshHolds /\ ReplayHolds
      /\ task.at = "restore" /\ engine.up
  BY DEF RunInv, TypeInv, TaskInv, DataInv, PhasesHold, RestoreContext, At
<1>2. task.call = "recover" /\ dir = "whole" /\ dsh.state = "exited" /\ task.todo = {}
  BY <1>1 DEF StepsHold, TypeOK, Tasks, AppendSteps, Ending, DirHolds, DshHolds, Closing, ReplayHolds
<1>3. CASE Fails(TRUE)
  BY <1>3, FailsKeeps
<1> DEFINE l == mapping.logical
           held == Len(canon[l].body)
           step == IF ~Known(mapping) /\ file.there THEN "adopt" ELSE "supersede"
<1>4. l \in Logicals /\ held \in Nat /\ held <= Held /\ Held \in Nat /\ mapping.rev \in Nat
  BY <1>1, Shapes DEF HistoriesHold
<1>5. ASSUME NEW fixed \in Nat, NEW m, mapping' = m,
             \/ fixed = 0 /\ m = mapping
             \/ fixed = held /\ held > mapping.rev /\ mapping.base # 0 /\ mapping.last = Root
                /\ m = [mapping EXCEPT !.rev = held],
             ctx' = [where |-> "active", accepting |-> FALSE, bridge |-> TRUE, codex |-> ctx'.codex,
                     map |-> mapping'],
             task' = [task EXCEPT !.fixed = fixed, !.at = step],
             UNCHANGED <<files, row, receipts, canon, engine, outside>>
      PROVE  RunInv'
  <2>1. UNCHANGED <<row, dir, checkpoint, file, wal, receipts, canon, engine, dsh, plugin>>
    BY <1>5 DEF files, outside
  <2>2. /\ task'.call = "recover" /\ task'.at = step /\ task'.todo = {} /\ task'.fixed = fixed
        /\ step \in {"adopt", "supersede"} /\ (step = "adopt" => mapping.base = 0)
    BY <1>1, <1>2, <1>5 DEF TypeOK, Tasks, Known
  <2> HIDE DEF step
  <2>3. /\ mapping'.logical = l /\ mapping'.base = mapping.base /\ mapping'.last = mapping.last
        /\ mapping'.rev >= mapping.rev /\ mapping'.rev <= Held /\ fixed <= mapping'.rev
        /\ mapping' = mapping \/ (mapping'.rev = held /\ held > mapping.rev /\ mapping.base # 0
                                    /\ mapping.last = Root)
    <3>1. CASE fixed = 0 /\ m = mapping
      BY <1>1, <1>4, <1>5, <3>1 DEF MappingHolds
    <3>2. CASE fixed = held /\ held > mapping.rev /\ mapping.base # 0 /\ mapping.last = Root
               /\ m = [mapping EXCEPT !.rev = held]
      <4>1. mapping \in Mappings
        BY <1>1 DEF TypeOK
      <4> HIDE DEF held
      <4>2. m.rev = held /\ m.logical = mapping.logical /\ m.base = mapping.base /\ m.last = mapping.last
        BY <3>2, <4>1 DEF Mappings
      <4> QED BY <1>4, <1>5, <3>2, <4>2
    <3> QED BY <1>5, <3>1, <3>2
  <2>4. Held' = Held /\ Codex' = Codex
    BY <2>1, HeldSame
  <2>5. \A k, base, n : Anchored(k, base, n)' <=> Anchored(k, base, n)
    BY <2>1, AnchoredSame
  <2>6. \A op : GoodOp(op)' <=> GoodOp(op)
    BY <2>1, <2>5 DEF GoodOp
  <2>7. \A k : Proper(k)' = Proper(k)
    BY <2>1, <2>4 DEF Proper, Exists
  <2>8. /\ \A id : Receipted(id)' = Receipted(id)
        /\ \A id \in OpIds : Lags(id)' => Lags(id)
    <3>1. \A id \in OpIds : receipts[id].rev \in Nat
      BY <1>1, Shapes
    <3>2. mapping'.rev \in Nat
      BY <1>1 DEF TypeOK, Mappings
    <3> QED BY <1>4, <2>1, <2>3, <3>1, <3>2 DEF Receipted, Lags
  <2>9. HistoriesHold' /\ ReceiptsHold'
    BY <1>1, <2>1, <2>4, <2>5, <2>7, <2>8 DEF HistoriesHold, ReceiptsHold, Exists
  <2>10. MappingHolds'
    <3>1. CASE mapping' = mapping
      BY <1>1, <2>1, <2>4, <2>5, <2>7, <2>8, <3>1 DEF MappingHolds
    <3>2. CASE mapping'.rev = held /\ held > mapping.rev /\ mapping.base # 0 /\ mapping.last = Root
      <4>1. Anchored(l, mapping.base, held)
        <5>1. Anchored(l, mapping.base, mapping.rev)
          BY <1>1, <3>2 DEF MappingHolds
        <5>2. ~(l = Root /\ Codex)
          BY <1>1, <1>4, <3>2 DEF HistoriesHold
        <5> QED BY <5>1, <5>2 DEF Anchored
      <4> HIDE DEF held
      <4> QED BY <1>1, <2>1, <2>3, <2>4, <2>5, <2>7, <3>2, <4>1 DEF MappingHolds
    <3> QED BY <2>3, <3>1, <3>2
  <2>11. QueueHolds'
    BY <1>1, <2>1, <2>4, <2>5, <2>6 DEF QueueHolds
  <2>12. LogHolds'
    BY <1>1, <2>1, <2>6, <2>8 DEF LogHolds
  <2>13. Open' \subseteq Open
    BY <2>1, <2>8 DEF Open, Kept
  <2>14. OpenHolds'
    BY <1>1, <1>2, <2>1, <2>2, <2>3, <2>4, <2>8, <2>13 DEF OpenHolds
  <2>15. PluginAgrees'
    BY <1>2, <2>1, <2>2 DEF PluginAgrees, Alive
  <2>16. StepsHold'
    BY <2>2 DEF StepsHold
  <2>17. EngineHolds'
    BY <1>1, <1>2, <1>5, <2>1, <2>2 DEF EngineHolds
  <2>18. DirHolds'
    BY <1>1, <1>2, <2>1, <2>2 DEF DirHolds, AppendSteps
  <2>19. DshHolds'
    BY <1>1, <1>2, <2>1, <2>2 DEF DshHolds, Closing, Alive
  <2>20. CallHolds' /\ AppendHolds'
    BY <2>2, <2>3 DEF CallHolds, AppendHolds, AppendSteps
  <2>21. ReplayHolds'
    BY <1>2, <2>1, <2>2, <2>3 DEF ReplayHolds, AppendSteps
  <2> QED BY <2>9, <2>10, <2>11, <2>12, <2>14, <2>15, <2>16, <2>17, <2>18, <2>19, <2>20, <2>21
          DEF RunInv, TaskInv, DataInv, PhasesHold
<1>6. CASE ~Fails(TRUE)
  <2> DEFINE fresh == mapping.last = Root /\ ~canon[l].gone
             corrected == Known(mapping) /\ fresh /\ held > mapping.rev
  <2>1. /\ mapping' = (IF corrected THEN [mapping EXCEPT !.rev = held] ELSE mapping)
        /\ ctx' = [where |-> "active", accepting |-> FALSE, bridge |-> TRUE,
                   codex |-> Known(mapping) /\ canon[l].scope = "codex" /\ ~canon[l].gone,
                   map |-> mapping']
        /\ task' = [task EXCEPT !.fixed = IF corrected THEN held ELSE 0, !.at = step]
        /\ UNCHANGED <<files, row, receipts, canon, engine, outside>>
    BY <1>6, Zenon DEF RestoreContext
  <2>2. ctx' = [where |-> "active", accepting |-> FALSE, bridge |-> TRUE, codex |-> ctx'.codex,
                map |-> mapping']
    <3> HIDE DEF corrected, step, l
    <3> QED BY <2>1
  <2>3. CASE corrected
    <3>1. mapping.base # 0 /\ mapping.last = Root /\ held > mapping.rev
      BY <2>3 DEF Known
    <3> HIDE DEF corrected, step, l, held
    <3>2. mapping' = [mapping EXCEPT !.rev = held] /\ task' = [task EXCEPT !.fixed = held, !.at = step]
      BY <2>1, <2>3
    <3> QED BY <1>4, <1>5, <2>1, <2>2, <3>1, <3>2
  <2>4. CASE ~corrected
    <3> HIDE DEF corrected, step, l, held
    <3>1. mapping' = mapping /\ task' = [task EXCEPT !.fixed = 0, !.at = step]
      BY <2>1, <2>4
    <3> QED BY <1>5, <2>1, <2>2, <3>1
  <2> QED BY <2>3, <2>4
<1> QED BY <1>3, <1>6

\* What recovery sets aside is done: it has its receipt, and the mapping covers it.
LEMMA StaleIsDone ==
    ASSUME RunInv, task.at = "supersede", NEW i \in Stale
    PROVE  i \in Kept /\ i \notin Open /\ Done(i)
<1>1. TypeOK /\ LogHolds /\ MappingHolds /\ OpenHolds /\ StepsHold /\ EngineHolds /\ ReplayHolds
  BY DEF RunInv, TypeInv, TaskInv, DataInv, PhasesHold
<1>2. task.call = "recover" /\ ctx.map = mapping
  BY <1>1 DEF StepsHold, AppendSteps, Ending, EngineHolds, TypeOK, Tasks
<1>3. i \in OpIds /\ wal[i].state = "applied" /\ i \in Kept
  BY DEF Stale, Pending, Kept
<1>4. wal[i].op.id = i /\ GoodOp(wal[i].op) /\ wal[i].op \in Ops /\ i[3] = wal[i].op.hi
  <2>1. wal[i].op.id = i /\ GoodOp(wal[i].op) /\ wal[i].op \in Ops
    BY <1>1, <1>3, Shapes DEF LogHolds
  <2> QED BY <2>1, NameTells
<1>5. i \notin Open
  <2> SUFFICES ASSUME i \in Open PROVE FALSE
    OBVIOUS
  <2>1. wal[i].op.logical = mapping.logical /\ wal[i].op.base = mapping.base
    BY <1>1 DEF OpenHolds
  <2>2. wal[i].op.hi <= task.fixed
    BY <1>2, <2>1 DEF Stale
  <2>3. /\ wal[i].op.hi \in Nat /\ wal[i].op.lo \in Nat /\ wal[i].op.lo < wal[i].op.hi /\ task.fixed \in Nat
        /\ mapping.rev \in Nat /\ Held \in Nat /\ task.fixed <= mapping.rev /\ mapping.rev <= Held
    <3>1. wal[i].op.hi \in Nat /\ wal[i].op.lo \in Nat /\ wal[i].op.lo < wal[i].op.hi
      BY <1>4 DEF Ops, GoodOp
    <3>2. task.fixed \in Nat /\ mapping.rev \in Nat /\ Held \in Nat
      BY <1>1, Shapes
    <3> QED BY <1>1, <3>1, <3>2 DEF ReplayHolds, MappingHolds
  <2>4. CASE ~Receipted(i)
    <3>1. Held <= wal[i].op.lo
      BY <1>1, <2>4 DEF OpenHolds
    <3> QED BY <2>2, <2>3, <3>1
  <2>5. CASE Receipted(i) /\ Lags(i)
    <3>1. receipts[i].rev = wal[i].op.hi
      BY <1>3, <1>4, <2>5 DEF RunInv, DataInv, ReceiptsHold
    <3> QED BY <2>2, <2>3, <2>5, <3>1 DEF Lags
  <2> QED BY <2>4, <2>5 DEF Open
<1>6. Done(i)
  BY <1>3, <1>5 DEF Open, Done
<1> QED BY <1>3, <1>5, <1>6

LEMMA SupersedeKeeps == ASSUME RunInv, TypeInv', SupersedeStalePending PROVE RunInv'
<1>1. /\ TypeOK /\ TypeOK' /\ LogHolds /\ MappingHolds /\ OpenHolds /\ StepsHold /\ EngineHolds /\ DirHolds
      /\ DshHolds /\ ReplayHolds /\ CallHolds /\ AppendHolds /\ task.at = "supersede" /\ engine.up
      /\ UNCHANGED <<row, dir, checkpoint, file, mapping, receipts, canon, engine, ctx, dsh, plugin>>
  BY DEF RunInv, TypeInv, TaskInv, DataInv, PhasesHold, SupersedeStalePending, At, tables, memory, outside
<1>2. task.call = "recover" /\ task.todo = {} /\ ctx.map = mapping
  BY <1>1 DEF StepsHold, TypeOK, Tasks, AppendSteps, Ending, ReplayHolds, EngineHolds
<1>3. ASSUME NEW i \in Stale, wal' = [wal EXCEPT ![i].state = "none"], UNCHANGED task
      PROVE  RunInv'
  <2>1. i \in OpIds /\ i \in Kept
    BY <1>1, <1>3, StaleIsDone DEF Kept
  <2>3. i \notin Open /\ Done(i)
    BY <1>1, <1>3, StaleIsDone
  <2>5. /\ wal'[i].state = "none" /\ \A id \in OpIds : id # i => wal'[id] = wal[id]
    BY <1>1, <1>3, <2>1 DEF TypeOK, Records
  <2>6. LogChange(i)
    BY <2>1, <2>3, <2>5 DEF LogChange, Kept, Done
  <2>7. mapping.base # 0
    BY <1>1, <2>1 DEF MappingHolds, Kept
  <2>8. /\ HistoriesHold' /\ ReceiptsHold' /\ MappingHolds' /\ QueueHolds' /\ LogHolds' /\ PluginAgrees'
    BY <1>1, <1>3, <2>6, <2>7, LogStep
  <2>9. Open' = Open
    <3>1. \A id : Receipted(id)' = Receipted(id) /\ Lags(id)' = Lags(id)
      BY <1>1 DEF Receipted, Lags
    <3>2. i \notin Open'
      BY <2>1, <2>5 DEF Open, Kept
    <3>3. \A id \in OpIds : id # i => (id \in Open' <=> id \in Open)
      BY <2>5, <3>1 DEF Open, Kept
    <3> QED BY <2>3, <3>2, <3>3 DEF Open, Kept
  <2>10. OpenHolds'
    <3>1. \A id \in Open' : wal'[id].op = wal[id].op
      BY <2>3, <2>5, <2>9 DEF Open, Kept
    <3>2. \A id \in Open' : Receipted(id)' = Receipted(id)
      BY <1>1 DEF Receipted
    <3> QED BY <1>1, <1>3, <2>9, <3>1, <3>2, OpenKept
  <2>11. StepsHold' /\ PhasesHold'
    BY <1>1, <1>3 DEF StepsHold, PhasesHold, EngineHolds, DirHolds, DshHolds, Alive
  <2>12. CallHolds' /\ AppendHolds'
    BY <1>1, <1>2, <1>3 DEF CallHolds, AppendHolds, AppendSteps
  <2>13. ReplayHolds'
    BY <1>1, <1>2, <1>3, <2>9 DEF ReplayHolds, AppendSteps
  <2> QED BY <2>8, <2>10, <2>11, <2>12, <2>13 DEF RunInv, TaskInv, DataInv
<1>4. ASSUME task' = [task EXCEPT !.at = "replay", !.todo = Pending], UNCHANGED wal
      PROVE  RunInv'
  <2>1. /\ task'.call = "recover" /\ task'.at = "replay" /\ task'.todo = Pending /\ task'.fixed = task.fixed
    BY <1>1, <1>2, <1>4 DEF TypeOK, Tasks
  <2>2. Open \subseteq Pending
    BY <1>1, NothingOpen DEF Pending, Open, Kept
  <2>3. StepsHold'
    BY <2>1 DEF StepsHold
  <2>4. EngineHolds'
    BY <1>1, <1>2, <2>1 DEF EngineHolds
  <2>5. DirHolds'
    BY <1>1, <1>2, <2>1 DEF DirHolds, AppendSteps, Pending
  <2>6. DshHolds'
    BY <1>1, <1>2, <2>1 DEF DshHolds, Closing, Alive
  <2>7. CallHolds' /\ AppendHolds'
    BY <2>1 DEF CallHolds, AppendHolds, AppendSteps
  <2>8. \A id \in Pending : wal[id].state \in {"pending", "applied", "committed"}
    BY DEF Pending
  <2> QED BY <1>1, <1>4, <2>1, <2>2, <2>3, <2>4, <2>5, <2>6, <2>7, <2>8, TaskGoesOn
          DEF ReplayHolds, PhasesHold, AppendSteps
<1> QED BY <1>3, <1>4 DEF SupersedeStalePending

(***************************************************************************)
(* The answer, the dashboard, the beginning                                *)
(***************************************************************************)
\* The plugin is told; nothing else that lasts changes.
LEMMA ToldData ==
    ASSUME RunInv, TypeInv', UNCHANGED <<wal, mapping, receipts, canon, dsh, file>>,
           mapping.base # 0, task'.call = "none", Open = {}, plugin'.batch = NoOp,
           plugin'.acked <= Held, Held <= plugin'.acked, plugin'.base # 0,
           Anchored(mapping.logical, mapping.base, plugin'.acked),
           mapping.logical = plugin'.logical, mapping.base = plugin'.base
    PROVE  DataInv' /\ Open' = {}
<1>1. /\ TypeOK /\ TypeOK' /\ HistoriesHold /\ ReceiptsHold /\ MappingHolds /\ QueueHolds /\ LogHolds
      /\ OpenHolds
  BY DEF RunInv, TypeInv, DataInv
<1>2. Held' = Held /\ Codex' = Codex
  BY HeldSame
<1>3. /\ Open' = Open
      /\ \A id : Receipted(id)' = Receipted(id) /\ Lags(id)' = Lags(id)
  BY OpenSame
<1>4. \A l, base, n : Anchored(l, base, n)' <=> Anchored(l, base, n)
  BY AnchoredSame
<1>5. \A op : GoodOp(op)' <=> GoodOp(op)
  BY <1>4 DEF GoodOp
<1>6. \A l : Proper(l)' = Proper(l)
  BY <1>2 DEF Proper, Exists
<1>7. HistoriesHold' /\ ReceiptsHold' /\ MappingHolds'
  BY <1>1, <1>2, <1>3, <1>4, <1>6 DEF HistoriesHold, ReceiptsHold, MappingHolds, Exists
<1>8. QueueHolds'
  BY <1>1, <1>2, <1>4 DEF QueueHolds
<1>9. LogHolds' /\ OpenHolds'
  BY <1>1, <1>2, <1>3, <1>5 DEF LogHolds, OpenHolds
<1>10. PluginAgrees'
  <2>1. ~Taken'
    BY DEF Taken
  <2> QED BY <1>2, <2>1 DEF PluginAgrees
<1> QED BY <1>3, <1>7, <1>8, <1>9, <1>10 DEF DataInv

LEMMA ReplyKeeps == ASSUME RunInv, TypeInv', Reply PROVE RunInv'
<1>1. /\ TypeOK /\ TypeOK' /\ HistoriesHold /\ ReceiptsHold /\ MappingHolds /\ QueueHolds /\ LogHolds
      /\ OpenHolds /\ PluginAgrees /\ StepsHold /\ EngineHolds /\ DirHolds /\ DshHolds /\ ReplayHolds
      /\ CallHolds /\ AppendHolds
      /\ task.at = "done" /\ task.call \in {"register", "append"} /\ task' = NoTask
      /\ UNCHANGED <<row, dir, checkpoint, file, wal, mapping, receipts, canon, engine, ctx, dsh>>
  BY DEF RunInv, TypeInv, TaskInv, DataInv, PhasesHold, Reply, At, files, tables, memory
<1>2. ctx.map = mapping /\ dir = "whole" /\ mapping.base # 0
  BY <1>1 DEF EngineHolds, DirHolds, CallHolds
<1>3. task'.call = "none" /\ task'.at = "none" /\ task'.todo = {}
  BY <1>1 DEF NoTask
<1>4. ASSUME DataInv', plugin'.acked = plugin.acked \/ ~engine.drained
      PROVE  RunInv'
  <2>1. EngineHolds'
    BY <1>1, <1>3 DEF EngineHolds
  <2>2. DirHolds'
    BY <1>1, <1>2, <1>3 DEF DirHolds, AppendSteps
  <2>3. DshHolds'
    BY <1>1, <1>2, <1>3, <1>4 DEF DshHolds, Closing, Alive
  <2>4. ReplayHolds'
    BY <1>1, <1>2, NoTaskReplays
  <2> QED BY <1>1, <1>4, <2>1, <2>2, <2>3, <2>4, NoTaskFits DEF RunInv, TaskInv, PhasesHold
<1>5. CASE ~Alive
  <2>1. plugin' = plugin
    BY <1>5 DEF Reply
  <2>2. DataInv'
    BY <1>1, <1>3, <2>1, QuietData
  <2> QED BY <1>4, <2>1, <2>2
<1>6. CASE Alive /\ task.call = "register"
  <2>1. plugin' = [plugin EXCEPT !.logical = mapping.logical, !.base = mapping.base]
    BY <1>2, <1>6 DEF Reply
  <2>2. /\ plugin'.acked = plugin.acked /\ plugin'.batch = plugin.batch
        /\ plugin'.logical = mapping.logical /\ plugin'.base = mapping.base
    BY <1>1, <2>1 DEF TypeOK, Queues
  <2>3. plugin.base = 0 /\ plugin.acked = 0 /\ plugin.batch = NoOp
    BY <1>1, <1>6 DEF CallHolds, QueueHolds
  <2>4. Held = 0 /\ mapping.rev = 0
    <3>1. Held <= 0
      BY <1>1, <1>6, <2>3 DEF PluginAgrees, Taken
    <3>2. Held \in Nat /\ mapping.rev \in Nat
      BY <1>1, Shapes
    <3> QED BY <1>1, <3>1, <3>2 DEF MappingHolds
  <2>5. Open = {}
    BY <1>1, <1>6, <2>3 DEF OpenHolds, Open, Kept, NoOp, OpIds, LiveId, TailId, Root, Alive
  <2>6. Anchored(mapping.logical, mapping.base, 0)
    BY <1>1, <1>2, <2>4 DEF MappingHolds
  <2>7. DataInv'
    BY <1>1, <1>2, <1>3, <2>2, <2>3, <2>4, <2>5, <2>6, ToldData
  <2> QED BY <1>4, <2>2, <2>7
<1>7. CASE Alive /\ task.call = "append"
  <2> SUFFICES ASSUME NEW i, i = task.op.id PROVE RunInv'
    OBVIOUS
  <2>1. /\ plugin.batch = task.op /\ plugin.batch # NoOp /\ i \in OpIds /\ GoodOp(task.op) /\ task.op \in Ops
        /\ Done(i) /\ i[3] = task.op.hi
    BY <1>1, <1>7, NameTells, Shapes DEF CallHolds, AppendHolds
  <2>2. plugin' = [acked |-> task.op.hi, batch |-> NoOp, logical |-> receipts[i].logical,
                   base |-> receipts[i].version]
    BY <1>7 DEF Reply, AckedBy
  <2>3. /\ Receipted(i) /\ receipts[i].rev = task.op.hi /\ receipts[i].rev \in 1..Held
        /\ receipts[i].rev <= mapping.rev /\ mapping.rev <= Held
    <3>1. receipts[i].rev \in Nat /\ mapping.rev \in Nat
      BY <1>1, <2>1, Shapes
    <3> QED BY <1>1, <2>1, <3>1 DEF Done, Lags, ReceiptsHold, MappingHolds
  <2>4. Held <= task.op.hi /\ mapping.last = i
    <3>1. Taken
      BY <2>1, <2>3 DEF Taken
    <3>2. Held <= task.op.hi /\ (mapping.rev >= task.op.hi => mapping.last = i)
      BY <1>1, <1>7, <2>1, <3>1 DEF PluginAgrees
    <3>3. mapping.rev >= task.op.hi
      BY <1>1, <2>3, Shapes
    <3> QED BY <3>2, <3>3
  <2>5. /\ receipts[i].logical = mapping.logical /\ receipts[i].version = mapping.base
        /\ receipts[i].rev = mapping.rev
    <3>1. i # Root
      BY <2>1 DEF OpIds, LiveId, TailId, Root
    <3> QED BY <1>1, <2>4, <3>1 DEF MappingHolds
  <2>6. Open = {}
    <3> SUFFICES ASSUME NEW id \in Open PROVE FALSE
      OBVIOUS
    <3>1. id = i
      BY <1>1, <1>7, <2>1 DEF OpenHolds, Alive
    <3> QED BY <2>1, <3>1 DEF Open, Done
  <2>7. task.op.hi <= Held
    BY <2>3, Shapes, <1>1
  <2>8. DataInv'
    <3>1. Anchored(mapping.logical, mapping.base, task.op.hi)
      BY <1>1, <1>2, <2>3, <2>5 DEF MappingHolds
    <3> QED BY <1>1, <1>2, <1>3, <2>2, <2>4, <2>5, <2>6, <2>7, <3>1, ToldData
  <2>9. ~engine.drained
    <3>1. task.op.lo = plugin.acked /\ task.op.lo < task.op.hi /\ task.op.hi <= dsh.emitted
          /\ task.op.lo \in Nat /\ task.op.hi \in Nat /\ dsh.emitted \in Nat
      <4>1. task.op.lo = plugin.acked
        BY <1>1, <2>1 DEF QueueHolds
      <4>2. task.op.lo \in Nat /\ task.op.hi \in Nat /\ dsh.emitted \in Nat
        BY SMTT(60), <1>1, <2>1, Shapes DEF Ops
      <4> QED BY <2>1, <4>1, <4>2 DEF GoodOp
    <3> QED BY <1>1, <3>1 DEF DshHolds
  <2> QED BY <1>4, <2>8, <2>9
<1> QED BY <1>1, <1>5, <1>6, <1>7

\* A command makes a new version of the same body, or marks the session.
LEMMA CommandBodies == ASSUME TypeOK, Command PROVE BodiesStay
<1>1. TypeOK
  OBVIOUS
<1>2. PICK l \in Logicals : Exists(l) /\ (EditMetadata(l) \/ DeleteSession(l) \/ RestoreSession(l))
  BY DEF Command
<1>3. /\ canon'[l].version \in {canon[l].version, canon[l].version + 1}
      /\ canon'[l].body = canon[l].body /\ canon'[l].scope = canon[l].scope
      /\ \A k \in Logicals : k # l => canon'[k] = canon[k]
  <2>1. canon \in [Logicals -> Sessions] /\ canon[l] \in Sessions
    BY <1>1 DEF TypeOK
  <2>2. canon' \in {[canon EXCEPT ![l].version = canon[l].version + 1],
                    [canon EXCEPT ![l].gone = TRUE], [canon EXCEPT ![l].gone = FALSE]}
    BY <1>2 DEF EditMetadata, DeleteSession, RestoreSession
  <2>3. canon'[l] \in {[canon[l] EXCEPT !.version = canon[l].version + 1],
                       [canon[l] EXCEPT !.gone = TRUE], [canon[l] EXCEPT !.gone = FALSE]}
        /\ \A k \in Logicals : k # l => canon'[k] = canon[k]
    BY <2>1, <2>2
  <2> QED BY <2>1, <2>3 DEF Sessions
<1> QED
  <2>1. \A k \in Logicals : canon[k].version \in Nat
    BY <1>1, Shapes
  <2>2. Grows
    BY <1>3, <2>1 DEF Grows
  <2>3. \A k \in Logicals : Exists(k)' <=> Exists(k)
    BY <1>2, <1>3, <2>1 DEF Exists
  <2>4. \A k \in Logicals : canon'[k].body = canon[k].body
    BY <1>3
  <2> QED BY <2>2, <2>3, <2>4, Names DEF BodiesStay

LEMMA CommandKeeps == ASSUME RunInv, TypeInv', Command PROVE RunInv'
<1>1. /\ TypeOK /\ TypeOK' /\ StepsHold /\ PhasesHold /\ task = NoTask
      /\ UNCHANGED <<row, dir, checkpoint, file, wal, mapping, receipts, engine, ctx, task, dsh, plugin>>
  BY DEF RunInv, TypeInv, TaskInv, Command, Idle, files, memory
<1>4. BodiesStay
  BY <1>1, CommandBodies
<1>5. DataInv' /\ Open' = Open
  BY <1>1, <1>4, BodiesStayData
<1>6. StepsHold' /\ PhasesHold'
  BY <1>1 DEF StepsHold, PhasesHold, EngineHolds, DirHolds, DshHolds, Alive
<1>7. ReplayHolds'
  BY <1>1, <1>5, NoTaskReplays, NothingOpen
<1> QED BY <1>1, <1>5, <1>6, <1>7, NoTaskFits DEF RunInv, TaskInv

LEMMA InitKeeps == Init => RunInv
<1> SUFFICES ASSUME Init PROVE RunInv
  OBVIOUS
<1>1. TypeInv /\ TypeOK
  BY InitType DEF TypeInv
<1>2. PICK kind \in Kinds :
         LET known == kind # "live"
             scope == IF kind = "codex" THEN "codex" ELSE "maintenance"
             first == [NoMapping EXCEPT !.base = IF known THEN 1 ELSE 0]
         IN /\ file = [there |-> known, torn |-> FALSE, events |-> 0,
                       logical |-> Root, base |-> first.base]
            /\ mapping = first
            /\ canon = [l \in Logicals |-> IF l = Root /\ known
                            THEN [NoSession EXCEPT !.version = 1, !.scope = scope]
                            ELSE NoSession]
            /\ ctx = [NoContext EXCEPT !.where = "prepared", !.map = first,
                                       !.codex = (scope = "codex")]
            /\ plugin = [acked |-> 0, batch |-> NoOp, logical |-> Root, base |-> first.base]
  BY DEF Init
<1>3. /\ dir = "whole" /\ row = "preparing" /\ task = NoTask
      /\ wal = [id \in OpIds |-> [state |-> "none", op |-> NoOp]]
      /\ receipts = [id \in OpIds |-> NoReceipt]
      /\ engine = [up |-> TRUE, known |-> "prepared", drained |-> FALSE]
      /\ dsh = [state |-> "starting", emitted |-> 0, log |-> 0]
  BY DEF Init
<1>4. /\ mapping.logical = Root /\ mapping.rev = 0 /\ mapping.last = Root
      /\ mapping.base = IF kind # "live" THEN 1 ELSE 0
      /\ mapping.base = 0 => mapping = NoMapping
      /\ plugin.base = mapping.base /\ plugin.acked = 0 /\ plugin.batch = NoOp /\ plugin.logical = Root
      /\ file.events = 0
      /\ ctx.where = "prepared" /\ ctx.map = mapping /\ ~ctx.bridge
  BY <1>2 DEF NoMapping, NoContext
<1>5. /\ \A l \in Logicals : canon[l].body = <<>>
      /\ \A id \in OpIds : canon[id].version = 0 /\ canon[id].scope = "maintenance"
      /\ canon[Root].version = IF kind # "live" THEN 1 ELSE 0
      /\ canon[Root].scope = "codex" => kind # "live"
  <2>1. \A id \in OpIds : id # Root
    BY DEF OpIds, LiveId, TailId, Root
  <2> QED BY <1>2, <2>1, Names DEF NoSession
<1>6. /\ \A id \in OpIds : wal[id].state = "none" /\ ~Receipted(id) /\ ~Exists(id)
  BY <1>3, <1>5 DEF Receipted, NoReceipt, Exists
<1>7. Held = 0
  BY <1>1, <1>5, Shapes DEF Held, History
<1>8. Open = {}
  BY <1>6 DEF Open, Kept
<1>9. HistoriesHold
  <2>1. FirstEvents(0) = <<>>
    BY DEF FirstEvents
  <2> QED BY <1>3, <1>5, <1>6, <1>7, <2>1, Names DEF HistoriesHold, Codex, Exists
<1>10. ReceiptsHold /\ LogHolds
  BY <1>6 DEF ReceiptsHold, LogHolds
<1>11. mapping.base # 0 => Anchored(Root, mapping.base, 0)
  BY <1>4, <1>5, Names DEF Anchored
<1>12. MappingHolds
  BY <1>4, <1>5, <1>6, <1>7, <1>11 DEF MappingHolds, Codex
<1>13. QueueHolds
  BY <1>4, <1>7, <1>11 DEF QueueHolds
<1>14. OpenHolds /\ PluginAgrees
  BY <1>4, <1>7, <1>8 DEF OpenHolds, PluginAgrees, Taken
<1>15. task.call = "none" /\ task.at = "none" /\ task.todo = {} /\ task.fixed = 0
  BY <1>3 DEF NoTask
<1>16. StepsHold
  BY <1>3, <1>15 DEF StepsHold
<1>17. EngineHolds
  BY <1>3, <1>4, <1>15 DEF EngineHolds
<1>18. DirHolds
  BY <1>3, <1>15 DEF DirHolds, AppendSteps
<1>19. DshHolds
  BY <1>3, <1>15 DEF DshHolds, Closing, Alive
<1>20. CallHolds /\ AppendHolds
  BY <1>15 DEF CallHolds, AppendHolds, AppendSteps
<1>21. ReplayHolds
  BY <1>3, <1>4, <1>15 DEF ReplayHolds
<1> QED BY <1>1, <1>9, <1>10, <1>12, <1>13, <1>14, <1>16, <1>17, <1>18, <1>19, <1>20, <1>21
        DEF RunInv, DataInv, TaskInv, PhasesHold

LEMMA RunStep == RunInv /\ [Next]_vars => RunInv'
<1> SUFFICES ASSUME RunInv, [Next]_vars PROVE RunInv'
  OBVIOUS
<1>1. TypeInv'
  BY TypeStep DEF RunInv
<1>2. CASE EngineStep
  BY <1>1, <1>2, WriteRegistrationKeeps, ImportNativeKeeps, RebaseRegistrationKeeps,
     MapRegistrationKeeps, LookUpKeeps, PutPendingKeeps, ApplyAppendKeeps,
     MarkProjectionAppliedKeeps, AppendDshKeeps, SwitchKeeps, UpsertKeeps, MarkCommittedKeeps,
     ReplyKeeps, NextRecordKeeps, BeginCloseKeeps, BeginRecoverKeeps, RestoreContextKeeps,
     AdoptKeeps, SupersedeKeeps, ListPendingKeeps, ListTornKeeps, ReplayPendingKeeps,
     RecoverTailKeeps, CheckpointKeeps, RemoveKeeps, FinishRunKeeps
     DEF EngineStep
<1>3. CASE IoError \/ Crash
  BY <1>1, <1>3, IoErrorKeeps, CrashKeeps
<1>4. CASE Restart \/ AttachRun \/ Emit \/ Persist \/ StartDrain \/ DrainRun \/ Exit
  BY <1>1, <1>4, SurroundingsKeep DEF Surroundings
<1>5. CASE SendRegister \/ SendAppend \/ AskClose \/ AskRecover \/ Command
  BY <1>1, <1>5, SendRegisterKeeps, SendAppendKeeps, AskKeeps, CommandKeeps
<1>6. CASE UNCHANGED vars
  <2>1. UNCHANGED <<row, dir, checkpoint, file, wal, mapping, receipts, canon, engine, ctx, task, dsh, plugin>>
    BY <1>6 DEF vars
  <2>2. DataInv' /\ Open' = Open /\ Held' = Held
    BY <1>1, <2>1, QuietData
  <2>3. StepsHold' /\ PhasesHold'
    BY <2>1 DEF RunInv, TaskInv, StepsHold, PhasesHold, EngineHolds, DirHolds, DshHolds, Alive
  <2>4. CallHolds' /\ AppendHolds' /\ ReplayHolds'
    <3>1. TypeOK /\ TypeOK' /\ file'.events >= file.events /\ dsh'.emitted >= dsh.emitted
      BY <1>1, <2>1, Shapes DEF RunInv, TypeInv
    <3>2. Still
      BY <2>1, <3>1 DEF Still, Alive
    <3> QED BY <2>1, <3>1, <3>2, TaskStill DEF RunInv, TaskInv
  <2> QED BY <1>1, <2>2, <2>3, <2>4 DEF RunInv, TaskInv
<1> QED BY <1>2, <1>3, <1>4, <1>5, <1>6 DEF Next

(***************************************************************************)
(* What every run promises                                                 *)
(***************************************************************************)
LEMMA RunSafe == Spec => []RunInv
BY InitKeeps, RunStep, PTL DEF Spec

\* The history of the run is never anything but the first events, once each.
LEMMA TheHistory ==
    ASSUME TypeOK, HistoriesHold
    PROVE  History = FirstEvents(Held) /\ Held <= dsh.emitted
BY Shapes DEF HistoriesHold, Held, History

LEMMA HistoryKept ==
    ASSUME RunInv, RunInv', Held' = Held
    PROVE  History' = History
<1>1. History = FirstEvents(Held)
  BY TheHistory DEF RunInv, TypeInv, DataInv
<1>2. Heir' \in Logicals
  BY HeldNext DEF RunInv, TypeInv
<1>3. History' = FirstEvents(Held')
  BY <1>2 DEF RunInv, DataInv, HistoriesHold, Held, History
<1> QED BY <1>1, <1>3

\* A mirror derives at most one session, and never receives an event itself.
THEOREM OneSession == Spec => []OneDerivedSession
<1>1. RunInv => OneDerivedSession
  BY DEF RunInv, DataInv, HistoriesHold, OneDerivedSession, Codex
<1> QED BY <1>1, RunSafe, PTL

\* Intent, file, canonical commit, mapping: whatever dies or fails in between, the
\* file holds every canonical event, a mapping agrees with its receipt, and a record
\* marked committed has one.
THEOREM WriteAhead == Spec => []WriteAheadOrder
<1>1. RunInv => WriteAheadOrder
  BY DEF RunInv, DataInv, OpenHolds, MappingHolds, LogHolds, Held, WriteAheadOrder
<1> QED BY <1>1, RunSafe, PTL

(***************************************************************************)
(* Recovery material                                                       *)
(***************************************************************************)
\* Only recovery takes a record out of the log, and only the removal of the
\* directory, whole or interrupted, changes the directory.
LEMMA LogAndDirectory ==
    ASSUME RunInv, [Next]_vars
    PROVE  \/ /\ dir' = dir
              /\ \A id \in OpIds : wal'[id].state = "none" => wal[id].state = "none"
           \/ task.at = "remove" /\ wal' = wal
           \/ /\ task.at = "supersede" /\ dir' = dir
              /\ \E i \in Stale : wal' = [wal EXCEPT ![i].state = "none"]
<1> DEFINE Stays == dir' = dir /\ \A id \in OpIds : wal'[id].state = "none" => wal[id].state = "none"
<1>1. wal \in [OpIds -> Records] /\ task \in Tasks
  BY DEF RunInv, TypeInv, TypeOK
<1>2. dir' = dir /\ wal' = wal => Stays
  OBVIOUS
<1>3. \A c : Fails(c) => Stays
  BY <1>2 DEF Fails, files
<1>4. CASE Damage
  <2>1. CASE task.at = "put" /\ wal' = [wal EXCEPT ![task.op.id].state = "torn"] /\ UNCHANGED <<dir, file>>
    <3> SUFFICES ASSUME NEW i, i = task.op.id PROVE Stays
      OBVIOUS
    <3>1. \A id \in OpIds : id # i => wal'[id] = wal[id]
      BY <1>1, <2>1
    <3>2. i \in OpIds => wal'[i].state = "torn"
      BY <1>1, <2>1 DEF Records
    <3> QED BY <2>1, <3>1, <3>2
  <2> QED BY <1>2, <1>4, <2>1 DEF Damage
<1>5. CASE WriteRegistration \/ ImportNative \/ RebaseRegistration \/ MapRegistration
  BY <1>2, <1>3, <1>5 DEF WriteRegistration, ImportNative, RebaseRegistration, MapRegistration, files
<1>6. CASE LookUp \/ ApplyAppend \/ AppendDsh \/ SwitchLogicalSession \/ UpsertProjectionSession
  BY <1>2, <1>3, <1>6 DEF LookUp, ApplyAppend, AppendDsh, SwitchLogicalSession, UpsertProjectionSession,
     files
<1>7. CASE PutPending \/ MarkProjectionApplied \/ MarkCommitted
  <2> SUFFICES ASSUME NEW i, i = task.op.id PROVE Stays
    OBVIOUS
  <2>1. dir' = dir
    BY <1>7 DEF PutPending, MarkProjectionApplied, MarkCommitted
  <2>2. \E r : wal' = [wal EXCEPT ![i] = r] /\ (i \in OpIds /\ r.state = "none" => wal[i].state = "none")
    <3>1. CASE PutPending
      <4> DEFINE r == [state |-> "pending", op |-> task.op]
      <4>1. wal' = [wal EXCEPT ![i] = r] /\ r.state # "none"
        BY <3>1 DEF PutPending
      <4> HIDE DEF r
      <4> QED BY <4>1
    <3>2. CASE MarkProjectionApplied
      <4>1. wal' = [wal EXCEPT ![i] = [wal[i] EXCEPT !.state = "applied"]]
        BY <3>2 DEF MarkProjectionApplied
      <4>2. i \in OpIds => [wal[i] EXCEPT !.state = "applied"].state = "applied"
        BY <1>1 DEF Records
      <4> QED BY <4>1, <4>2
    <3>3. CASE MarkCommitted
      <4> DEFINE r == [wal[i] EXCEPT !.state = IF wal[i].state = "applied" THEN "committed" ELSE wal[i].state]
      <4>1. wal' = [wal EXCEPT ![i] = r]
        BY <3>3 DEF MarkCommitted
      <4>2. i \in OpIds => r.state = (IF wal[i].state = "applied" THEN "committed" ELSE wal[i].state)
        BY <1>1 DEF Records
      <4> HIDE DEF r
      <4> QED BY <4>1, <4>2
    <3> QED BY <1>7, <3>1, <3>2, <3>3
  <2>3. PICK r : wal' = [wal EXCEPT ![i] = r] /\ (i \in OpIds /\ r.state = "none" => wal[i].state = "none")
    BY <2>2
  <2>4. \A id \in OpIds : id # i => wal'[id] = wal[id]
    BY <1>1, <2>3
  <2>5. i \in OpIds => wal'[i] = r
    BY <1>1, <2>3
  <2> QED BY <2>1, <2>3, <2>4, <2>5
<1>8. CASE Reply \/ NextRecord \/ BeginClose \/ BeginRecover \/ RestoreContext \/ AdoptRegistration
           \/ ListPending \/ ListTorn \/ ReplayPending \/ RecoverTail \/ CheckpointAndDetach \/ FinishRun
  BY <1>2, <1>3, <1>8 DEF Reply, NextRecord, BeginClose, BeginRecover, RestoreContext, AdoptRegistration,
     ListPending, ListTorn, ReplayPending, RecoverTail, CheckpointAndDetach, FinishRun, files
<1>9. CASE SupersedeStalePending
  BY <1>2, <1>9 DEF SupersedeStalePending, At
<1>10. CASE RemoveProjectionRun
  BY <1>10 DEF RemoveProjectionRun, At, Fails, files
<1>11. CASE IoError \/ Crash
  <2>1. Damage
    BY <1>11 DEF IoError, Crash
  <2>2. task.at = "remove" => wal' = wal
    BY <2>1 DEF Damage
  <2> QED BY <1>4, <2>1
<1>12. CASE \/ Restart \/ AttachRun \/ Emit \/ Persist \/ StartDrain \/ DrainRun \/ Exit
            \/ SendRegister \/ SendAppend \/ AskClose \/ AskRecover \/ Command
  BY <1>2, <1>12 DEF Restart, AttachRun, Emit, Persist, StartDrain, DrainRun, Exit, SendRegister,
     SendAppend, AskClose, AskRecover, Command, files
<1>13. CASE UNCHANGED vars
  BY <1>2, <1>13 DEF vars
<1> QED BY <1>5, <1>6, <1>7, <1>8, <1>9, <1>10, <1>11, <1>12, <1>13 DEF Next, EngineStep

\* A record is set aside and the directory removed only when every operation they
\* would be needed for is canonical, and the directory only after its checkpoint.
THEOREM Material == Spec => MaterialKept
<1> DEFINE Step == /\ \A id \in OpIds :
                         /\ wal[id].state \in {"pending", "applied"}
                         /\ wal'[id].state = "none" \/ dir # dir'
                         => Receipted(id)
                   /\ dir # dir' => checkpoint
<1>1. RunInv /\ [Next]_vars => Step
  <2> SUFFICES ASSUME RunInv, [Next]_vars PROVE Step
    OBVIOUS
  <2>1. CASE /\ dir' = dir
             /\ \A id \in OpIds : wal'[id].state = "none" => wal[id].state = "none"
    BY <2>1
  <2>2. CASE task.at = "remove" /\ wal' = wal
    <3>1. Open = {} /\ checkpoint
      BY <2>2, NothingOpen DEF RunInv, TaskInv, PhasesHold, DirHolds
    <3> QED BY <2>2, <3>1 DEF Open, Kept
  <2>3. CASE /\ task.at = "supersede" /\ dir' = dir
             /\ \E i \in Stale : wal' = [wal EXCEPT ![i].state = "none"]
    <3>1. PICK i \in Stale : wal' = [wal EXCEPT ![i].state = "none"]
      BY <2>3
    <3>2. Receipted(i)
      BY <2>3, StaleIsDone DEF Done
    <3>3. \A id \in OpIds : id # i => wal'[id] = wal[id]
      BY <3>1 DEF RunInv, TypeInv, TypeOK
    <3> QED BY <2>3, <3>2, <3>3
  <2> QED BY <2>1, <2>2, <2>3, LogAndDirectory
<1> QED BY <1>1, RunSafe, PTL DEF Spec, MaterialKept

(***************************************************************************)
(* The run implements AppendOnce                                           *)
(***************************************************************************)
\* Nothing that AppendOnce speaks of changes.
Unseen == UNCHANGED <<dsh.emitted, dsh.log, History, plugin.acked, dir # "whole">>

LEMMA BeginsAppendOnce == Init => Abstract!Init
<1> SUFFICES ASSUME Init PROVE Abstract!Init
  OBVIOUS
<1>1. /\ dsh.emitted = 0 /\ dsh.log = 0 /\ dir = "whole" /\ plugin.acked = 0
  BY DEF Init
<1>2. TypeOK /\ \A l \in Logicals : canon[l].body = <<>>
  <2>1. TypeOK
    BY InitType DEF TypeInv
  <2>2. PICK kind \in Kinds :
           canon = [l \in Logicals |-> IF l = Root /\ kind # "live"
                       THEN [NoSession EXCEPT !.version = 1,
                                !.scope = IF kind = "codex" THEN "codex" ELSE "maintenance"]
                       ELSE NoSession]
    BY DEF Init
  <2> QED BY <2>1, <2>2 DEF NoSession
<1>3. History = <<>>
  BY <1>2, Shapes DEF History
<1> QED BY <1>1, <1>3 DEF Abstract!Init

\* DSH writes into a directory that is whole.
LEMMA DshWrites ==
    ASSUME RunInv, RunInv', Emit \/ Persist \/ StartDrain
    PROVE  Abstract!Write
<1>1. /\ dsh \in Processes /\ dsh.log <= dsh.emitted /\ Alive /\ dir = "whole"
      /\ UNCHANGED <<dir, canon, plugin>>
  BY DEF RunInv, TypeInv, TypeOK, TaskInv, PhasesHold, DshHolds, Emit, Persist, StartDrain, Alive,
     files, tables
<1>2. History' = History
  BY <1>1, HeldSame DEF History
<1>3. dsh.emitted \in Nat /\ dsh.log \in Nat
  BY <1>1 DEF Processes
<1>4. /\ dsh'.emitted \in {dsh.emitted, dsh.emitted + 1}
      /\ dsh'.log \in dsh.log..dsh'.emitted
  <2>1. CASE Emit
    <3>1. PICK stored \in {dsh.emitted + 1, dsh.log} :
             dsh' = [dsh EXCEPT !.emitted = dsh.emitted + 1, !.log = stored]
      BY <2>1 DEF Emit
    <3>2. dsh'.emitted = dsh.emitted + 1 /\ dsh'.log = stored
      BY <1>1, <3>1 DEF Processes
    <3> QED BY <1>1, <1>3, <3>2
  <2>2. CASE Persist \/ StartDrain
    <3>1. dsh'.emitted = dsh.emitted /\ dsh'.log = dsh.emitted
      BY <1>1, <2>2 DEF Persist, StartDrain, Processes
    <3> QED BY <1>1, <1>3, <3>1
  <2> QED BY <2>1, <2>2
<1> QED BY <1>1, <1>2, <1>4 DEF Abstract!Write

LEMMA AppendCommits ==
    ASSUME RunInv, RunInv', AppendDsh
    PROVE  Abstract!Commit \/ Unseen
<1>1. task.at = "commit" /\ engine.up /\ TypeInv'
  BY DEF AppendDsh, At, RunInv
<1>2. CASE Fails(FALSE)
  <2>1. UNCHANGED <<dsh, canon, plugin, dir>>
    BY <1>2 DEF Fails, files
  <2> QED BY <2>1, HeldSame DEF Unseen, History
<1>3. CASE Accepted /\ Committed
  <2>1. UNCHANGED <<dsh, plugin, dir>>
    BY <1>3 DEF Committed, files, outside
  <2>2. /\ canon'[Heir'].body = FirstEvents(task.op.hi)
        /\ Held < task.op.hi
    BY <1>1, <1>3, CommittedTables
  <2>3. dir = "whole" /\ task.op.hi <= dsh.emitted /\ task.op \in Ops
    <3>1. StepsHold /\ DirHolds /\ CallHolds /\ TypeOK
      BY DEF RunInv, TypeInv, TaskInv, PhasesHold
    <3>2. task.at \in AppendSteps /\ task.call \in {"append", "close", "recover"}
      BY <1>1, <3>1, AppendingNow DEF AppendSteps, RunInv, Appends
    <3> QED BY <1>1, <3>1, <3>2, Shapes DEF DirHolds, CallHolds, GoodOp
  <2>4. History' = Abstract!FirstEvents(task.op.hi)
    BY <2>2 DEF History, FirstEvents, Abstract!FirstEvents
  <2>5. task.op.hi \in (Len(History) + 1)..dsh.emitted
    <3>1. task.op.hi \in Nat /\ Held \in Nat /\ dsh.emitted \in Nat
      <4>1. TypeOK
        BY DEF RunInv, TypeInv
      <4>2. Held \in Nat /\ dsh.emitted \in 0..MaxEvents
        BY <4>1, Shapes
      <4>3. task.op.hi \in 0..MaxEvents
        BY <2>3 DEF Ops
      <4> QED BY <4>2, <4>3
    <3> QED BY <2>2, <2>3, <3>1 DEF Held
  <2> QED BY <2>1, <2>3, <2>4, <2>5 DEF Abstract!Commit
<1> QED BY <1>1, <1>2, <1>3 DEF AppendDsh, Accepted, Committed, Target

LEMMA ReplyAcknowledges ==
    ASSUME RunInv, RunInv', Reply
    PROVE  Abstract!Acknowledge \/ Unseen
<1>1. /\ TypeOK /\ plugin \in Queues /\ UNCHANGED <<dsh, canon, dir>>
      /\ task.at = "done" /\ task.call \in {"append", "register"}
  BY DEF Reply, At, RunInv, TypeInv, TypeOK, files, tables
<1>2. History' = History
  BY <1>1, HeldSame DEF History
<1>3. CASE ~Alive \/ task.call = "register"
  <2>1. plugin'.acked = plugin.acked
    BY <1>1, <1>3 DEF Reply, Queues
  <2> QED BY <1>1, <1>2, <2>1 DEF Unseen
<1>4. CASE Alive /\ task.call = "append"
  <2>1. plugin'.acked = task.op.hi
    BY <1>4 DEF Reply, AckedBy
  <2>2. task.op \in Ops /\ task.op.lo < task.op.hi /\ task.op.lo = plugin.acked
    BY <1>1, <1>4, Shapes DEF RunInv, DataInv, TaskInv, CallHolds, QueueHolds, GoodOp
  <2>3. plugin'.acked <= Held' /\ Held' = Held /\ Held \in Nat
    BY <1>1, HeldSame, Shapes DEF RunInv, DataInv, QueueHolds
  <2>4. plugin.acked \in Nat /\ task.op.hi \in Nat
    BY <1>1, <2>2 DEF Queues, Ops
  <2>5. plugin'.acked \in (plugin.acked + 1)..Len(History)
    BY <2>1, <2>2, <2>3, <2>4 DEF Held
  <2> QED BY <1>1, <1>2, <2>5 DEF Abstract!Acknowledge
<1> QED BY <1>1, <1>3, <1>4

\* Every other step keeps the history and, but for the removal, the directory.
LEMMA NothingSeen ==
    ASSUME RunInv, RunInv', Held' = Held, dir' = dir,
           UNCHANGED <<dsh.emitted, dsh.log, plugin.acked>>
    PROVE  Unseen
BY HistoryKept DEF Unseen

LEMMA RemovalFinishes ==
    ASSUME RunInv, RunInv', UNCHANGED <<dsh, plugin, canon>>,
           dir' = dir \/ (task.at = "remove" /\ dir' \in {"partial", "gone"})
    PROVE  Abstract!Finish \/ Unseen
<1>1. History' = History
  BY HeldSame DEF History
<1>2. CASE dir' = dir
  BY <1>1, <1>2 DEF Unseen
<1>3. CASE task.at = "remove" /\ dir' \in {"partial", "gone"}
  <2>1. dsh.log <= Len(History)
    BY <1>3 DEF RunInv, TaskInv, ReplayHolds, Held
  <2> QED BY <1>1, <1>3, <2>1 DEF Abstract!Finish
<1> QED BY <1>2, <1>3

LEMMA StepImplements ==
    ASSUME RunInv, RunInv', [Next]_vars
    PROVE  [Abstract!Next]_(Abstract!vars)
<1> SUFFICES Abstract!Write \/ Abstract!Commit \/ Abstract!Acknowledge \/ Abstract!Finish \/ Unseen
  BY DEF Abstract!Next, Abstract!vars, Unseen
<1>1. TypeOK /\ HistoriesHold /\ TypeInv'
  BY DEF RunInv, TypeInv, DataInv
<1>2. UNCHANGED <<dsh, plugin, canon, dir>> => Unseen
  BY HeldSame DEF Unseen, History
<1>3. \A c : Fails(c) => UNCHANGED <<dsh, plugin, canon, dir>>
  BY DEF Fails, files
<1>4. CASE Emit \/ Persist \/ StartDrain
  BY <1>4, DshWrites
<1>5. CASE AppendDsh
  BY <1>5, AppendCommits
<1>6. CASE Reply
  BY <1>6, ReplyAcknowledges
<1>7. CASE RemoveProjectionRun \/ IoError \/ Crash
  <2>1. CASE RemoveProjectionRun
    <3>1. UNCHANGED <<dsh, plugin, canon>> /\ task.at = "remove" /\ dir' \in {dir, "gone"}
      BY <2>1 DEF RemoveProjectionRun, At, Fails, files, tables, outside
    <3> QED BY <3>1, RemovalFinishes
  <2>2. CASE IoError \/ Crash
    <3>1. UNCHANGED <<dsh, plugin, canon>> /\ Damage
      BY <2>2 DEF IoError, Crash, tables
    <3>2. dir' = dir \/ (task.at = "remove" /\ dir' \in {"partial", "gone"})
      BY <3>1 DEF Damage
    <3> QED BY <3>1, <3>2, RemovalFinishes
  <2> QED BY <1>7, <2>1, <2>2
<1>8. CASE ImportNative
  <2>1. CASE Fails(FALSE)
    BY <1>2, <1>3, <2>1
  <2>2. CASE /\ ~(canon[Root].version > 1) /\ canon' = [canon EXCEPT ![Root].version = 1]
             /\ GoTo("rebase") /\ UNCHANGED <<files, row, mapping, receipts, memory, outside>>
    <3>1. BodiesStay /\ UNCHANGED <<wal, mapping, receipts, plugin, dsh, file, dir>> /\ task'.call = task.call
      BY <1>1, <2>2, ImportedBodies DEF files, outside, GoTo, TypeOK, Tasks
    <3>2. Held' = Held
      BY <1>1, <3>1, BodiesStayData
    <3> QED BY <3>1, <3>2, NothingSeen
  <2> QED BY <1>8, <2>1, <2>2 DEF ImportNative
<1>9. CASE Command
  <2>1. BodiesStay /\ UNCHANGED <<wal, mapping, receipts, plugin, dsh, file, dir, task>>
    BY <1>1, <1>9, CommandBodies DEF Command, files
  <2>2. Held' = Held
    BY <1>1, <2>1, BodiesStayData
  <2> QED BY <2>1, <2>2, NothingSeen
<1>10. CASE SendAppend \/ Exit \/ AttachRun
  <2>1. UNCHANGED <<dir, canon, dsh.emitted, dsh.log, plugin.acked>>
    BY <1>1, <1>10 DEF SendAppend, Exit, AttachRun, files, tables, TypeOK, Processes, Queues
  <2> QED BY <2>1, HeldSame DEF Unseen, History
<1>11. CASE WriteRegistration \/ RebaseRegistration \/ MapRegistration \/ LookUp \/ PutPending
            \/ ApplyAppend \/ MarkProjectionApplied
  BY <1>2, <1>3, <1>11 DEF WriteRegistration, RebaseRegistration, MapRegistration, LookUp, PutPending,
     ApplyAppend, MarkProjectionApplied, files, tables, outside
<1>12. CASE SwitchLogicalSession \/ UpsertProjectionSession \/ MarkCommitted \/ NextRecord
            \/ BeginClose \/ BeginRecover \/ RestoreContext \/ AdoptRegistration
  BY <1>2, <1>3, <1>12 DEF SwitchLogicalSession, UpsertProjectionSession, MarkCommitted, NextRecord,
     BeginClose, BeginRecover, RestoreContext, AdoptRegistration, files, tables, outside
<1>13. CASE SupersedeStalePending \/ ListPending \/ ListTorn \/ ReplayPending \/ RecoverTail
            \/ CheckpointAndDetach \/ FinishRun
  BY <1>2, <1>3, <1>13 DEF SupersedeStalePending, ListPending, ListTorn, ReplayPending, RecoverTail,
     CheckpointAndDetach, FinishRun, files, tables, outside
<1>14. CASE Restart \/ DrainRun \/ SendRegister \/ AskClose \/ AskRecover \/ UNCHANGED vars
  BY <1>2, <1>14 DEF Restart, DrainRun, SendRegister, AskClose, AskRecover, files, tables, outside, vars
<1> QED BY <1>4, <1>5, <1>6, <1>7, <1>8, <1>9, <1>10, <1>11, <1>12, <1>13, <1>14 DEF Next, EngineStep

\* Whatever dies, fails, is buffered by DSH or commanded in the dashboard: events
\* enter the history in order and once, what is acknowledged is in it, and the
\* directory is removed only when everything DSH saved is in the history.
THEOREM Implements == Spec => AppendedOnce
<1>1. Init => Abstract!Init
  BY BeginsAppendOnce
<1>2. RunInv /\ RunInv' /\ [Next]_vars => [Abstract!Next]_(Abstract!vars)
  BY StepImplements
<1> QED BY <1>1, <1>2, RunSafe, PTL DEF Spec, AppendedOnce, Abstract!Spec
=============================================================================
