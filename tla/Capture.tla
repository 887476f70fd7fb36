------------------------------- MODULE Capture -------------------------------
(***************************************************************************)
(* The plugin inside DSH of one projection run                             *)
(* (`plugins/dsh-session-maintenance/src/projection-runtime.ts`,           *)
(* `index.ts`, `lazy-persistence.ts`): it copies projected sessions into   *)
(* DSH's store when they are read, queues what DSH appends, and sends it   *)
(* in batches until it has drained.                                        *)
(*                                                                         *)
(* ProjectionRun has what the Engine does with a batch; here a commit is   *)
(* one step, and what is modelled is the plugin's own concurrency: the     *)
(* promise of a session's queue, the flushes that wait for it, calls that  *)
(* fail or whose answers are lost, and the shutdown.                       *)
(***************************************************************************)
EXTENDS Naturals, Sequences

CONSTANTS Projected,    \* sessions in the projection
          Live,         \* sessions DSH creates
          Stored,       \* events of a projected session
          MaxOwn,       \* bound: events DSH appends
          MaxFaults     \* bound: calls and streams that fail

Conversations == Projected \cup Live
Callers  == {"dsh", "drain"}

VARIABLES
    client,     \* attaching, attached, draining, detached or failed
    copied,     \* [Projected -> events in DSH's store]
    stream,     \* [Projected -> the hydration under way: its count, or -]
    hydrated,   \* projected sessions that are in DSH's store
    own,        \* [Conversations -> what DSH appended: preludes and turns]
    observed,   \* [Conversations -> native revision the plugin has seen]
    active,     \* sessions with a turn
    queue,      \* [Conversations -> spans of events to send]
    batch,      \* [Conversations -> the batch under way or to be sent again]
    tail,       \* [Conversations -> where the promise that empties the queue is]
    failed,     \* sessions whose last attempt failed
    known,      \* sessions with metadata from the Engine
    revision,   \* [Conversations -> revision the Engine has]
    receipts,   \* [Conversations -> revisions of committed operations]
    flush,      \* [Callers -> the flush under way]
    todo,       \* sessions the shutdown has yet to flush
    faults,
    emitted     \* events DSH appended

vars == <<client, copied, stream, hydrated, own, observed, active, queue, batch, tail, failed, known,
          revision, receipts, flush, todo, faults, emitted>>

Base(s)   == IF s \in Projected THEN Stored ELSE 0
MaxLength == Stored + MaxOwn
NoBatch   == [n |-> 0, lo |-> 0, hi |-> 0]
Resting   == [at |-> "none", for |-> {}]
Streams   == 0..Stored
NoStream  == Stored + 1

TypeOK ==
    /\ client \in {"attaching", "attached", "flushing", "draining", "detached", "failed"}
    /\ copied \in [Projected -> 0..2 * Stored] /\ stream \in [Projected -> Streams \cup {NoStream}]
    /\ hydrated \subseteq Projected
    /\ \A s \in Conversations : own[s] \in Seq({"prelude", "turn"}) /\ Len(own[s]) <= MaxOwn
    /\ observed \in [Conversations -> 0..MaxLength] /\ active \subseteq Conversations
    /\ \A s \in Conversations : \A i \in DOMAIN queue[s] : queue[s][i].lo < queue[s][i].hi
    /\ batch \in [Conversations -> [n : 0..MaxOwn, lo : 0..MaxLength, hi : 0..MaxLength]]
    /\ tail \in [Conversations -> {"none", "metadata", "posting", "ending"}]
    /\ failed \subseteq Conversations /\ known \subseteq Live
    /\ revision \in [Conversations -> 0..MaxLength]
    /\ flush \in [Callers -> [at : {"none", "first", "woken", "second", "check", "failed"},
                              for : SUBSET Conversations]]
    /\ todo \subseteq Conversations /\ faults \in 0..MaxFaults /\ emitted \in 0..MaxOwn

Init ==
    /\ client = "attaching" /\ copied = [s \in Projected |-> 0] /\ stream = [s \in Projected |-> NoStream]
    /\ hydrated = {} /\ own = [s \in Conversations |-> <<>>] /\ observed = [s \in Conversations |-> Base(s)]
    /\ active = {} /\ queue = [s \in Conversations |-> <<>>] /\ batch = [s \in Conversations |-> NoBatch]
    /\ tail = [s \in Conversations |-> "none"] /\ failed = {} /\ known = {}
    /\ revision = [s \in Conversations |-> Base(s)] /\ receipts = [s \in Conversations |-> {}]
    /\ flush = [c \in Callers |-> Resting] /\ todo = {} /\ faults = 0 /\ emitted = 0

Fault == faults < MaxFaults /\ faults' = faults + 1
Copying   == <<copied, stream, hydrated>>
Capturing == <<emitted, own, observed, active, queue, batch, tail, failed, known, revision, receipts, flush, todo>>

(***************************************************************************)
(* The copies: the hot sessions with the catalog, the others when they are *)
(* read.  One stream per session; DSH refuses to create what it has.       *)
(***************************************************************************)
\* Mutant: every reader starts a stream of its own.
BeginHydrationEach(s) ==
    /\ client \in {"attaching", "attached", "flushing"} /\ s \notin hydrated
    /\ stream' = [stream EXCEPT ![s] = 0] /\ UNCHANGED <<client, copied, hydrated, Capturing, faults>>

BeginHydration(s) ==
    /\ client \in {"attaching", "attached", "flushing"} /\ s \notin hydrated
    /\ stream[s] = NoStream /\ copied[s] = 0
    /\ stream' = [stream EXCEPT ![s] = 0] /\ UNCHANGED <<client, copied, hydrated, Capturing, faults>>

AppendHydrationEvents(s) ==
    /\ stream[s] < Stored
    /\ copied' = [copied EXCEPT ![s] = @ + 1] /\ stream' = [stream EXCEPT ![s] = @ + 1]
    /\ UNCHANGED <<client, hydrated, Capturing, faults>>

FinishHydration(s) ==
    /\ stream[s] = Stored
    /\ hydrated' = hydrated \cup {s} /\ stream' = [stream EXCEPT ![s] = NoStream]
    /\ UNCHANGED <<client, copied, Capturing, faults>>

\* Before the run is attached a broken stream breaks the plugin; afterwards it breaks a read.
BreakStream(s) ==
    /\ stream[s] # NoStream /\ Fault
    /\ stream' = [stream EXCEPT ![s] = NoStream]
    /\ client' = IF client = "attaching" THEN "failed" ELSE client
    /\ UNCHANGED <<copied, hydrated, Capturing>>

Attach ==
    /\ client = "attaching" /\ \A s \in Projected : stream[s] = NoStream
    /\ client' = "attached" /\ UNCHANGED <<Copying, Capturing, faults>>

(***************************************************************************)
(* The queue of a session and the promise that empties it.                 *)
(***************************************************************************)
\* schedule: one promise per session; without a queue it ends at once.
Scheduled(s, q) ==
    IF tail[s] # "none" THEN tail ELSE [tail EXCEPT ![s] = IF q[s] = <<>> THEN "ending" ELSE "metadata"]

\* observe: what was not announced is read from the session; preludes wait for a turn.
Observe(s, log) ==
    LET hi    == Base(s) + Len(log)
        entry == [lo |-> IF s \in active THEN observed[s] ELSE Base(s), hi |-> hi]
    IN  /\ observed' = [observed EXCEPT ![s] = hi]
        /\ IF s \notin active /\ \A i \in DOMAIN log : log[i] = "prelude"
           THEN UNCHANGED <<active, queue, tail>>
           ELSE /\ active' = active \cup {s}
                /\ queue' = [queue EXCEPT ![s] = Append(@, entry)]
                /\ tail' = Scheduled(s, queue')

\* DSH appends to a session it has, and announces it or not.
Emit(s) ==
    /\ client \notin {"attaching", "failed"} /\ (s \in Projected => s \in hydrated) /\ emitted < MaxOwn /\ emitted' = emitted + 1
    /\ \E kind \in {"prelude", "turn"}, announced \in BOOLEAN :
          /\ own' = [own EXCEPT ![s] = Append(@, kind)]
          /\ IF announced /\ client \in {"attached", "flushing"}
             THEN Observe(s, own'[s]) ELSE UNCHANGED <<observed, active, queue, tail>>
    /\ UNCHANGED <<client, Copying, batch, failed, known, revision, receipts, flush, todo, faults>>

TailIs(s, at) == tail' = [tail EXCEPT ![s] = at]
Others == <<client, Copying, emitted, own, observed, active, flush, todo>>

\* metadata: a session the Engine does not know is registered; the answer may be lost.
Register(s) ==
    /\ tail[s] = "metadata" /\ batch[s] = NoBatch /\ s \in Live \ known
    /\ \/ known' = known \cup {s} /\ UNCHANGED <<tail, failed, faults>>
       \/ Fault /\ TailIs(s, "ending") /\ failed' = failed \cup {s} /\ UNCHANGED known
    /\ UNCHANGED <<Others, queue, batch, revision, receipts>>

\* Everything queued by now is one operation, named by its last event.
FormBatch(s) ==
    /\ tail[s] = "metadata" /\ (batch[s] # NoBatch \/ s \in Projected \cup known)
    /\ batch' = IF batch[s] # NoBatch THEN batch
                ELSE [batch EXCEPT ![s] = [n |-> Len(queue[s]), lo |-> queue[s][1].lo,
                                           hi |-> queue[s][Len(queue[s])].hi]]
    /\ TailIs(s, "posting")
    /\ UNCHANGED <<Others, queue, failed, known, revision, receipts, faults>>

\* The Engine answers a committed operation again and appends at its revision only.
Accepts(s) == batch[s].hi \in receipts[s] \/ batch[s].lo = revision[s]
Commit(s) ==
    /\ Accepts(s)
    /\ receipts' = [receipts EXCEPT ![s] = @ \cup {batch[s].hi}]
    /\ revision' = [revision EXCEPT ![s] = IF batch[s].hi > @ THEN batch[s].hi ELSE @]

Acknowledge(s) ==
    /\ tail[s] = "posting" /\ Commit(s)
    /\ queue' = [queue EXCEPT ![s] = SubSeq(@, batch[s].n + 1, Len(@))]
    /\ batch' = [batch EXCEPT ![s] = NoBatch] /\ failed' = failed \ {s}
    /\ TailIs(s, IF queue'[s] = <<>> THEN "ending" ELSE "metadata")
    /\ UNCHANGED <<Others, known, faults>>

\* Mutant: a failed batch is built anew.
FailRebuilding(s) ==
    /\ tail[s] = "posting" /\ Fault
    /\ (UNCHANGED <<revision, receipts>> \/ Commit(s))
    /\ failed' = failed \cup {s} /\ TailIs(s, "ending") /\ batch' = [batch EXCEPT ![s] = NoBatch]
    /\ UNCHANGED <<Others, queue, known>>

\* The batch is kept: it may have been committed.
Fail(s) ==
    /\ tail[s] = "posting" /\ Fault
    /\ (UNCHANGED <<revision, receipts>> \/ Commit(s))
    /\ failed' = failed \cup {s} /\ TailIs(s, "ending")
    /\ UNCHANGED <<Others, queue, batch, known>>

\* The promise is settled: it is forgotten and those who wait for it go on.
Finally(s) ==
    /\ tail[s] = "ending" /\ TailIs(s, "none")
    /\ flush' = [c \in Callers |->
          IF s \notin flush[c].for THEN flush[c]
          ELSE CASE flush[c].at = "first"  -> [flush[c] EXCEPT !.at = "woken"]
                 [] flush[c].at = "second" -> [flush[c] EXCEPT !.at = "check"]
                 [] OTHER -> flush[c]]
    /\ UNCHANGED <<client, Copying, emitted, own, observed, active, queue, batch, failed, known, revision, receipts,
                   todo, faults>>

(***************************************************************************)
(* Flushes, of DSH and of the drain.                                       *)
(***************************************************************************)
Flushed == <<client, Copying, emitted, own, observed, active, queue, batch, known, revision, receipts>>

StartFlush(c, s) ==
    /\ flush[c].at = "none" /\ flush' = [flush EXCEPT ![c] = [at |-> "first", for |-> {s}]]
    /\ tail' = Scheduled(s, queue)
    /\ UNCHANGED <<Flushed, failed, todo, faults>>

\* What is still queued is tried once more.
FlushAgain(c) ==
    /\ flush[c].at = "woken"
    /\ \E s \in flush[c].for :
          IF queue[s] = <<>>
          THEN flush' = [flush EXCEPT ![c].at = "check"] /\ UNCHANGED <<tail, failed>>
          ELSE /\ failed' = failed \ {s} /\ tail' = Scheduled(s, queue)
               /\ flush' = [flush EXCEPT ![c].at = "second"]
    /\ UNCHANGED <<Flushed, todo, faults>>

\* A failure is thrown; otherwise the Engine is asked whether it has appends of the session.
FinishFlush(c) ==
    /\ flush[c].at = "check"
    /\ \/ flush[c].for \cap failed = {} /\ flush' = [flush EXCEPT ![c] = Resting]
          /\ todo' = todo \ flush[c].for /\ UNCHANGED faults
       \/ flush[c].for \cap failed # {} /\ flush' = [flush EXCEPT ![c].at = "failed"] /\ UNCHANGED <<todo, faults>>
       \/ Fault /\ flush' = [flush EXCEPT ![c].at = "failed"] /\ UNCHANGED todo
    /\ UNCHANGED <<Flushed, tail, failed>>

FlushSession(s) == client = "attached" /\ StartFlush("dsh", s)

\* A flush DSH asked for fails: the next one starts anew.
ForgetFlush ==
    /\ client = "attached" /\ flush["dsh"].at = "failed" /\ flush' = [flush EXCEPT !["dsh"] = Resting]
    /\ UNCHANGED <<Flushed, tail, failed, todo, faults>>

(***************************************************************************)
(* The shutdown: DSH flushes what it observed, then the plugin drains.     *)
(***************************************************************************)
Shutdown(at, sessions) ==
    /\ client' = at /\ todo' = sessions
    /\ UNCHANGED <<Copying, emitted, own, observed, active, queue, batch, tail, failed, known, revision,
                   receipts, flush, faults>>

Exit == client = "attached" /\ flush["dsh"].at = "none" /\ Shutdown("flushing", {s \in Conversations : observed[s] > Base(s)})

FlushObserved(s) == client = "flushing" /\ s \in todo /\ StartFlush("dsh", s)

\* Mutant: what has no promise is taken for sent.
PendingPromises == {s \in Conversations : tail[s] # "none"}

Pending == {s \in Conversations : tail[s] # "none" \/ queue[s] # <<>>}

Drain == client = "flushing" /\ todo = {} /\ flush["dsh"].at = "none" /\ Shutdown("draining", Pending)

DrainSession(s) == client = "draining" /\ s \in todo /\ StartFlush("drain", s)

GiveUp ==
    /\ client \in {"flushing", "draining"} /\ \E c \in Callers : flush[c].at = "failed"
    /\ Shutdown("failed", {})

Detach == client = "draining" /\ todo = {} /\ flush["drain"].at = "none" /\ Shutdown("detached", {})

Next ==
    \/ \E s \in Projected :
          BeginHydration(s) \/ AppendHydrationEvents(s) \/ FinishHydration(s) \/ BreakStream(s)
    \/ Attach
    \/ \E s \in Conversations :
          \/ Emit(s) \/ Register(s) \/ FormBatch(s) \/ Acknowledge(s) \/ Fail(s) \/ Finally(s)
          \/ FlushSession(s) \/ FlushObserved(s) \/ DrainSession(s)
    \/ \E c \in Callers : FlushAgain(c) \/ FinishFlush(c)
    \/ ForgetFlush \/ Exit \/ Drain \/ GiveUp \/ Detach

Spec == Init /\ [][Next]_vars

(***************************************************************************)
(* Properties.                                                             *)
(***************************************************************************)
\* What DSH reads of a projected session is all of it, once (registrar.hydrate, lazy-persistence.ts).
ReadsAreWhole == \A s \in hydrated : copied[s] = Stored

\* What waits is what was observed and not acknowledged, in order.
QueueIsWhole == \A s \in active :
    LET spans == queue[s] IN
    /\ \A i \in 1..Len(spans) - 1 : spans[i].hi = spans[i + 1].lo
    /\ spans # <<>> => spans[Len(spans)].hi = observed[s] /\ spans[1].lo <= revision[s]
    /\ spans = <<>> => revision[s] = observed[s]

\* A batch that is sent, again or for the first time, is one the Engine can take: a lost answer never
\* wedges a session (schedule, pendingBatches).
NeverWedged == \A s \in Conversations : tail[s] = "posting" => Accepts(s)

\* A plugin that has detached has sent everything it observed, but for sessions without a turn.
DetachedIsSent == client = "detached" => \A s \in active : revision[s] = observed[s]
=============================================================================
