----------------------------- MODULE Jobs_proofs -----------------------------
(***************************************************************************)
(* What holds of the background jobs of the Engine (Jobs) for any sets of  *)
(* jobs, any length of the write queue and any number of requests and      *)
(* restarts.  Liveness (StopEnds) is left to the runs.                     *)
(***************************************************************************)
EXTENDS Jobs, TLAPS, FiniteSetTheorems

-----------------------------------------------------------------------------
(* The inductive invariant.                                                *)

Asked == {"create", "resume", "cancel"}
Written == {"markRunning", "commit", "complete", "requeue", "fail"}

Entries == [op : Ops, job : JobIds, by : Slots \cup {0}]
Executions == [slot : Slots, job : JobIds, signal : Signals, watched : BOOLEAN,
               pc : {"begin", "waiting", "importing", "catch"}]

Rows ==
    /\ row \in [JobIds -> [status : Statuses, cancel : BOOLEAN]]
    /\ queue \in Seq(Entries) /\ Len(queue) <= MaxPending
    /\ work \subseteq Executions
    /\ active \subseteq JobIds /\ refused \subseteq JobIds /\ heard \subseteq Imports
    /\ phase \in {"down", "serving", "draining", "drained"} /\ stopping \in BOOLEAN
    /\ commits \in [JobIds -> 0..MaxCommits] /\ cancelled \in [JobIds -> 0..MaxLives]

\* The variables TypeOK leaves out, and what a process that is down has lost.
Ready ==
    /\ inflight \subseteq [what : Asked, job : JobIds, at : {"accepted", "queued"}]
    /\ \A r \in inflight : r.what # "create" => r.job \in Imports
    /\ asks \in 0..MaxAsks /\ life \in 0..MaxLives
    /\ stopping <=> phase \in {"draining", "drained"}
    /\ phase = "down" => queue = <<>> /\ work = {} /\ inflight = {}

\* The entry q of the queue is the request that waits for it or the write its execution waits for.
Meant(q) ==
    \/ q.by = 0 /\ q.op \in Asked /\ (q.op # "create" => q.job \in Imports)
    \/ /\ q.op \in Written
       /\ \E w \in work : /\ w.slot = q.by /\ w.job = q.job /\ w.pc = "waiting"
                          /\ q.op = "requeue" => w.signal = "JOB_INTERRUPTED"
                          /\ q.op = "commit" => commits[q.job] < MaxCommits

\* No execution waits for two entries.
OneEntry == \A i, k \in 1..Len(queue) : queue[i].by # 0 /\ queue[i].by = queue[k].by => i = k

QueueInv == OneEntry /\ \A i \in 1..Len(queue) : Meant(queue[i])

\* An execution is the only one of its slot and of its job, its job is open, and one that was
\* interrupted belongs to an Engine that stops.
WorkInv ==
    /\ \A v, w \in work : v.slot = w.slot => v = w
    /\ OneExecution
    /\ active = {w.job : w \in work}
    /\ \A w \in work : Open(w.job)
    /\ \A w \in work : w.signal = "JOB_INTERRUPTED" => stopping

\* An execution that a cancellation in the queue has not signalled came later: it has not begun, its
\* transition to running is behind the cancellation, or it has failed without one.
Behind(i, w) ==
    \/ w.signal # "none" \/ w.pc \in {"begin", "catch"}
    \/ \E k \in 1..Len(queue) : /\ queue[k].by = w.slot
                                /\ queue[k].op = "fail" \/ (queue[k].op = "markRunning" /\ i < k)

AskedInv ==
    /\ \A i \in 1..Len(queue) : queue[i].op = "cancel" =>
          \A w \in work : w.job = queue[i].job => Behind(i, w)
    /\ \A i, k \in 1..Len(queue) :
          i < k /\ queue[i].op = "cancel" /\ queue[k].op = "complete" => queue[i].job # queue[k].job

\* The intent of a cancellation that was heard stands in the row until the job has failed, and its
\* execution, which has the signal, waits for no write that would overwrite it.
Ending(j) == \A w \in work : w.job = j =>
    /\ w.signal = "JOB_CANCELLED"
    /\ \A i \in 1..Len(queue) : queue[i].by = w.slot => queue[i].op \in {"commit", "fail"}

Intended(j) ==
    \/ row[j].status = "failed"
    \/ Open(j) /\ row[j].cancel /\ (phase = "down" \/ \E w \in work : w.job = j)

HeardInv == \A j \in heard : Intended(j) /\ Ending(j)

JobsInv == Rows /\ Ready /\ QueueInv /\ WorkInv /\ NoOrphan /\ AskedInv /\ HeardInv

LEMMA TypesHold == ASSUME JobsInv PROVE TypeOK
<1>1. ASSUME NEW i \in 1..Len(queue), queue[i].by # 0
      PROVE  \E w \in work : w.slot = queue[i].by /\ w.pc = "waiting"
  BY <1>1 DEF JobsInv, QueueInv, Meant
<1> QED BY <1>1 DEF JobsInv, Rows, TypeOK, Entries, Executions

-----------------------------------------------------------------------------
(* Entries of the queue and slots.                                         *)

LEMMA Put ==
    ASSUME NEW S, NEW s \in Seq(S), NEW e \in S
    PROVE  /\ Append(s, e) \in Seq(S) /\ Len(Append(s, e)) = Len(s) + 1 /\ Len(s) \in Nat
           /\ \A i \in 1..Len(s) : Append(s, e)[i] = s[i]
           /\ Append(s, e)[Len(s) + 1] = e
  OBVIOUS

LEMMA Taken ==
    ASSUME NEW S, NEW s \in Seq(S), s # <<>>
    PROVE  /\ Tail(s) \in Seq(S) /\ Len(s) \in Nat /\ Len(Tail(s)) = Len(s) - 1 /\ Len(s) >= 1
           /\ \A i \in 1..Len(Tail(s)) : i + 1 \in 1..Len(s) /\ Tail(s)[i] = s[i + 1]
           /\ Head(s) = s[1] /\ Head(s) \in S
  OBVIOUS

\* What an entry of an execution says of it.
LEMMA EntryOf ==
    ASSUME JobsInv, NEW w \in work, NEW i \in 1..Len(queue), queue[i].by = w.slot
    PROVE  /\ queue[i].by # 0 /\ queue[i].op \in Written /\ queue[i].job = w.job /\ w.pc = "waiting"
           /\ queue[i].op = "requeue" => w.signal = "JOB_INTERRUPTED"
           /\ queue[i].op = "commit" => commits[w.job] < MaxCommits
<1>1. w.slot # 0
  BY DEF JobsInv, Rows, Executions, Slots
<1>2. PICK v \in work : /\ v.slot = queue[i].by /\ v.job = queue[i].job /\ v.pc = "waiting"
                        /\ queue[i].op \in Written
                        /\ queue[i].op = "requeue" => v.signal = "JOB_INTERRUPTED"
                        /\ queue[i].op = "commit" => commits[queue[i].job] < MaxCommits
  BY <1>1 DEF JobsInv, QueueInv, Meant
<1>3. v = w
  BY <1>2 DEF JobsInv, WorkInv
<1> QED BY <1>1, <1>2, <1>3

\* There is a slot left for a job without an execution.
LEMMA FreeSlot ==
    ASSUME JobsInv
    PROVE  Free(1)[1] \in Slots /\ \A w \in work : w.slot # Free(1)[1]
<1>1. \E s \in Slots : \A w \in work : w.slot # s
  <2> SUFFICES ASSUME \A s \in Slots : \E w \in work : w.slot = s PROVE FALSE
    OBVIOUS
  <2> DEFINE of == [s \in Slots |-> CHOOSE w \in work : w.slot = s]
             job == [s \in Slots |-> of[s].job]
  <2>1. \A s \in Slots : of[s] \in work /\ of[s].slot = s
    OBVIOUS
  <2>2. job \in [Slots -> JobIds]
    BY <2>1 DEF JobsInv, Rows, Executions
  <2>3. Cardinality(JobIds) \in Nat
    BY FS_CardinalityType, JobsAssumption DEF JobsAssumption
  <2>4. IsFiniteSet(Slots) /\ Cardinality(Slots) = Cardinality(JobIds) + 1
    <3> DEFINE n == Cardinality(JobIds) + 1
    <3>1. n \in Nat /\ n >= 1
      BY <2>3
    <3>2. IsFiniteSet(1..n) /\ Cardinality(1..n) = n
      <4> HIDE DEF n
      <4>1. 1 \in Int /\ n \in Int /\ ~(1 > n)
        BY <3>1
      <4>2. IsFiniteSet(1..n) /\ Cardinality(1..n) = IF 1 > n THEN 0 ELSE n - 1 + 1
        BY <4>1, FS_Interval
      <4> QED BY <4>1, <4>2
    <3> QED BY <3>2 DEF Slots
  <2>5. PICK s, t \in Slots : s # t /\ job[s] = job[t]
    <3>1. IsFiniteSet(JobIds)
      BY JobsAssumption DEF JobsAssumption
    <3>2. Cardinality(JobIds) < Cardinality(Slots)
      BY <2>3, <2>4
    <3> HIDE DEF job
    <3> QED BY <2>2, <2>4, <3>1, <3>2, FS_PigeonHole
  <2>6. of[s] = of[t]
    BY <2>1, <2>5 DEF JobsInv, WorkInv, OneExecution
  <2> QED BY <2>1, <2>5, <2>6
<1>2. PICK s \in Slots : \A w \in work : w.slot # s
  BY <1>1
<1>3. \E f \in [1..1 -> Slots] : /\ \A a, b \in 1..1 : a < b => f[a] < f[b]
                                 /\ \A a \in 1..1 : \A w \in work : w.slot # f[a]
  <2> DEFINE f == [a \in 1..1 |-> s]
  <2>1. f \in [1..1 -> Slots]
    OBVIOUS
  <2>2. \A a \in 1..1 : f[a] = s
    OBVIOUS
  <2>3. \A a, b \in 1..1 : ~(a < b)
    OBVIOUS
  <2> HIDE DEF f
  <2> QED BY <1>2, <2>1, <2>2, <2>3
<1>4. Free(1) \in [1..1 -> Slots] /\ \A a \in 1..1 : \A w \in work : w.slot # Free(1)[a]
  BY <1>3 DEF Free
<1> QED BY <1>4

-----------------------------------------------------------------------------
(* Steps that change neither the queue nor the rows.                       *)

\* f is the execution v after such a step: the same slot, job and wait; a signal stays; what moves on
\* goes to its failure handler.
Same(v, f) ==
    /\ f \in Executions /\ f.slot = v.slot /\ f.job = v.job
    /\ f.pc = v.pc \/ (v.pc # "waiting" /\ f.pc = "catch")
    /\ f.signal = v.signal \/ (v.signal = "none" /\ f.signal \in {"JOB_CANCELLED", "JOB_INTERRUPTED"})

LEMMA Relabelled ==
    ASSUME JobsInv, UNCHANGED <<row, queue, active, commits>>, refused \subseteq refused',
           heard' \subseteq heard, phase' = phase \/ (phase = "serving" /\ phase' = "draining"),
           NEW h, \A v \in work : Same(v, h[v]), work' = {h[v] : v \in work},
           stopping => stopping',
           \A v \in work : h[v].signal = "JOB_INTERRUPTED" => v.signal = "JOB_INTERRUPTED" \/ stopping'
    PROVE  QueueInv' /\ WorkInv' /\ NoOrphan' /\ AskedInv' /\ HeardInv'
<1>1. \A f \in work' : \E v \in work : f = h[v]
  OBVIOUS
<1>2. \A v \in work : h[v] \in work' /\ h[v].slot = v.slot /\ h[v].job = v.job
  BY DEF Same
<1>3. \A j \in JobIds : (\E w \in work : w.job = j) <=> (\E w \in work' : w.job = j)
  BY <1>1, <1>2
<1>4. QueueInv'
  <2>1. ASSUME NEW i \in 1..Len(queue) PROVE Meant(queue[i])'
    <3>1. Meant(queue[i])
      BY DEF JobsInv, QueueInv
    <3>2. CASE queue[i].by = 0
      BY <3>1, <3>2 DEF Meant, JobsInv, Rows, Executions, Slots, Asked
    <3>3. ASSUME NEW w \in work, w.slot = queue[i].by, w.job = queue[i].job, w.pc = "waiting",
                 queue[i].op \in Written, queue[i].op = "requeue" => w.signal = "JOB_INTERRUPTED",
                 queue[i].op = "commit" => commits[queue[i].job] < MaxCommits
          PROVE  Meant(queue[i])'
      <4>1. h[w] \in work' /\ h[w].slot = w.slot /\ h[w].job = w.job /\ h[w].pc = "waiting"
        BY <1>2, <3>3 DEF Same
      <4>2. w.signal = "JOB_INTERRUPTED" => h[w].signal = "JOB_INTERRUPTED"
        BY DEF Same
      <4> QED BY <3>3, <4>1, <4>2 DEF Meant
    <3> QED BY <3>1, <3>2, <3>3 DEF Meant
  <2> QED BY <2>1 DEF JobsInv, QueueInv, OneEntry
<1>5. WorkInv'
  <2>1. \A v, w \in work' : v.slot = w.slot => v = w
    BY <1>1, <1>2 DEF JobsInv, WorkInv
  <2>2. \A v, w \in work' : v.job = w.job => v = w
    BY <1>1, <1>2 DEF JobsInv, WorkInv, OneExecution
  <2>3. active' = {w.job : w \in work'}
    BY <1>1, <1>2 DEF JobsInv, WorkInv
  <2>4. \A w \in work' : Open(w.job)'
    BY <1>1, <1>2 DEF JobsInv, WorkInv, Open
  <2>5. \A w \in work' : w.signal = "JOB_INTERRUPTED" => stopping'
    BY <1>1 DEF JobsInv, WorkInv
  <2> QED BY <2>1, <2>2, <2>3, <2>4, <2>5 DEF WorkInv, OneExecution
<1>6. NoOrphan'
  BY <1>3 DEF JobsInv, NoOrphan, Open
<1>7. AskedInv'
  <2>1. ASSUME NEW i \in 1..Len(queue), queue[i].op = "cancel", NEW w \in work', w.job = queue[i].job
        PROVE  Behind(i, w)'
    <3>1. PICK v \in work : w = h[v]
      BY <1>1
    <3>2. Behind(i, v)
      BY <1>2, <2>1, <3>1 DEF JobsInv, AskedInv
    <3>3. w.slot = v.slot /\ (v.signal # "none" => w.signal # "none")
          /\ (v.pc \in {"begin", "catch"} => w.pc \in {"begin", "catch"})
      BY <3>1 DEF Same
    <3> QED BY <3>2, <3>3 DEF Behind
  <2> QED BY <2>1 DEF JobsInv, AskedInv
<1>8. HeardInv'
  <2> SUFFICES ASSUME NEW j \in heard' PROVE Intended(j)' /\ Ending(j)'
    BY DEF HeardInv
  <2>1. Intended(j) /\ Ending(j) /\ j \in JobIds
    BY DEF JobsInv, HeardInv, Rows, JobIds
  <2>2. Intended(j)'
    BY <1>3, <2>1 DEF Intended, Open
  <2>3. Ending(j)'
    BY <1>1, <2>1 DEF Ending, Same
  <2> QED BY <2>2, <2>3
<1> QED BY <1>4, <1>5, <1>6, <1>7, <1>8

-----------------------------------------------------------------------------
(* Steps that put an entry into the queue.                                 *)

\* What an execution may put into the queue, and from where.
Puts(w, e) ==
    /\ e.op \in Written /\ e.job = w.job /\ w.pc # "waiting"
    /\ e.op = "markRunning" => w.pc = "begin" /\ (w.job \in Imports => w.signal = "none")
    /\ e.op = "complete" => w.pc = "importing" /\ (w.job \in Imports => w.signal = "none")
    /\ e.op = "commit" => w.pc = "importing" /\ commits[w.job] < MaxCommits
    /\ e.op = "requeue" => w.signal = "JOB_INTERRUPTED"
    /\ w.pc = "begin" => e.op = "markRunning"
    /\ w.pc = "catch" => e.op \in {"requeue", "fail"}

LEMMA Queued ==
    ASSUME JobsInv, UNCHANGED <<row, active, commits, refused, heard, phase, stopping>>,
           NEW e \in Entries, queue' = Append(queue, e),
           NEW h, work' = {h[v] : v \in work},
           \A v \in work :
              /\ h[v] \in Executions /\ h[v].slot = v.slot /\ h[v].job = v.job
              /\ h[v].pc = IF v.slot = e.by THEN "waiting" ELSE v.pc
              /\ h[v].signal = v.signal \/ (v.signal = "none" /\ h[v].signal = "JOB_CANCELLED" /\ e.by = 0),
           e.by = 0 => e.op \in Asked /\ (e.op # "create" => e.job \in Imports),
           e.op = "cancel" => \A v \in work : v.job = e.job => h[v].signal # "none",
           e.by # 0 => \E w \in work : w.slot = e.by /\ Puts(w, e)
    PROVE  QueueInv' /\ WorkInv' /\ NoOrphan' /\ AskedInv' /\ HeardInv'
<1> DEFINE n == Len(queue)
<1>1. \A f \in work' : \E v \in work : f = h[v]
  OBVIOUS
<1>2. \A v \in work : h[v] \in work' /\ h[v].slot = v.slot /\ h[v].job = v.job /\ v.slot # 0
  BY DEF JobsInv, Rows, Executions, Slots
<1>3. \A j \in JobIds : (\E w \in work : w.job = j) <=> (\E w \in work' : w.job = j)
  BY <1>1, <1>2
<1>4. /\ n \in Nat /\ Len(queue') = n + 1 /\ queue'[n + 1] = e
      /\ \A i \in 1..n : queue'[i] = queue[i]
      /\ \A i \in 1..Len(queue') : i \in 1..n \/ i = n + 1
  BY Put DEF JobsInv, Rows
<1>5. \A w \in work : w.slot = e.by => Puts(w, e)
  BY <1>2 DEF JobsInv, WorkInv
<1> HIDE DEF n
<1>6. \A i \in 1..n : queue[i].by = e.by => e.by = 0
  <2> SUFFICES ASSUME NEW i \in 1..n, queue[i].by = e.by, e.by # 0 PROVE FALSE
    OBVIOUS
  <2>1. PICK w \in work : w.slot = e.by /\ Puts(w, e)
    OBVIOUS
  <2>2. w.pc = "waiting"
    BY <2>1, EntryOf DEF n
  <2> QED BY <2>1, <2>2 DEF Puts
<1>7. QueueInv'
  <2>1. ASSUME NEW i \in 1..n, NEW q, q = queue[i] PROVE Meant(q)'
    <3>1. Meant(q)
      BY <2>1 DEF JobsInv, QueueInv, n
    <3>2. CASE q.by = 0
      BY <1>2, <3>1, <3>2 DEF Meant
    <3>3. ASSUME NEW w \in work, w.slot = q.by, w.job = q.job, w.pc = "waiting",
                 q.op \in Written, q.op = "requeue" => w.signal = "JOB_INTERRUPTED",
                 q.op = "commit" => commits[q.job] < MaxCommits
          PROVE  Meant(q)'
      <4>1. h[w] \in work' /\ h[w].slot = w.slot /\ h[w].job = w.job /\ h[w].pc = "waiting"
        BY <1>2, <3>3
      <4>2. w.signal = "JOB_INTERRUPTED" => h[w].signal = "JOB_INTERRUPTED"
        OBVIOUS
      <4> QED BY <3>3, <4>1, <4>2 DEF Meant
    <3> QED BY <3>1, <3>2, <3>3 DEF Meant
  <2>2. Meant(e)'
    <3>1. CASE e.by = 0
      BY <3>1 DEF Meant
    <3>2. CASE e.by # 0
      <4>1. PICK w \in work : w.slot = e.by /\ Puts(w, e)
        BY <3>2
      <4>2. h[w] \in work' /\ h[w].slot = e.by /\ h[w].job = e.job /\ h[w].pc = "waiting" /\ h[w].signal = w.signal
        BY <1>2, <3>2, <4>1 DEF Puts
      <4> QED BY <4>1, <4>2 DEF Puts, Meant
    <3> QED BY <3>1, <3>2
  <2>3. ASSUME NEW i \in 1..Len(queue'), NEW q, q = queue'[i] PROVE Meant(q)'
    BY <1>4, <2>1, <2>2, <2>3
  <2>4. OneEntry'
    BY <1>4, <1>6 DEF JobsInv, QueueInv, OneEntry, n
  <2> QED BY <2>3, <2>4 DEF QueueInv
<1>8. WorkInv'
  <2>1. \A v, w \in work' : v.slot = w.slot => v = w
    BY <1>1, <1>2 DEF JobsInv, WorkInv
  <2>2. \A v, w \in work' : v.job = w.job => v = w
    BY <1>1, <1>2 DEF JobsInv, WorkInv, OneExecution
  <2>3. active' = {w.job : w \in work'}
    BY <1>1, <1>2 DEF JobsInv, WorkInv
  <2>4. \A w \in work' : Open(w.job)'
    BY <1>1, <1>2 DEF JobsInv, WorkInv, Open
  <2>5. \A w \in work' : w.signal = "JOB_INTERRUPTED" => stopping'
    BY <1>1 DEF JobsInv, WorkInv
  <2> QED BY <2>1, <2>2, <2>3, <2>4, <2>5 DEF WorkInv, OneExecution
<1>9. NoOrphan'
  BY <1>3 DEF JobsInv, NoOrphan, Open
<1>10. AskedInv'
  <2>1. ASSUME NEW i \in 1..n, queue[i].op = "cancel", NEW w \in work', w.job = queue[i].job
        PROVE  Behind(i, w)'
    <3>1. PICK v \in work : w = h[v]
      BY <1>1
    <3>2. Behind(i, v)
      BY <1>2, <2>1, <3>1 DEF JobsInv, AskedInv, n
    <3>3. w.slot = v.slot /\ (v.signal # "none" => w.signal # "none")
      BY <1>2, <3>1
    <3>4. CASE v.slot # e.by
      <4>1. w.pc = v.pc
        BY <3>1, <3>4
      <4> QED BY <1>4, <3>2, <3>3, <4>1 DEF Behind, n
    <3>5. CASE v.slot = e.by /\ v.signal = "none"
      <4>1. Puts(v, e) /\ v.pc # "waiting"
        BY <1>5, <3>5 DEF Puts
      <4>2. \A k \in 1..n : queue[k].by # v.slot
        BY <4>1, EntryOf DEF n
      <4>3. v.pc \in {"begin", "catch"}
        BY <3>2, <3>5, <4>2 DEF Behind, n
      <4>4. e.op \in {"markRunning", "fail"}
        BY <3>5, <4>1, <4>3 DEF Puts
      <4>5. n + 1 \in 1..Len(queue') /\ i < n + 1 /\ queue'[n + 1].by = w.slot /\ queue'[n + 1].op = e.op
        BY <1>4, <3>3, <3>5
      <4> QED BY <4>4, <4>5 DEF Behind
    <3>6. CASE v.signal # "none"
      BY <3>3, <3>6 DEF Behind
    <3> QED BY <3>4, <3>5, <3>6
  <2>2. ASSUME NEW m, m = n + 1, e.op = "cancel", NEW w \in work', w.job = e.job PROVE Behind(m, w)'
    BY <1>1, <1>2, <2>2 DEF Behind
  <2>3. ASSUME NEW i \in 1..n, queue[i].op = "cancel", e.op = "complete" PROVE queue[i].job # e.job
    <3> SUFFICES ASSUME queue[i].job = e.job PROVE FALSE
      OBVIOUS
    <3>1. queue[i].job \in Imports
      <4>1. Meant(queue[i])
        BY DEF JobsInv, QueueInv, n
      <4> QED BY <2>3, <4>1 DEF Meant, Written
    <3>2. PICK w \in work : w.slot = e.by /\ Puts(w, e)
      BY <2>3 DEF Asked
    <3>3. w.job = e.job /\ w.signal = "none" /\ w.pc = "importing"
      BY <2>3, <3>1, <3>2 DEF Puts
    <3>4. Behind(i, w)
      BY <2>3, <3>3 DEF JobsInv, AskedInv, n
    <3>5. PICK k \in 1..n : queue[k].by = w.slot
      BY <3>3, <3>4 DEF Behind, n
    <3> QED BY <1>6, <1>2, <3>2, <3>5
  <2>4. \A i \in 1..Len(queue') : queue'[i].op = "cancel" =>
           \A w \in work' : w.job = queue'[i].job => Behind(i, w)'
    BY <1>4, <2>1, <2>2
  <2>5. \A i, k \in 1..Len(queue') :
           i < k /\ queue'[i].op = "cancel" /\ queue'[k].op = "complete" => queue'[i].job # queue'[k].job
    <3>1. \A i, k \in 1..n :
            i < k /\ queue[i].op = "cancel" /\ queue[k].op = "complete" => queue[i].job # queue[k].job
      BY DEF JobsInv, AskedInv, n
    <3> QED BY <1>4, <2>3, <3>1
  <2> QED BY <2>4, <2>5 DEF AskedInv
<1>11. HeardInv'
  <2> SUFFICES ASSUME NEW j \in heard PROVE Intended(j)' /\ Ending(j)'
    BY DEF HeardInv
  <2>1. Intended(j) /\ Ending(j) /\ j \in JobIds /\ j \in Imports
    BY DEF JobsInv, HeardInv, Rows, JobIds
  <2>2. Intended(j)'
    BY <1>3, <2>1 DEF Intended, Open
  <2>3. ASSUME NEW w \in work', w.job = j
        PROVE  /\ w.signal = "JOB_CANCELLED"
               /\ \A i \in 1..Len(queue') : queue'[i].by = w.slot => queue'[i].op \in {"commit", "fail"}
    <3>1. PICK v \in work : w = h[v]
      BY <1>1
    <3>2. v.signal = "JOB_CANCELLED" /\ \A i \in 1..n : queue[i].by = v.slot => queue[i].op \in {"commit", "fail"}
      BY <1>2, <2>1, <2>3, <3>1 DEF Ending, n
    <3>3. w.signal = "JOB_CANCELLED" /\ w.slot = v.slot /\ v.job = j
      BY <1>2, <2>3, <3>1, <3>2
    <3>4. e.by = v.slot => e.op \in {"commit", "fail"}
      BY <1>5, <2>1, <3>2, <3>3 DEF Puts, Written
    <3> QED BY <1>4, <3>2, <3>3, <3>4
  <2> QED BY <2>2, <2>3 DEF Ending
<1> QED BY <1>7, <1>8, <1>9, <1>10, <1>11

-----------------------------------------------------------------------------
(* The head of the queue runs.                                             *)

\* f is an execution after the head q ran: one q does not belong to, a new one, or that of q.
Next1(q, f) ==
    \/ f \in work /\ f.slot # q.by
    \/ f.pc = "begin" /\ \A w \in work : w.slot # f.slot
    \/ /\ \E v \in work : v.slot = q.by /\ f.slot = v.slot /\ f.job = v.job /\ f.signal = v.signal
       /\ f.pc = "catch" \/ f.signal # "none" \/ (f.pc = "importing" /\ q.op # "fail")

LEMMA Popped ==
    ASSUME JobsInv, queue # <<>>, queue' = Tail(queue), NEW q, q = Head(queue),
           \A v \in work : v.slot # q.by => v \in work',
           \A f \in work' : Next1(q, f),
           q.by = 0 => commits' = commits,
           \A j \in JobIds : j # q.job => commits'[j] = commits[j]
    PROVE  QueueInv' /\ AskedInv'
<1>1. /\ Len(queue) \in Nat /\ Len(queue) >= 1 /\ Len(queue') = Len(queue) - 1 /\ q = queue[1]
      /\ \A i \in 1..Len(queue') : i + 1 \in 1..Len(queue) /\ queue'[i] = queue[i + 1]
  BY Taken DEF JobsInv, Rows
<1>2. \A v \in work : v.slot # 0
  BY DEF JobsInv, Rows, Executions, Slots
<1>3. \A i \in 1..Len(queue') : queue'[i].by # 0 => queue'[i].by # q.by
  BY <1>1 DEF JobsInv, QueueInv, OneEntry
<1>4. QueueInv'
  <2>1. OneEntry'
    BY <1>1 DEF JobsInv, QueueInv, OneEntry
  <2>2. ASSUME NEW i \in 1..Len(queue'), NEW e, e = queue'[i] PROVE Meant(e)'
    <3>1. Meant(e) /\ e.by # 0 => e.by # q.by
      BY <1>1, <1>3, <2>2 DEF JobsInv, QueueInv
    <3>2. Meant(e)
      BY <1>1, <2>2 DEF JobsInv, QueueInv
    <3>3. CASE e.by = 0
      BY <1>2, <3>2, <3>3 DEF Meant
    <3>4. ASSUME NEW w \in work, w.slot = e.by, w.job = e.job, w.pc = "waiting",
                 e.op \in Written, e.op = "requeue" => w.signal = "JOB_INTERRUPTED",
                 e.op = "commit" => commits[e.job] < MaxCommits
          PROVE  Meant(e)'
      <4>1. e.by # q.by /\ w \in work'
        BY <1>2, <1>3, <2>2, <3>4
      <4>2. commits'[e.job] = commits[e.job]
        <5>1. CASE q.by = 0
          BY <5>1
        <5>2. CASE q.by # 0
          <6>1. Meant(q)
            BY <1>1 DEF JobsInv, QueueInv
          <6>2. PICK v \in work : v.slot = q.by /\ v.job = q.job
            BY <5>2, <6>1 DEF Meant
          <6>3. e.job # q.job
            BY <3>4, <4>1, <6>2 DEF JobsInv, WorkInv, OneExecution
          <6>4. e.job \in JobIds
            BY <3>4 DEF JobsInv, Rows, Executions
          <6> QED BY <6>3, <6>4
        <5> QED BY <5>1, <5>2
      <4> QED BY <3>4, <4>1, <4>2 DEF Meant
    <3> QED BY <3>2, <3>3, <3>4 DEF Meant
  <2> QED BY <2>1, <2>2 DEF QueueInv
<1>5. ASSUME NEW i \in 1..Len(queue'), queue'[i].op = "cancel", NEW f \in work', f.job = queue'[i].job
      PROVE  Behind(i, f)'
  <2>1. i + 1 \in 1..Len(queue) /\ queue[i + 1].op = "cancel" /\ f.job = queue[i + 1].job
    BY <1>1, <1>5
  <2>2. \A v \in work : v.job = f.job => Behind(i + 1, v)
    BY <2>1 DEF JobsInv, AskedInv
  <2>3. CASE f \in work /\ f.slot # q.by
    <3>1. CASE f.signal # "none" \/ f.pc \in {"begin", "catch"}
      BY <3>1 DEF Behind
    <3>2. ASSUME NEW k \in 1..Len(queue), queue[k].by = f.slot,
                 queue[k].op = "fail" \/ (queue[k].op = "markRunning" /\ i + 1 < k)
          PROVE  Behind(i, f)'
      <4>1. k # 1
        BY <1>1, <2>3, <3>2
      <4>2. /\ k - 1 \in 1..Len(queue') /\ queue'[k - 1] = queue[k]
            /\ i + 1 < k => i < k - 1
        BY <1>1, <4>1
      <4> QED BY <3>2, <4>2 DEF Behind
    <3> QED BY <2>2, <2>3, <3>1, <3>2 DEF Behind
  <2>4. CASE f.pc \in {"begin", "catch"} \/ f.signal # "none"
    BY <2>4 DEF Behind
  <2>5. ASSUME NEW v \in work, v.slot = q.by, f.slot = v.slot, f.job = v.job, f.signal = v.signal,
               f.pc = "importing", f.signal = "none", q.op # "fail"
        PROVE  FALSE
    <3>1. v.pc = "waiting"
      BY <1>1, <2>5, EntryOf
    <3>2. Behind(i + 1, v)
      BY <2>2, <2>5
    <3>3. PICK k \in 1..Len(queue) : /\ queue[k].by = v.slot
                                     /\ queue[k].op = "fail" \/ (queue[k].op = "markRunning" /\ i + 1 < k)
      BY <2>5, <3>1, <3>2 DEF Behind
    <3>4. k = 1
      BY <1>1, <1>2, <2>5, <3>3 DEF JobsInv, QueueInv, OneEntry
    <3> QED BY <1>1, <2>5, <3>3, <3>4
  <2> QED BY <2>3, <2>4, <2>5 DEF Next1
<1>6. \A i, k \in 1..Len(queue') :
         i < k /\ queue'[i].op = "cancel" /\ queue'[k].op = "complete" => queue'[i].job # queue'[k].job
  <2> SUFFICES ASSUME NEW i \in 1..Len(queue'), NEW k \in 1..Len(queue'),
                      i < k, queue'[i].op = "cancel", queue'[k].op = "complete"
               PROVE  queue'[i].job # queue'[k].job
    OBVIOUS
  <2>1. i + 1 \in 1..Len(queue) /\ k + 1 \in 1..Len(queue) /\ i + 1 < k + 1
    BY <1>1
  <2> QED BY <1>1, <2>1 DEF JobsInv, AskedInv
<1> QED BY <1>4, <1>5, <1>6 DEF AskedInv

\* A heard job after the head ran: its intent and its execution are left alone by what q writes.
LEMMA HeardPopped ==
    ASSUME JobsInv, queue # <<>>, queue' = Tail(queue), NEW q, q = Head(queue),
           \A f \in work' : Next1(q, f),
           NEW j \in heard, \A f \in work' : f.pc = "begin" /\ f \notin work => f.job # j
    PROVE  Ending(j)'
<1>1. /\ Len(queue) \in Nat /\ Len(queue) >= 1 /\ Len(queue') = Len(queue) - 1 /\ q = queue[1]
      /\ \A i \in 1..Len(queue') : i + 1 \in 1..Len(queue) /\ queue'[i] = queue[i + 1]
  BY Taken DEF JobsInv, Rows
<1>2. \A v \in work : v.slot # 0
  BY DEF JobsInv, Rows, Executions, Slots
<1>3. Ending(j)
  BY DEF JobsInv, HeardInv
<1> SUFFICES ASSUME NEW f \in work', f.job = j
             PROVE  /\ f.signal = "JOB_CANCELLED"
                    /\ \A i \in 1..Len(queue') : queue'[i].by = f.slot => queue'[i].op \in {"commit", "fail"}
  BY DEF Ending
<1>4. CASE f \in work
  BY <1>1, <1>3, <1>4 DEF Ending
<1>5. ASSUME NEW v \in work, v.slot = q.by, f.slot = v.slot, f.job = v.job, f.signal = v.signal
      PROVE  /\ f.signal = "JOB_CANCELLED"
             /\ \A i \in 1..Len(queue') : queue'[i].by = f.slot => queue'[i].op \in {"commit", "fail"}
  BY <1>1, <1>3, <1>5 DEF Ending
<1> QED BY <1>4, <1>5 DEF Next1

-----------------------------------------------------------------------------
(* The steps of the process and of its requests.                           *)

LEMMA JobsInit == ASSUME Init PROVE JobsInv
<1>1. Rows
  <2>1. {MaxPending, MaxCommits, MaxLives} \subseteq Nat
    BY JobsAssumption DEF JobsAssumption
  <2>2. <<>> \in Seq(Entries) /\ Len(<<>>) = 0
    OBVIOUS
  <2>3. row \in [JobIds -> [status : Statuses, cancel : BOOLEAN]]
    BY DEF Init, Statuses
  <2>4. commits \in [JobIds -> 0..MaxCommits] /\ cancelled \in [JobIds -> 0..MaxLives]
    BY <2>1 DEF Init
  <2>5. queue \in Seq(Entries) /\ Len(queue) <= MaxPending
    BY <2>1, <2>2 DEF Init
  <2>6. phase \in {"down", "serving", "draining", "drained"} /\ stopping \in BOOLEAN
    BY DEF Init
  <2>7. work \subseteq Executions /\ active \subseteq JobIds /\ refused \subseteq JobIds /\ heard \subseteq Imports
    BY DEF Init
  <2> QED BY <2>3, <2>4, <2>5, <2>6, <2>7 DEF Rows
<1>2. Ready
  BY JobsAssumption DEF Ready, Init, JobsAssumption
<1>3. QueueInv /\ AskedInv
  BY DEF Init, QueueInv, OneEntry, AskedInv
<1>4. WorkInv /\ NoOrphan /\ HeardInv
  BY DEF Init, WorkInv, OneExecution, NoOrphan, HeardInv
<1> QED BY <1>1, <1>2, <1>3, <1>4 DEF JobsInv

LEMMA Quiet ==
    ASSUME JobsInv,
           UNCHANGED <<row, queue, work, active, phase, stopping, life, commits, cancelled, heard, refused>>,
           Ready'
    PROVE  JobsInv'
<1>1. Rows' /\ QueueInv' /\ NoOrphan'
  BY DEF JobsInv, Rows, QueueInv, OneEntry, Meant, NoOrphan, Open
<1>2. WorkInv' /\ AskedInv'
  BY DEF JobsInv, WorkInv, OneExecution, Open, AskedInv, Behind
<1>3. HeardInv'
  BY DEF JobsInv, HeardInv, Intended, Ending, Open
<1> QED BY <1>1, <1>2, <1>3 DEF JobsInv

LEMMA AskKeeps ==
    ASSUME JobsInv, NEW j \in JobIds, NEW what \in Asked, Ask(what, j) PROVE JobsInv'
<1>1. inflight' \subseteq [what : Asked, job : JobIds, at : {"accepted", "queued"}]
  BY DEF Ask, JobsInv, Ready
<1>2. \A r \in inflight' : r.what # "create" => r.job \in Imports
  BY DEF Ask, JobsInv, Ready
<1>3. asks' \in 0..MaxAsks
  BY JobsAssumption DEF JobsAssumption, Ask, JobsInv, Ready
<1>4. Ready'
  BY <1>1, <1>2, <1>3 DEF Ask, JobsInv, Ready
<1> QED BY <1>4, Quiet DEF Ask

LEMMA StartKeeps == ASSUME JobsInv, Start PROVE JobsInv'
<1>1. queue = <<>> /\ work = {} /\ queue' = <<>> /\ phase' = "serving" /\ ~stopping'
  BY DEF Start, JobsInv, Ready
<1>2. PICK f \in [Replayed -> Slots] :
         /\ \A a, b \in Replayed : a # b => f[a] # f[b]
         /\ work' = {Fresh(j, f[j]) : j \in Replayed}
  BY DEF Start
<1>3. Replayed \subseteq JobIds
  BY DEF Replayed, JobIds
<1>4. \A j \in Replayed : Open(j) /\ ~row[j].cancel
  BY DEF Replayed
<1>5. \A w \in work' : /\ w \in Executions /\ w.job \in Replayed /\ w.slot = f[w.job]
                       /\ w.pc = "begin" /\ w.signal = "none" /\ w = Fresh(w.job, f[w.job])
  <2>1. \A j \in Replayed : LET w == Fresh(j, f[j]) IN
           w \in Executions /\ w.job = j /\ w.slot = f[j] /\ w.pc = "begin" /\ w.signal = "none"
    BY <1>3 DEF Fresh, Executions, Signals
  <2> QED BY <1>2, <2>1
<1>6. \A j \in Replayed : \E w \in work' : w.job = j
  <2>1. \A j \in Replayed : Fresh(j, f[j]) \in work' /\ Fresh(j, f[j]).job = j
    BY <1>2 DEF Fresh
  <2> QED BY <2>1
<1>7. \A j \in JobIds : row'[j] = IF ~Open(j) THEN row[j]
                                  ELSE [status |-> IF j \in Replayed THEN "queued" ELSE "failed", cancel |-> FALSE]
  BY DEF Start
<1>8. \A j \in JobIds : Open(j)' <=> j \in Replayed
  <2> SUFFICES ASSUME NEW j \in JobIds
               PROVE  row'[j].status \in {"queued", "running"} <=> j \in Replayed
    BY DEF Open
  <2>1. CASE ~Open(j)
    BY <1>4, <1>7, <2>1 DEF Open
  <2>2. CASE Open(j)
    <3>1. row'[j] = [status |-> IF j \in Replayed THEN "queued" ELSE "failed", cancel |-> FALSE]
      BY <1>7, <2>2
    <3>2. row'[j].status = IF j \in Replayed THEN "queued" ELSE "failed"
      BY <3>1
    <3> QED BY <3>2
  <2> QED BY <2>1, <2>2
<1>9. Rows'
  <2>1. row' \in [JobIds -> [status : Statuses, cancel : BOOLEAN]]
    BY DEF Start, JobsInv, Rows, Statuses
  <2>2. work' \subseteq Executions /\ active' \subseteq JobIds
    BY <1>3, <1>5 DEF Start
  <2> QED BY <1>1, <2>1, <2>2 DEF Start, JobsInv, Rows
<1>10. Ready'
  BY JobsAssumption DEF Start, JobsInv, Ready, JobsAssumption
<1>11. QueueInv' /\ AskedInv'
  BY <1>1 DEF QueueInv, OneEntry, AskedInv
<1>12. WorkInv'
  <2>1. \A v, w \in work' : v.slot = w.slot => v = w
    BY <1>2, <1>5
  <2>2. \A v, w \in work' : v.job = w.job => v = w
    BY <1>5
  <2>3. active' = {w.job : w \in work'}
    BY <1>5, <1>6 DEF Start
  <2>4. \A w \in work' : Open(w.job)'
    BY <1>3, <1>5, <1>8
  <2> QED BY <1>5, <2>1, <2>2, <2>3, <2>4 DEF WorkInv, OneExecution
<1>13. NoOrphan'
  BY <1>6, <1>8 DEF NoOrphan
<1>14. HeardInv'
  <2> SUFFICES ASSUME NEW j \in heard PROVE Intended(j)' /\ Ending(j)'
    BY DEF HeardInv, Start
  <2>1. Intended(j) /\ j \in JobIds
    BY DEF JobsInv, HeardInv, Rows, JobIds
  <2>2. j \notin Replayed
    BY <1>4, <2>1 DEF Intended, Open
  <2>3. row'[j].status = "failed"
    <3>1. CASE Open(j)
      <4>1. row'[j] = [status |-> "failed", cancel |-> FALSE]
        BY <1>7, <2>1, <2>2, <3>1
      <4> QED BY <4>1
    <3>2. CASE ~Open(j)
      BY <1>7, <2>1, <3>2 DEF Intended
    <3> QED BY <3>1, <3>2
  <2> QED BY <1>5, <2>2, <2>3 DEF Intended, Ending
<1> QED BY <1>9, <1>10, <1>11, <1>12, <1>13, <1>14 DEF JobsInv

LEMMA ExitKeeps == ASSUME JobsInv, Exit PROVE JobsInv'
<1>1. Rows'
  <2>1. queue' \in Seq(Entries) /\ Len(queue') <= MaxPending
    BY JobsAssumption DEF Exit, JobsAssumption
  <2> QED BY <2>1 DEF Exit, JobsInv, Rows
<1>2. Ready' /\ QueueInv' /\ AskedInv'
  BY DEF Exit, JobsInv, Ready, QueueInv, OneEntry, AskedInv
<1>3. WorkInv' /\ NoOrphan'
  BY DEF Exit, WorkInv, OneExecution, NoOrphan
<1>4. HeardInv'
  BY DEF Exit, JobsInv, HeardInv, Intended, Ending, Open
<1> QED BY <1>1, <1>2, <1>3, <1>4 DEF JobsInv

LEMMA StopKeeps == ASSUME JobsInv, Stop PROVE JobsInv'
<1> DEFINE h == [w \in work |-> [w EXCEPT !.watched = TRUE,
                    !.signal = IF @ = "none" /\ w.job \in Imports THEN "JOB_INTERRUPTED" ELSE @]]
<1>1. work' = {h[v] : v \in work}
  BY DEF Stop
<1>2. ASSUME NEW v \in work PROVE Same(v, h[v])
  <2>1. v \in [slot : Slots, job : JobIds, signal : Signals, watched : BOOLEAN,
               pc : {"begin", "waiting", "importing", "catch"}]
    BY DEF JobsInv, Rows, Executions
  <2>2. CASE v.signal = "none" /\ v.job \in Imports
    <3>1. h[v] = [v EXCEPT !.watched = TRUE, !.signal = "JOB_INTERRUPTED"]
      BY <2>1, <2>2
    <3> HIDE DEF h
    <3>2. h[v] \in Executions
      BY <2>1, <3>1 DEF Executions, Signals
    <3>3. h[v].slot = v.slot /\ h[v].job = v.job /\ h[v].pc = v.pc /\ h[v].signal = "JOB_INTERRUPTED"
      BY <2>1, <3>1
    <3> QED BY <2>2, <3>2, <3>3 DEF Same
  <2>3. CASE ~(v.signal = "none" /\ v.job \in Imports)
    <3>1. h[v] = [v EXCEPT !.watched = TRUE]
      BY <2>1, <2>3
    <3> HIDE DEF h
    <3>2. h[v] \in Executions
      BY <2>1, <3>1 DEF Executions
    <3>3. h[v].slot = v.slot /\ h[v].job = v.job /\ h[v].pc = v.pc /\ h[v].signal = v.signal
      BY <2>1, <3>1
    <3> QED BY <3>2, <3>3 DEF Same
  <2> QED BY <2>2, <2>3
<1> HIDE DEF h
<1>3. work' \subseteq Executions
  BY <1>1, <1>2 DEF Same
<1>4. QueueInv' /\ WorkInv' /\ NoOrphan' /\ AskedInv' /\ HeardInv'
  BY <1>1, <1>2, Relabelled DEF Stop
<1>5. Rows' /\ Ready'
  BY <1>3 DEF Stop, JobsInv, Rows, Ready
<1> QED BY <1>4, <1>5 DEF JobsInv

LEMMA DrainedKeeps == ASSUME JobsInv, Drained PROVE JobsInv'
<1>1. Rows' /\ Ready' /\ QueueInv' /\ NoOrphan'
  BY DEF Drained, JobsInv, Rows, Ready, QueueInv, OneEntry, Meant, NoOrphan, Open
<1>2. WorkInv' /\ AskedInv'
  BY DEF Drained, JobsInv, WorkInv, OneExecution, Open, AskedInv, Behind
<1>3. HeardInv'
  BY DEF Drained, JobsInv, HeardInv, Intended, Ending, Open
<1> QED BY <1>1, <1>2, <1>3 DEF JobsInv

LEMMA HandleKeeps == ASSUME JobsInv, NEW r \in inflight, Handle(r) PROVE JobsInv'
<1> DEFINE h == [w \in work |-> IF r.what = "cancel" /\ w.job = r.job /\ w.signal = "none"
                                   THEN [w EXCEPT !.signal = "JOB_CANCELLED"] ELSE w]
<1>1. work' = {h[v] : v \in work}
  BY DEF Handle, Aborted
<1>2. \A v \in work : v \in Executions
  BY DEF JobsInv, Rows
<1>3. \A v \in work : /\ h[v] \in Executions /\ h[v].slot = v.slot /\ h[v].job = v.job /\ h[v].pc = v.pc
                      /\ \/ h[v].signal = v.signal
                         \/ v.signal = "none" /\ h[v].signal = "JOB_CANCELLED"
                      /\ r.what = "cancel" /\ v.job = r.job => h[v].signal # "none"
  BY <1>2 DEF Executions, Signals
<1> HIDE DEF h
<1>5. work' \subseteq Executions
  BY <1>1, <1>3
<1>6. r.what \in Asked /\ r.job \in JobIds /\ (r.what # "create" => r.job \in Imports)
  BY DEF JobsInv, Ready
<1>7. Ready'
  <2>1. phase # "down"
    BY DEF JobsInv, Ready
  <2> QED BY <1>6, <2>1 DEF Handle, JobsInv, Ready
<1>8. CASE queue' = queue
  <2>1. \A v \in work : Same(v, h[v])
    BY <1>3 DEF Same
  <2>2. \A v \in work : h[v].signal = "JOB_INTERRUPTED" => v.signal = "JOB_INTERRUPTED"
    BY <1>3
  <2>3. QueueInv' /\ WorkInv' /\ NoOrphan' /\ AskedInv' /\ HeardInv'
    BY <1>1, <1>8, <2>1, <2>2, Relabelled DEF Handle
  <2>4. Rows'
    BY <1>5, <1>8 DEF Handle, JobsInv, Rows
  <2> QED BY <1>7, <2>3, <2>4 DEF JobsInv
<1>9. CASE Room /\ queue' = Append(queue, [op |-> r.what, job |-> r.job, by |-> 0])
  <2> DEFINE e == [op |-> r.what, job |-> r.job, by |-> 0]
  <2>1. e \in Entries /\ e.op = r.what /\ e.job = r.job /\ e.by = 0
    BY <1>6 DEF Entries, Asked, Ops
  <2>2. \A v \in work : v.slot # 0
    BY <1>2 DEF Executions, Slots
  <2> HIDE DEF e
  <2>3. queue' = Append(queue, e)
    BY <1>9 DEF e
  <2>4. QueueInv' /\ WorkInv' /\ NoOrphan' /\ AskedInv' /\ HeardInv'
    <3>1. \A v \in work :
              /\ h[v] \in Executions /\ h[v].slot = v.slot /\ h[v].job = v.job
              /\ h[v].pc = IF v.slot = e.by THEN "waiting" ELSE v.pc
              /\ h[v].signal = v.signal \/ (v.signal = "none" /\ h[v].signal = "JOB_CANCELLED" /\ e.by = 0)
      BY <1>3, <2>1, <2>2
    <3>2. e.op = "cancel" => \A v \in work : v.job = e.job => h[v].signal # "none"
      BY <1>3, <2>1
    <3>3. UNCHANGED <<row, active, commits, refused, heard, phase, stopping>>
      BY DEF Handle
    <3> QED BY <1>1, <1>6, <2>1, <2>3, <3>1, <3>2, <3>3, Queued
  <2>5. queue' \in Seq(Entries) /\ Len(queue') <= MaxPending
    <3>1. queue \in Seq(Entries) /\ MaxPending \in Nat
      BY JobsAssumption DEF JobsAssumption, JobsInv, Rows
    <3>2. queue' \in Seq(Entries) /\ Len(queue') = Len(queue) + 1 /\ Len(queue) \in Nat
      BY <2>1, <2>3, <3>1, Put
    <3> QED BY <1>9, <3>1, <3>2 DEF Room
  <2>6. Rows'
    BY <1>5, <2>5 DEF Handle, JobsInv, Rows
  <2> QED BY <1>7, <2>4, <2>6 DEF JobsInv
<1> QED BY <1>8, <1>9 DEF Handle

-----------------------------------------------------------------------------
(* The steps of an execution.                                              *)

\* One execution changes.
LEMMA ChangedOne ==
    ASSUME NEW w \in work, NEW f, work' = Changed(w, f)
    PROVE  LET h == [v \in work |-> IF v = w THEN f ELSE v] IN
           /\ work' = {h[v] : v \in work} /\ h[w] = f /\ \A v \in work : v # w => h[v] = v
  BY DEF Changed

\* An execution whose last write the full queue refuses is gone, and its row stays open.
LEMMA GivesUp ==
    ASSUME JobsInv, NEW w \in work, w.pc # "waiting", Ended(w),
           UNCHANGED <<row, queue, commits, phase, stopping>>,
           refused' = refused \cup {w.job}, heard' = heard \ {w.job}
    PROVE  QueueInv' /\ WorkInv' /\ NoOrphan' /\ AskedInv' /\ HeardInv'
<1>1. work' = work \ {w} /\ active' = active \ {w.job}
  BY DEF Ended
<1>2. \A v \in work : v # w => v.job # w.job
  BY DEF JobsInv, WorkInv, OneExecution
<1>3. QueueInv'
  <2>1. ASSUME NEW i \in 1..Len(queue), NEW e, e = queue[i] PROVE Meant(e)'
    <3>1. Meant(e)
      BY <2>1 DEF JobsInv, QueueInv
    <3> QED BY <1>1, <3>1 DEF Meant
  <2> QED BY <2>1 DEF JobsInv, QueueInv, OneEntry
<1>4. WorkInv'
  BY <1>1, <1>2 DEF JobsInv, WorkInv, OneExecution, Open
<1>5. NoOrphan'
  BY <1>1 DEF JobsInv, NoOrphan, Open
<1>6. AskedInv'
  BY <1>1 DEF JobsInv, AskedInv, Behind
<1>7. HeardInv'
  BY <1>1, <1>2 DEF JobsInv, HeardInv, Intended, Ending, Open
<1> QED BY <1>3, <1>4, <1>5, <1>6, <1>7

LEMMA MutateKeeps ==
    ASSUME JobsInv, NEW w \in work, NEW op \in Written, Mutate(w, op),
           NEW e, e = [op |-> op, job |-> w.job, by |-> w.slot], Puts(w, e),
           UNCHANGED <<row, inflight, phase, stopping, asks, life, commits, cancelled>>
    PROVE  JobsInv'
<1>1. w \in Executions /\ w.slot # 0
  BY DEF JobsInv, Rows, Executions, Slots
<1>2. e \in Entries /\ e.op = op /\ e.job = w.job /\ e.by = w.slot
  BY <1>1 DEF Entries, Executions, Written, Ops
<1>3. phase # "down"
  BY DEF JobsInv, Ready
<1>4. Ready'
  BY <1>3 DEF JobsInv, Ready
<1>5. \A v \in work : v \in Executions /\ (v # w => v.slot # w.slot)
  BY DEF JobsInv, Rows, WorkInv
<1>6. CASE Room
  <2> DEFINE f == [w EXCEPT !.pc = "waiting"]
             h == [v \in work |-> IF v = w THEN f ELSE v]
  <2>1. work' = {h[v] : v \in work} /\ h[w] = f /\ \A v \in work : v # w => h[v] = v
    BY <1>6, ChangedOne DEF Mutate
  <2>2. f \in Executions /\ f.slot = w.slot /\ f.job = w.job /\ f.pc = "waiting" /\ f.signal = w.signal
    BY <1>1 DEF Executions
  <2> HIDE DEF f, h
  <2>3. queue' = Append(queue, e) /\ UNCHANGED <<active, refused, heard>>
    BY <1>6 DEF Mutate
  <2>4. \A v \in work :
              /\ h[v] \in Executions /\ h[v].slot = v.slot /\ h[v].job = v.job
              /\ h[v].pc = IF v.slot = e.by THEN "waiting" ELSE v.pc
              /\ h[v].signal = v.signal
    BY <1>2, <1>5, <2>1, <2>2
  <2>5. e.op # "cancel" /\ e.by # 0
    BY <1>1, <1>2 DEF Written
  <2>6. QueueInv' /\ WorkInv' /\ NoOrphan' /\ AskedInv' /\ HeardInv'
    BY <1>2, <2>1, <2>3, <2>4, <2>5, Queued
  <2>7. queue' \in Seq(Entries) /\ Len(queue') <= MaxPending
    <3>1. queue \in Seq(Entries) /\ MaxPending \in Nat
      BY JobsAssumption DEF JobsAssumption, JobsInv, Rows
    <3>2. queue' \in Seq(Entries) /\ Len(queue') = Len(queue) + 1 /\ Len(queue) \in Nat
      BY <1>2, <2>3, <3>1, Put
    <3> QED BY <1>6, <3>1, <3>2 DEF Room
  <2>8. work' \subseteq Executions
    BY <2>1, <2>4
  <2>9. Rows'
    BY <2>3, <2>7, <2>8 DEF JobsInv, Rows
  <2> QED BY <1>4, <2>6, <2>9 DEF JobsInv
<1>7. ASSUME ~Room PROVE /\ refused' = refused \cup {w.job} /\ heard' = heard \ {w.job} /\ queue' = queue
                         /\ w.job \in JobIds
  BY <1>1, <1>7 DEF Mutate, Executions
<1>8. CASE ~Room /\ w.pc = "catch"
  <2>1. Ended(w)
    BY <1>8 DEF Mutate
  <2>2. QueueInv' /\ WorkInv' /\ NoOrphan' /\ AskedInv' /\ HeardInv'
    BY <1>7, <1>8, <2>1, GivesUp
  <2>3. Rows'
    BY <1>7, <1>8, <2>1 DEF Ended, JobsInv, Rows
  <2> QED BY <1>4, <2>2, <2>3 DEF JobsInv
<1>9. CASE ~Room /\ w.pc # "catch"
  <2> DEFINE f == [w EXCEPT !.pc = "catch"]
             h == [v \in work |-> IF v = w THEN f ELSE v]
  <2>1. work' = {h[v] : v \in work} /\ h[w] = f /\ \A v \in work : v # w => h[v] = v
    BY <1>9, ChangedOne DEF Mutate
  <2>2. f \in Executions /\ f.slot = w.slot /\ f.job = w.job /\ f.pc = "catch" /\ f.signal = w.signal
    BY <1>1 DEF Executions
  <2> HIDE DEF f, h
  <2>3. \A v \in work : Same(v, h[v]) /\ h[v].signal = v.signal
    BY <1>5, <2>1, <2>2 DEF Same, Puts
  <2>4. queue' = queue /\ UNCHANGED active /\ refused \subseteq refused' /\ heard' \subseteq heard
    BY <1>7, <1>9 DEF Mutate
  <2>5. QueueInv' /\ WorkInv' /\ NoOrphan' /\ AskedInv' /\ HeardInv'
    BY <2>1, <2>3, <2>4, Relabelled
  <2>6. work' \subseteq Executions
    BY <2>1, <2>3 DEF Same
  <2>7. Rows'
    BY <1>7, <1>9, <2>4, <2>6 DEF JobsInv, Rows
  <2> QED BY <1>4, <2>5, <2>7 DEF JobsInv
<1> QED BY <1>6, <1>8, <1>9

\* An execution goes to its failure handler without a write.
LEMMA FailsKeeps ==
    ASSUME JobsInv, NEW w \in work, w.pc # "waiting", NEW f \in Executions, work' = Changed(w, f),
           f.slot = w.slot, f.job = w.job, f.pc = "catch",
           f.signal = w.signal \/ (w.signal = "none" /\ f.signal = "JOB_CANCELLED"),
           UNCHANGED <<row, queue, active, refused, heard, inflight, phase, stopping, asks, life, commits, cancelled>>
    PROVE  JobsInv'
<1> DEFINE h == [v \in work |-> IF v = w THEN f ELSE v]
<1>1. work' = {h[v] : v \in work} /\ h[w] = f /\ \A v \in work : v # w => h[v] = v
  BY ChangedOne
<1> HIDE DEF h
<1>2. \A v \in work : Same(v, h[v]) /\ (h[v].signal = "JOB_INTERRUPTED" => v.signal = "JOB_INTERRUPTED")
  BY <1>1 DEF JobsInv, Rows, Same
<1>3. QueueInv' /\ WorkInv' /\ NoOrphan' /\ AskedInv' /\ HeardInv'
  BY <1>1, <1>2, Relabelled
<1>4. work' \subseteq Executions
  BY <1>1, <1>2 DEF Same
<1>5. Rows' /\ Ready'
  BY <1>4 DEF JobsInv, Rows, Ready
<1> QED BY <1>3, <1>5 DEF JobsInv

LEMMA BeginKeeps == ASSUME JobsInv, NEW w \in work, Begin(w) PROVE JobsInv'
<1>1. w \in Executions /\ w.pc = "begin"
  BY DEF Begin, JobsInv, Rows
<1>2. CASE w.job \in Imports /\ (row[w.job].cancel \/ w.signal # "none")
  <2> DEFINE f == [w EXCEPT !.pc = "catch", !.signal = IF @ = "none" THEN "JOB_CANCELLED" ELSE @]
  <2>1. work' = Changed(w, f) /\ UNCHANGED <<queue, active, refused, heard>>
    BY <1>2 DEF Begin
  <2>2. /\ f \in Executions /\ f.slot = w.slot /\ f.job = w.job /\ f.pc = "catch"
        /\ f.signal = IF w.signal = "none" THEN "JOB_CANCELLED" ELSE w.signal
    <3>1. w \in [slot : Slots, job : JobIds, signal : Signals, watched : BOOLEAN,
                 pc : {"begin", "waiting", "importing", "catch"}]
      BY <1>1 DEF Executions
    <3>2. f = [w EXCEPT !.pc = "catch", !.signal = IF w.signal = "none" THEN "JOB_CANCELLED" ELSE w.signal]
      BY <3>1
    <3> QED BY <3>1, <3>2 DEF Executions, Signals
  <2> HIDE DEF f
  <2> QED BY <1>1, <2>1, <2>2, FailsKeeps DEF Begin
<1>3. CASE ~(w.job \in Imports /\ (row[w.job].cancel \/ w.signal # "none"))
  <2> DEFINE e == [op |-> "markRunning", job |-> w.job, by |-> w.slot]
  <2>1. Mutate(w, "markRunning") /\ "markRunning" \in Written
    BY <1>3 DEF Begin, Written
  <2>2. Puts(w, e)
    BY <1>1, <1>3 DEF Puts, Written
  <2> QED BY <2>1, <2>2, MutateKeeps DEF Begin
<1> QED BY <1>2, <1>3

LEMMA ImportKeeps == ASSUME JobsInv, NEW w \in work, Import(w) PROVE JobsInv'
<1>1. w \in Executions /\ w.pc = "importing"
  BY DEF Import, JobsInv, Rows
<1>2. CASE work' = Changed(w, [w EXCEPT !.pc = "catch"]) /\ UNCHANGED <<queue, active, refused, heard>>
  <2> DEFINE f == [w EXCEPT !.pc = "catch"]
  <2>1. f \in Executions /\ f.slot = w.slot /\ f.job = w.job /\ f.pc = "catch" /\ f.signal = w.signal
    BY <1>1 DEF Executions
  <2>2. work' = Changed(w, f)
    BY <1>2
  <2> HIDE DEF f
  <2> QED BY <1>1, <1>2, <2>1, <2>2, FailsKeeps DEF Import
<1>3. CASE commits[w.job] < MaxCommits /\ Mutate(w, "commit")
  <2> DEFINE e == [op |-> "commit", job |-> w.job, by |-> w.slot]
  <2>1. Puts(w, e) /\ "commit" \in Written
    BY <1>1, <1>3 DEF Puts, Written
  <2> QED BY <1>3, <2>1, MutateKeeps DEF Import
<1>4. CASE (w.job \in Imports => w.signal = "none") /\ Mutate(w, "complete")
  <2> DEFINE e == [op |-> "complete", job |-> w.job, by |-> w.slot]
  <2>1. Puts(w, e) /\ "complete" \in Written
    BY <1>1, <1>4 DEF Puts, Written
  <2> QED BY <1>4, <2>1, MutateKeeps DEF Import
<1> QED BY <1>2, <1>3, <1>4 DEF Import

LEMMA CatchKeeps == ASSUME JobsInv, NEW w \in work, Catch(w) PROVE JobsInv'
<1> DEFINE op == IF w.signal = "JOB_INTERRUPTED" THEN "requeue" ELSE "fail"
           e == [op |-> op, job |-> w.job, by |-> w.slot]
<1>1. w.pc = "catch" /\ op \in Written /\ Mutate(w, op)
  BY DEF Catch, Written
<1>2. Puts(w, e)
  BY <1>1 DEF Puts, Written
<1> QED BY <1>1, <1>2, MutateKeeps DEF Catch

-----------------------------------------------------------------------------
(* What the head of the queue does.                                        *)

\* What every turn of the queue has in common.
LEMMA HeadIs ==
    ASSUME JobsInv, Perform, NEW q, q = Head(queue)
    PROVE  /\ queue # <<>> /\ phase # "down" /\ queue' = Tail(queue) /\ 1 \in 1..Len(queue) /\ q = queue[1]
           /\ queue' \in Seq(Entries) /\ Len(queue') <= MaxPending
           /\ q \in Entries /\ Meant(q) /\ UNCHANGED <<phase, stopping, asks, life, refused>>
<1>1. queue # <<>> /\ phase # "down" /\ queue' = Tail(queue) /\ UNCHANGED <<phase, stopping, asks, life, refused>>
  BY DEF Perform
<1>2. /\ queue' \in Seq(Entries) /\ Len(queue') = Len(queue) - 1 /\ Len(queue) \in Nat /\ Len(queue) >= 1
      /\ q = queue[1] /\ q \in Entries
  BY <1>1, Taken DEF JobsInv, Rows
<1>3. Meant(q)
  BY <1>2 DEF JobsInv, QueueInv
<1>4. Len(queue') <= MaxPending
  BY <1>2, JobsAssumption DEF JobsInv, Rows, JobsAssumption
<1> QED BY <1>1, <1>2, <1>3, <1>4

\* A request that is answered leaves the others.
LEMMA AnsweredReady ==
    ASSUME JobsInv, phase # "down", UNCHANGED <<phase, stopping, asks, life>>, inflight' \subseteq inflight
    PROVE  Ready'
  BY DEF JobsInv, Ready

\* A job without an execution is given one, and a row that is not open goes to the queue.
LEMMA ScheduledKeeps ==
    ASSUME JobsInv, Perform, NEW q, q = Head(queue), q.by = 0, q.job \notin active,
           work' = Scheduled(q.job), active' = active \cup {q.job}, inflight' \subseteq inflight,
           \/ row' = Moved(row, q.job, "queued")
           \/ row' = row /\ Open(q.job),
           UNCHANGED commits, heard' \subseteq heard, q.job \notin heard',
           cancelled' = cancelled \/ cancelled' = [cancelled EXCEPT ![q.job] = 0]
    PROVE  JobsInv'
<1> DEFINE j == q.job
           s == Free(1)[1]
           f == Fresh(j, s)
<1>1. /\ queue # <<>> /\ phase # "down" /\ queue' = Tail(queue) /\ j \in JobIds
      /\ queue' \in Seq(Entries) /\ Len(queue') <= MaxPending
      /\ UNCHANGED <<phase, stopping, asks, life, refused>>
  <2>1. q \in Entries
    BY HeadIs
  <2>2. j \in JobIds
    BY <2>1 DEF Entries
  <2> HIDE DEF j
  <2> QED BY <2>2, HeadIs
<1>2. work' = work \cup {f}
  BY DEF Scheduled
<1>3. s \in Slots /\ \A w \in work : w.slot # s
  BY FreeSlot
<1>4. f \in Executions /\ f.slot = s /\ f.job = j /\ f.pc = "begin" /\ f.signal = "none"
  BY <1>1, <1>3 DEF Fresh, Executions, Signals
<1>5. \A w \in work : w.job # j
  BY DEF JobsInv, WorkInv
<1> HIDE DEF j, s, f
<1>6. /\ row' \in [JobIds -> [status : Statuses, cancel : BOOLEAN]]
      /\ row'[j].status \in {"queued", "running"}
      /\ \A i \in JobIds : i # j => row'[i] = row[i]
  <2>1. CASE row' = Moved(row, j, "queued")
    BY <1>1, <2>1 DEF Moved, JobsInv, Rows, Statuses
  <2>2. CASE row' = row /\ Open(j)
    BY <2>2 DEF JobsInv, Rows, Open
  <2> QED BY <2>1, <2>2 DEF j
<1>7. \A v \in work : v.slot # 0
  BY DEF JobsInv, Rows, Executions, Slots
<1>8. \A g \in work' : Next1(q, g)
  BY <1>2, <1>3, <1>4, <1>7 DEF Next1
<1>9. QueueInv' /\ AskedInv'
  BY <1>1, <1>2, <1>8, Popped
<1>10. WorkInv'
  <2>1. \A v, w \in work' : v.slot = w.slot => v = w
    BY <1>2, <1>3, <1>4 DEF JobsInv, WorkInv
  <2>2. \A v, w \in work' : v.job = w.job => v = w
    BY <1>2, <1>4, <1>5 DEF JobsInv, WorkInv, OneExecution
  <2>3. active' = {w.job : w \in work'}
    BY <1>2, <1>4 DEF JobsInv, WorkInv, j
  <2>4. \A w \in work' : row'[w.job].status \in {"queued", "running"}
    BY <1>2, <1>4, <1>5, <1>6 DEF JobsInv, WorkInv, Open, Rows, Executions
  <2>5. \A w \in work' : w.signal = "JOB_INTERRUPTED" => stopping'
    BY <1>1, <1>2, <1>4 DEF JobsInv, WorkInv
  <2> QED BY <2>1, <2>2, <2>3, <2>4, <2>5 DEF WorkInv, OneExecution, Open
<1>11. NoOrphan'
  BY <1>1, <1>2, <1>4, <1>6 DEF JobsInv, NoOrphan, Open
<1>12. HeardInv'
  <2> SUFFICES ASSUME NEW i \in heard' PROVE Intended(i)' /\ Ending(i)'
    BY DEF HeardInv
  <2>1. i \in heard /\ i # j /\ i \in JobIds /\ Intended(i)
    BY DEF JobsInv, HeardInv, Rows, JobIds, j
  <2>2. Intended(i)'
    BY <1>1, <1>2, <1>6, <2>1 DEF Intended, Open
  <2>3. Ending(i)'
    BY <1>1, <1>2, <1>4, <1>8, <2>1, HeardPopped
  <2> QED BY <2>2, <2>3
<1>13. Rows'
  <2>1. work' \subseteq Executions /\ active' \subseteq JobIds
    BY <1>1, <1>2, <1>4 DEF JobsInv, Rows, j
  <2>2. cancelled' \in [JobIds -> 0..MaxLives]
    BY JobsAssumption DEF JobsAssumption, JobsInv, Rows
  <2> QED BY <1>1, <1>6, <2>1, <2>2 DEF JobsInv, Rows
<1>14. Ready'
  BY <1>1, AnsweredReady
<1> QED BY <1>9, <1>10, <1>11, <1>12, <1>13, <1>14 DEF JobsInv

\* A request that changes no execution and leaves rows open that were.
LEMMA NotedKeeps ==
    ASSUME JobsInv, Perform, NEW q, q = Head(queue), q.by = 0,
           UNCHANGED <<work, active, commits>>, inflight' \subseteq inflight,
           row' \in [JobIds -> [status : Statuses, cancel : BOOLEAN]],
           \A j \in JobIds : row'[j].status = row[j].status /\ (row[j].cancel => row'[j].cancel),
           heard' \subseteq Imports, \A j \in heard' : j \in heard \/ (Intended(j)' /\ Ending(j)'),
           cancelled' \in [JobIds -> 0..MaxLives]
    PROVE  JobsInv'
<1>1. /\ queue # <<>> /\ phase # "down" /\ queue' = Tail(queue)
      /\ queue' \in Seq(Entries) /\ Len(queue') <= MaxPending
      /\ UNCHANGED <<phase, stopping, asks, life, refused>>
  BY HeadIs
<1>2. \A v \in work : v.slot # 0
  BY DEF JobsInv, Rows, Executions, Slots
<1>3. \A g \in work' : Next1(q, g)
  BY <1>2 DEF Next1
<1>4. QueueInv' /\ AskedInv'
  BY <1>1, <1>3, Popped
<1>5. WorkInv'
  BY <1>1 DEF JobsInv, WorkInv, OneExecution, Open, Rows, Executions
<1>6. NoOrphan'
  BY <1>1 DEF JobsInv, NoOrphan, Open
<1>7. HeardInv'
  <2> SUFFICES ASSUME NEW i \in heard' PROVE Intended(i)' /\ Ending(i)'
    BY DEF HeardInv
  <2>1. CASE i \in heard
    <3>1. i \in JobIds /\ Intended(i)
      BY <2>1 DEF JobsInv, HeardInv, Rows, JobIds
    <3>2. Intended(i)'
      BY <1>1, <3>1 DEF Intended, Open
    <3> QED BY <1>1, <1>3, <2>1, <3>2, HeardPopped
  <2> QED BY <2>1
<1>8. Rows'
  BY <1>1 DEF JobsInv, Rows
<1>9. Ready'
  BY <1>1, AnsweredReady
<1> QED BY <1>4, <1>5, <1>6, <1>7, <1>8, <1>9 DEF JobsInv

LEMMA AtRequest ==
    ASSUME JobsInv, Perform, NEW q, q = Head(queue), q.op \in Asked
    PROVE  q.by = 0 /\ q.job \in JobIds /\ (q.op # "create" => q.job \in Imports)
  BY HeadIs DEF Meant, Asked, Written, Entries

LEMMA CreateKeeps ==
    ASSUME JobsInv, Perform, NEW q, q = Head(queue), Create(q) PROVE JobsInv'
<1>1. q.op \in Asked /\ inflight' \subseteq inflight /\ UNCHANGED <<commits, cancelled, heard>>
  BY DEF Create, Answered, Asked
<1>2. q.by = 0 /\ q.job \in JobIds
  BY <1>1, AtRequest
<1>3. CASE UNCHANGED <<row, work, active>>
  BY <1>1, <1>2, <1>3, NotedKeeps DEF JobsInv, Rows
<1>4. CASE ~UNCHANGED <<row, work, active>>
  <2>1. /\ row[q.job].status \notin {"completed", "failed"}
        /\ row' = IF Open(q.job) THEN row ELSE Moved(row, q.job, "queued")
        /\ work' = Scheduled(q.job) /\ active' = active \cup {q.job}
    BY <1>4 DEF Create
  <2>2. q.job \notin active
    <3> SUFFICES ASSUME q.job \in active PROVE FALSE
      OBVIOUS
    <3>1. Open(q.job)
      BY DEF JobsInv, WorkInv
    <3>2. UNCHANGED <<row, work, active>>
      BY <2>1, <3>1 DEF Scheduled
    <3> QED BY <1>4, <3>2
  <2>3. q.job \notin heard'
    <3> SUFFICES ASSUME q.job \in heard PROVE FALSE
      BY <1>1
    <3>1. Intended(q.job) /\ phase # "down"
      BY HeadIs DEF JobsInv, HeardInv
    <3>2. \E w \in work : w.job = q.job
      BY <2>1, <3>1 DEF Intended
    <3> QED BY <2>2, <3>2 DEF JobsInv, WorkInv
  <2> QED BY <1>1, <1>2, <2>1, <2>2, <2>3, ScheduledKeeps
<1> QED BY <1>3, <1>4

LEMMA ResumeKeeps ==
    ASSUME JobsInv, Perform, NEW q, q = Head(queue), Resume(q) PROVE JobsInv'
<1>1. q.op \in Asked /\ inflight' \subseteq inflight /\ UNCHANGED commits
  BY DEF Resume, Answered, Asked
<1>2. q.by = 0 /\ q.job \in JobIds
  BY <1>1, AtRequest
<1>3. CASE row[q.job].status \in {"absent", "completed"} \/ q.job \in active
  <2>1. UNCHANGED <<row, work, active, cancelled, heard>>
    BY <1>3 DEF Resume
  <2> QED BY <1>1, <1>2, <2>1, NotedKeeps DEF JobsInv, Rows
<1>4. CASE ~(row[q.job].status \in {"absent", "completed"} \/ q.job \in active)
  <2>1. /\ row' = Moved(row, q.job, "queued") /\ work' = Scheduled(q.job) /\ active' = active \cup {q.job}
        /\ cancelled' = [cancelled EXCEPT ![q.job] = 0] /\ heard' = heard \ {q.job}
    BY <1>4 DEF Resume
  <2> QED BY <1>1, <1>2, <1>4, <2>1, ScheduledKeeps
<1> QED BY <1>3, <1>4

LEMMA RequestCancellationKeeps ==
    ASSUME JobsInv, Perform, NEW q, q = Head(queue), RequestCancellation(q) PROVE JobsInv'
<1>1. q.op = "cancel" /\ q.op \in Asked /\ inflight' \subseteq inflight /\ UNCHANGED <<work, active, commits>>
  BY DEF RequestCancellation, Answered, Asked
<1>2. q.by = 0 /\ q.job \in JobIds /\ q.job \in Imports
  BY <1>1, AtRequest
<1>3. /\ row' \in [JobIds -> [status : Statuses, cancel : BOOLEAN]]
      /\ \A j \in JobIds : row'[j].status = row[j].status /\ (row[j].cancel => row'[j].cancel)
      /\ Open(q.job) => row'[q.job].cancel
  <2>1. row \in [JobIds -> [status : Statuses, cancel : BOOLEAN]]
    BY DEF JobsInv, Rows
  <2>2. CASE Open(q.job)
    <3>1. row' = [row EXCEPT ![q.job].cancel = TRUE]
      BY <2>2 DEF RequestCancellation
    <3> QED BY <1>2, <2>1, <3>1
  <2>3. CASE ~Open(q.job)
    BY <2>1, <2>3 DEF RequestCancellation
  <2> QED BY <2>2, <2>3
<1>4. heard' \subseteq Imports /\ cancelled' \in [JobIds -> 0..MaxLives]
  BY <1>2 DEF RequestCancellation, JobsInv, Rows, Ready
<1>5. ASSUME NEW j \in heard', j \notin heard PROVE Intended(j)' /\ Ending(j)'
  <2>1. j = q.job /\ Open(j)
    BY <1>5 DEF RequestCancellation
  <2>2. PICK w \in work : w.job = j /\ w.signal = "JOB_CANCELLED" /\ ~ToRunning(w)
    BY <1>5, <2>1 DEF RequestCancellation
  <2>3. row'[j].status \in {"queued", "running"} /\ row'[j].cancel
    BY <1>2, <1>3, <2>1 DEF Open
  <2>4. Intended(j)'
    BY <1>1, <2>2, <2>3 DEF Intended, Open
  <2>5. \A v \in work : v.job = j => v = w
    BY <2>2 DEF JobsInv, WorkInv, OneExecution
  <2>6. \A i \in 1..Len(queue) : queue[i].by = w.slot => queue[i].op \in {"commit", "fail"}
    <3> SUFFICES ASSUME NEW i \in 1..Len(queue), queue[i].by = w.slot PROVE queue[i].op \in {"commit", "fail"}
      OBVIOUS
    <3>1. queue[i].by # 0 /\ queue[i].op \in Written /\ queue[i].job = w.job /\ queue[i].op # "requeue"
      BY <2>2, EntryOf
    <3>2. queue[i].op # "markRunning"
      BY <2>2 DEF ToRunning
    <3>3. 1 \in 1..Len(queue) /\ q = queue[1]
      BY HeadIs
    <3>4. 1 < i
      BY <1>2, <3>1, <3>3
    <3>5. queue[i].op # "complete"
      BY <1>1, <2>1, <2>2, <3>1, <3>3, <3>4 DEF JobsInv, AskedInv
    <3> QED BY <3>1, <3>2, <3>5 DEF Written
  <2>7. /\ Len(queue) \in Nat /\ Len(queue') = Len(queue) - 1
        /\ \A i \in 1..Len(queue') : i + 1 \in 1..Len(queue) /\ queue'[i] = queue[i + 1]
    BY HeadIs, Taken DEF JobsInv, Rows
  <2>8. Ending(j)'
    <3> SUFFICES ASSUME NEW v \in work, v.job = j
                 PROVE  /\ v.signal = "JOB_CANCELLED"
                        /\ \A i \in 1..Len(queue') : queue'[i].by = v.slot => queue'[i].op \in {"commit", "fail"}
      BY <1>1 DEF Ending
    <3>1. v = w
      BY <2>5
    <3> QED BY <2>2, <2>6, <2>7, <3>1
  <2> QED BY <2>4, <2>8
<1> QED BY <1>1, <1>2, <1>3, <1>4, <1>5, NotedKeeps

\* The turn of an execution's write: q is its only entry.
LEMMA AtWrite ==
    ASSUME JobsInv, Perform, NEW q, q = Head(queue), NEW w \in work, w.slot = q.by
    PROVE  /\ q.by # 0 /\ q.op \in Written /\ q.job = w.job /\ w.pc = "waiting" /\ w \in Executions
           /\ q.op = "requeue" => w.signal = "JOB_INTERRUPTED"
           /\ q.op = "commit" => commits[w.job] < MaxCommits
           /\ w.job \in heard => q.op \in {"commit", "fail"} /\ w.signal = "JOB_CANCELLED"
           /\ \A v \in work : v # w => v.job # w.job /\ v.slot # w.slot
           /\ w.job \in JobIds
<1>1. 1 \in 1..Len(queue) /\ q = queue[1]
  BY HeadIs
<1>2. w.job \in heard => q.op \in {"commit", "fail"} /\ w.signal = "JOB_CANCELLED"
  BY <1>1 DEF JobsInv, HeardInv, Ending
<1>3. \A v \in work : v # w => v.job # w.job /\ v.slot # w.slot
  BY DEF JobsInv, WorkInv, OneExecution
<1>4. w \in Executions /\ w.job \in JobIds
  BY DEF JobsInv, Rows, Executions
<1> QED BY <1>1, <1>2, <1>3, <1>4, EntryOf

\* The execution goes on after its write.
LEMMA GoesOnKeeps ==
    ASSUME JobsInv, Perform, NEW q, q = Head(queue), NEW w \in work, w.slot = q.by,
           NEW f \in Executions, work' = Changed(w, f), f.slot = w.slot, f.job = w.job, f.signal = w.signal,
           f.pc = "catch" \/ f.pc = "importing", q.op \in {"markRunning", "commit"},
           UNCHANGED <<active, inflight, cancelled, heard>>,
           row' = row \/ (q.op = "markRunning" /\ row' = Moved(row, q.job, "running")),
           commits' \in [JobIds -> 0..MaxCommits], \A j \in JobIds : j # q.job => commits'[j] = commits[j]
    PROVE  JobsInv'
<1>1. /\ queue # <<>> /\ phase # "down" /\ queue' = Tail(queue)
      /\ queue' \in Seq(Entries) /\ Len(queue') <= MaxPending
      /\ UNCHANGED <<phase, stopping, asks, life, refused>>
  BY HeadIs
<1>2. /\ q.by # 0 /\ q.job = w.job /\ q.job \in JobIds
      /\ \A v \in work : v # w => v.job # w.job /\ v.slot # w.slot
      /\ w.job \in heard => q.op = "commit"
  BY AtWrite
<1>3. work' = (work \ {w}) \cup {f}
  BY DEF Changed
<1>4. /\ row' \in [JobIds -> [status : Statuses, cancel : BOOLEAN]]
      /\ \A j \in JobIds : j # w.job => row'[j] = row[j]
      /\ row'[w.job] = row[w.job] \/ (w.job \notin heard /\ row'[w.job].status = "running")
  <2>1. CASE row' = row
    BY <2>1 DEF JobsInv, Rows
  <2>2. CASE q.op = "markRunning" /\ row' = Moved(row, q.job, "running")
    <3>1. w.job \notin heard
      BY <1>2, <2>2
    <3> QED BY <1>2, <2>2, <3>1 DEF Moved, JobsInv, Rows, Statuses
  <2> QED BY <2>1, <2>2
<1>5. \A g \in work' : Next1(q, g)
  <2>1. Next1(q, f)
    BY DEF Next1
  <2>2. \A v \in work : v # w => Next1(q, v)
    BY <1>2 DEF Next1
  <2> QED BY <1>3, <2>1, <2>2
<1>6. QueueInv' /\ AskedInv'
  <2>1. \A v \in work : v.slot # q.by => v \in work'
    BY <1>3
  <2> QED BY <1>1, <1>2, <1>5, <2>1, Popped
<1>7. \A j : (\E v \in work : v.job = j) <=> (\E v \in work' : v.job = j)
  BY <1>3
<1>8. \A j \in JobIds : Open(j) => row'[j].status \in {"queued", "running"}
  BY <1>4 DEF Open
<1>9. Open(w.job) /\ \A j \in JobIds : row'[j].status \in {"queued", "running"} => Open(j)
  <2>1. Open(w.job)
    BY DEF JobsInv, WorkInv
  <2> QED BY <1>4, <2>1 DEF Open
<1>10. WorkInv'
  <2>1. \A u, v \in work' : u.slot = v.slot => u = v
    BY <1>2, <1>3 DEF JobsInv, WorkInv
  <2>2. \A u, v \in work' : u.job = v.job => u = v
    BY <1>2, <1>3 DEF JobsInv, WorkInv, OneExecution
  <2>3. active' = {v.job : v \in work'}
    BY <1>3 DEF JobsInv, WorkInv
  <2>4. \A v \in work' : row'[v.job].status \in {"queued", "running"}
    BY <1>3, <1>8, <1>9 DEF JobsInv, WorkInv, Rows, Executions
  <2>5. \A v \in work' : v.signal = "JOB_INTERRUPTED" => stopping'
    BY <1>1, <1>3 DEF JobsInv, WorkInv
  <2> QED BY <2>1, <2>2, <2>3, <2>4, <2>5 DEF WorkInv, OneExecution, Open
<1>11. NoOrphan'
  <2> SUFFICES ASSUME NEW j \in JobIds, phase = "serving", row'[j].status \in {"queued", "running"}, j \notin refused
               PROVE  \E v \in work' : v.job = j
    BY <1>1 DEF NoOrphan, Open
  <2> QED BY <1>7, <1>9 DEF JobsInv, NoOrphan
<1>12. HeardInv'
  <2> SUFFICES ASSUME NEW i \in heard PROVE Intended(i)' /\ Ending(i)'
    BY DEF HeardInv
  <2>1. i \in JobIds /\ Intended(i)
    BY DEF JobsInv, HeardInv, Rows, JobIds
  <2>2. row'[i] = row[i]
    BY <1>4, <2>1
  <2>3. Intended(i)'
    <3>1. (\E v \in work : v.job = i) <=> (\E v \in work' : v.job = i)
      BY <1>7
    <3>2. row'[i].status = row[i].status /\ row'[i].cancel = row[i].cancel
      BY <2>2
    <3> QED BY <1>1, <3>1, <3>2, <2>1 DEF Intended, Open
  <2>4. \A g \in work' : g.pc = "begin" /\ g \notin work => g.job # i
    BY <1>3
  <2>5. Ending(i)'
    BY <1>1, <1>5, <2>4, HeardPopped
  <2> QED BY <2>3, <2>5
<1>13. Rows'
  <2>1. work' \subseteq Executions
    BY <1>3 DEF JobsInv, Rows
  <2> QED BY <1>1, <1>4, <2>1 DEF JobsInv, Rows
<1>14. Ready'
  BY <1>1, AnsweredReady
<1> QED BY <1>6, <1>10, <1>11, <1>12, <1>13, <1>14 DEF JobsInv

LEMMA MarkRunningKeeps ==
    ASSUME JobsInv, Perform, NEW q, q = Head(queue), NEW w \in work, w.slot = q.by, MarkRunning(q, w),
           UNCHANGED <<inflight, cancelled, heard>>
    PROVE  JobsInv'
<1> DEFINE f == [w EXCEPT !.pc = "importing"]
<1>1. w \in Executions
  BY AtWrite
<1>2. f \in Executions /\ f.slot = w.slot /\ f.job = w.job /\ f.signal = w.signal /\ f.pc = "importing"
  BY <1>1 DEF Executions
<1>3. work' = Changed(w, f) /\ q.op = "markRunning" /\ row' = Moved(row, q.job, "running")
      /\ UNCHANGED <<active, commits>>
  BY DEF MarkRunning
<1>4. commits' \in [JobIds -> 0..MaxCommits]
  BY <1>3 DEF JobsInv, Rows
<1> HIDE DEF f
<1> QED BY <1>2, <1>3, <1>4, GoesOnKeeps

LEMMA CommitKeeps ==
    ASSUME JobsInv, Perform, NEW q, q = Head(queue), NEW w \in work, w.slot = q.by, Commit(q, w),
           UNCHANGED <<inflight, cancelled, heard>>
    PROVE  JobsInv'
<1> DEFINE f == [w EXCEPT !.pc = IF w.signal = "none" THEN "importing" ELSE "catch"]
<1>1. w \in Executions /\ q.op = "commit" /\ q.job = w.job /\ w.job \in JobIds /\ commits[w.job] < MaxCommits
  BY AtWrite DEF Commit
<1>2. f \in Executions /\ f.slot = w.slot /\ f.job = w.job /\ f.signal = w.signal /\ f.pc \in {"importing", "catch"}
  BY <1>1 DEF Executions
<1>3. work' = Changed(w, f) /\ UNCHANGED <<row, active>>
  BY DEF Commit
<1>4. commits \in [JobIds -> 0..MaxCommits] /\ MaxCommits \in Nat
  BY JobsAssumption DEF JobsAssumption, JobsInv, Rows
<1>5. commits' \in [JobIds -> 0..MaxCommits] /\ \A j \in JobIds : j # q.job => commits'[j] = commits[j]
  <2>1. CASE w.signal = "none"
    <3>1. commits' = [commits EXCEPT ![w.job] = commits[w.job] + 1]
      BY <1>1, <2>1 DEF Commit
    <3>2. commits[w.job] + 1 \in 0..MaxCommits
      BY <1>1, <1>4
    <3> QED BY <1>1, <1>4, <3>1, <3>2
  <2>2. CASE w.signal # "none"
    BY <1>4, <2>2 DEF Commit
  <2> QED BY <2>1, <2>2
<1> HIDE DEF f
<1> QED BY <1>1, <1>2, <1>3, <1>5, GoesOnKeeps

LEMMA FinishKeeps ==
    ASSUME JobsInv, Perform, NEW q, q = Head(queue), NEW w \in work, w.slot = q.by, Finish(q, w),
           UNCHANGED <<inflight, cancelled, heard>>
    PROVE  JobsInv'
<1>1. /\ queue # <<>> /\ phase # "down" /\ queue' = Tail(queue)
      /\ queue' \in Seq(Entries) /\ Len(queue') <= MaxPending
      /\ UNCHANGED <<phase, stopping, asks, life, refused>>
  BY HeadIs
<1>2. /\ q.by # 0 /\ q.job = w.job /\ q.job \in JobIds
      /\ \A v \in work : v # w => v.job # w.job /\ v.slot # w.slot
      /\ q.op = "requeue" => w.signal = "JOB_INTERRUPTED"
      /\ w.job \in heard => q.op \in {"commit", "fail"}
  BY AtWrite
<1>3. work' = work \ {w} /\ active' = active \ {w.job} /\ UNCHANGED commits
  BY DEF Finish, Ended
<1>4. /\ row' \in [JobIds -> [status : Statuses, cancel : BOOLEAN]]
      /\ \A j \in JobIds : j # w.job => row'[j] = row[j]
      /\ row'[w.job].status \in {"completed", "queued", "failed"}
      /\ row'[w.job].status = "queued" => q.op = "requeue"
      /\ w.job \in heard => row'[w.job].status = "failed"
  <2> DEFINE to == CASE q.op = "complete" -> "completed"
                     [] q.op = "requeue"  -> "queued"
                     [] q.op = "fail"     -> "failed"
  <2>1. /\ q.op \in {"complete", "requeue", "fail"} /\ row' = Moved(row, w.job, to)
    BY <1>2 DEF Finish
  <2>2. to \in {"completed", "queued", "failed"} /\ (to = "queued" => q.op = "requeue") /\ (q.op = "fail" => to = "failed")
    BY <2>1
  <2> HIDE DEF to
  <2> QED BY <1>2, <2>1, <2>2 DEF Moved, JobsInv, Rows, Statuses
<1>5. \A g \in work' : Next1(q, g)
  BY <1>2, <1>3 DEF Next1
<1>6. QueueInv' /\ AskedInv'
  <2>1. \A v \in work : v.slot # q.by => v \in work'
    BY <1>3
  <2> QED BY <1>1, <1>2, <1>3, <1>5, <2>1, Popped
<1>7. WorkInv'
  <2>1. active' = {v.job : v \in work'}
    BY <1>2, <1>3 DEF JobsInv, WorkInv
  <2>2. \A v \in work' : row'[v.job].status \in {"queued", "running"}
    BY <1>2, <1>3, <1>4 DEF JobsInv, WorkInv, Open, Rows, Executions
  <2> QED BY <1>1, <1>3, <2>1, <2>2 DEF JobsInv, WorkInv, OneExecution, Open
<1>8. NoOrphan'
  <2> SUFFICES ASSUME NEW j \in JobIds, phase = "serving", row'[j].status \in {"queued", "running"}, j \notin refused
               PROVE  \E v \in work' : v.job = j
    BY <1>1 DEF NoOrphan, Open
  <2>1. j # w.job
    <3>1. ~stopping
      BY DEF JobsInv, Ready
    <3>2. w.signal # "JOB_INTERRUPTED"
      BY <3>1 DEF JobsInv, WorkInv
    <3> QED BY <1>2, <1>4, <3>2
  <2>2. \E v \in work : v.job = j
    BY <1>4, <2>1 DEF JobsInv, NoOrphan, Open
  <2> QED BY <1>3, <2>1, <2>2
<1>9. HeardInv'
  <2> SUFFICES ASSUME NEW i \in heard PROVE Intended(i)' /\ Ending(i)'
    BY DEF HeardInv
  <2>1. i \in JobIds /\ Intended(i)
    BY DEF JobsInv, HeardInv, Rows, JobIds
  <2>2. Intended(i)'
    <3>1. CASE i = w.job
      BY <1>4, <3>1 DEF Intended
    <3>2. CASE i # w.job
      BY <1>1, <1>3, <1>4, <2>1, <3>2 DEF Intended, Open
    <3> QED BY <3>1, <3>2
  <2>3. Ending(i)'
    BY <1>1, <1>3, <1>5, HeardPopped
  <2> QED BY <2>2, <2>3
<1>10. Rows'
  BY <1>1, <1>3, <1>4 DEF JobsInv, Rows
<1>11. Ready'
  BY <1>1, AnsweredReady
<1> QED BY <1>6, <1>7, <1>8, <1>9, <1>10, <1>11 DEF JobsInv

LEMMA PerformKeeps == ASSUME JobsInv, Perform PROVE JobsInv'
<1> DEFINE q == Head(queue)
<1>1. \/ Create(q) \/ Resume(q) \/ RequestCancellation(q)
      \/ \E w \in work : /\ w.slot = q.by
                         /\ MarkRunning(q, w) \/ Commit(q, w) \/ Finish(q, w)
                         /\ UNCHANGED <<inflight, cancelled, heard>>
  BY DEF Perform
<1> HIDE DEF q
<1>2. q = Head(queue)
  BY DEF q
<1> QED
  BY <1>1, <1>2, CreateKeeps, ResumeKeeps, RequestCancellationKeeps, MarkRunningKeeps, CommitKeeps, FinishKeeps

LEMMA NextKeeps == ASSUME JobsInv, [Next]_vars PROVE JobsInv'
<1>1. CASE Start
  BY <1>1, StartKeeps
<1>2. CASE Stop
  BY <1>2, StopKeeps
<1>3. CASE Drained
  BY <1>3, DrainedKeeps
<1>4. CASE Exit
  BY <1>4, ExitKeeps
<1>5. CASE Perform
  BY <1>5, PerformKeeps
<1>6. CASE Execution
  BY <1>6, BeginKeeps, ImportKeeps, CatchKeeps DEF Execution
<1>7. CASE Done \/ UNCHANGED vars
  <2>1. Ready'
    BY <1>7 DEF Done, vars, JobsInv, Ready
  <2> QED BY <1>7, <2>1, Quiet DEF Done, vars
<1>8. ASSUME NEW j \in JobIds, NEW what \in {"create", "resume", "cancel"}, Ask(what, j) PROVE JobsInv'
  BY <1>8, AskKeeps DEF Asked
<1>9. ASSUME NEW r \in inflight, Handle(r) PROVE JobsInv'
  BY <1>9, HandleKeeps
<1> QED BY <1>1, <1>2, <1>3, <1>4, <1>5, <1>6, <1>7, <1>8, <1>9 DEF Next

LEMMA JobsAlways == Spec => []JobsInv
  BY JobsInit, NextKeeps, PTL DEF Spec

-----------------------------------------------------------------------------
(* The theorems.                                                           *)

\* Whatever requests, full queues, shutdowns and deaths do, a job has at most one execution and an
\* open job of a serving Engine has one, unless the full queue refused it a write (job-runner.ts).
THEOREM ExecutionSafe == Spec => []ExecutionInv
<1>1. JobsInv => ExecutionInv
  BY TypesHold DEF ExecutionInv, JobsInv, WorkInv
<1> QED BY <1>1, JobsAlways, PTL

\* What the writes of executions do to rows and commits.
LEMMA WritesOf ==
    ASSUME JobsInv, Perform, NEW q, q = Head(queue), NEW w \in work, w.slot = q.by,
           MarkRunning(q, w) \/ Commit(q, w) \/ Finish(q, w)
    PROVE  /\ \A j \in JobIds : j # w.job => row'[j] = row[j] /\ commits'[j] = commits[j]
           /\ row[w.job].status \in {"queued", "running"}
           /\ w.job \in heard => commits'[w.job] = commits[w.job] /\ row'[w.job].status # "completed"
<1>1. /\ q.job = w.job /\ w.job \in JobIds
      /\ w.job \in heard => q.op \in {"commit", "fail"} /\ w.signal = "JOB_CANCELLED"
  BY AtWrite
<1>2. row[w.job].status \in {"queued", "running"}
  BY DEF JobsInv, WorkInv, Open
<1>3. row \in [JobIds -> [status : Statuses, cancel : BOOLEAN]] /\ commits \in [JobIds -> 0..MaxCommits]
  BY DEF JobsInv, Rows
<1>4. CASE MarkRunning(q, w)
  BY <1>1, <1>2, <1>3, <1>4 DEF MarkRunning, Moved
<1>5. CASE Commit(q, w)
  BY <1>1, <1>2, <1>3, <1>5 DEF Commit
<1>6. CASE Finish(q, w)
  BY <1>1, <1>2, <1>3, <1>6 DEF Finish, Moved
<1> QED BY <1>4, <1>5, <1>6

\* A cancellation that was written while the execution had its signal is final until somebody resumes
\* the job or the execution loses a write: nothing more is committed, the import never completes.
THEOREM CancellationsHold == Spec => CancelHolds
<1> DEFINE Holds == \A j \in heard \cap heard' : commits'[j] = commits[j] /\ row'[j].status # "completed"
<1>1. ASSUME JobsInv, [Next]_vars PROVE Holds \/ UNCHANGED vars
  <2> SUFFICES ASSUME NEW j \in heard, j \in heard' PROVE commits'[j] = commits[j] /\ row'[j].status # "completed"
    BY DEF Holds
  <2>1. j \in JobIds /\ row[j].status # "completed" /\ Intended(j)
    BY <1>1 DEF JobsInv, HeardInv, Intended, Open, Rows, JobIds
  <2>2. CASE UNCHANGED <<row, commits>>
    BY <2>1, <2>2
  <2>3. CASE Start
    BY <2>1, <2>3 DEF Start
  <2>4. CASE Perform
    <3> DEFINE q == Head(queue)
    <3> HIDE DEF q
    <3>1. q = Head(queue)
      BY DEF q
    <3>2. CASE Create(q)
      <4>1. commits' = commits /\ (row' = row \/ row' = Moved(row, q.job, "queued"))
        BY <3>2 DEF Create
      <4>2. row \in [JobIds -> [status : Statuses, cancel : BOOLEAN]]
        BY <1>1 DEF JobsInv, Rows
      <4> QED BY <2>1, <4>1, <4>2 DEF Moved
    <3>3. CASE Resume(q)
      BY <1>1, <2>1, <3>3 DEF Resume, Moved, JobsInv, Rows
    <3>4. CASE RequestCancellation(q)
      BY <1>1, <2>1, <3>4 DEF RequestCancellation, JobsInv, Rows
    <3>5. ASSUME NEW w \in work, w.slot = q.by, MarkRunning(q, w) \/ Commit(q, w) \/ Finish(q, w)
          PROVE  commits'[j] = commits[j] /\ row'[j].status # "completed"
      BY <1>1, <2>1, <2>4, <3>1, <3>5, WritesOf
    <3> QED BY <2>4, <3>2, <3>3, <3>4, <3>5 DEF Perform, q
  <2> QED BY <1>1, <2>2, <2>3, <2>4
          DEF Next, vars, Stop, Drained, Exit, Execution, Begin, Import, Catch, Done, Ask, Handle
<1>2. JobsInv /\ [Next]_vars => [Holds]_vars
  BY <1>1
<1> QED BY <1>2, JobsAlways, PTL DEF Spec, CancelHolds, Holds

\* Neither a request nor a restart undoes a verdict, and a restore never runs in an Engine that was
\* not asked for it.
THEOREM VerdictsStay == Spec => VerdictsHold
<1>1. ASSUME JobsInv, [Next]_vars PROVE VerdictStays \/ UNCHANGED vars
  <2> SUFFICES ASSUME NEW j \in JobIds
               PROVE  /\ row[j].status = "completed" => row'[j].status = "completed"
                      /\ row[j].status = "failed" /\ row'[j].status # "failed"
                            => j \in Imports /\ row'[j].status = "queued"
    BY DEF VerdictStays
  <2>1. CASE UNCHANGED row
    BY <2>1
  <2>2. CASE Start
    BY <2>2 DEF Start, Open
  <2>3. CASE Perform
    <3> DEFINE q == Head(queue)
    <3> HIDE DEF q
    <3>1. q = Head(queue)
      BY DEF q
    <3>2. CASE Create(q)
      BY <1>1, <3>2 DEF Create, Moved, Open, JobsInv, Rows
    <3>3. CASE Resume(q)
      <4>1. q.job \in Imports
        BY <1>1, <2>3, <3>1, <3>3, AtRequest DEF Resume, Asked
      <4> QED BY <1>1, <3>3, <4>1 DEF Resume, Moved, JobsInv, Rows
    <3>4. CASE RequestCancellation(q)
      BY <1>1, <3>4 DEF RequestCancellation, JobsInv, Rows
    <3>5. ASSUME NEW w \in work, w.slot = q.by, MarkRunning(q, w) \/ Commit(q, w) \/ Finish(q, w)
          PROVE  row[j].status \in {"completed", "failed"} => row'[j] = row[j]
      BY <1>1, <2>3, <3>1, <3>5, WritesOf
    <3> QED BY <2>3, <3>2, <3>3, <3>4, <3>5 DEF Perform, q
  <2> QED BY <1>1, <2>1, <2>2, <2>3
          DEF Next, vars, Stop, Drained, Exit, Execution, Begin, Import, Catch, Done, Ask, Handle
<1>2. ASSUME JobsInv, [Next]_vars PROVE RestoreNotReplayed
  <2> SUFFICES ASSUME NEW j \in Restores, Open(j), phase = "down", phase' # "down" PROVE row'[j].status = "failed"
    BY DEF RestoreNotReplayed
  <2>1. Start
    BY <1>2 DEF Next, vars, Stop, Drained, Exit, Perform, Execution, Begin, Import, Catch, Done, Ask, Handle,
                JobsInv, Ready
  <2>2. j \in JobIds /\ j \notin Replayed
    BY JobsAssumption DEF JobsAssumption, Replayed, JobIds
  <2>3. row'[j] = [status |-> "failed", cancel |-> FALSE]
    BY <2>1, <2>2 DEF Start
  <2> QED BY <2>3
<1>3. JobsInv /\ [Next]_vars => [VerdictStays /\ RestoreNotReplayed]_vars
  BY <1>1, <1>2
<1> QED BY <1>3, JobsAlways, PTL DEF Spec, VerdictsHold
=============================================================================
