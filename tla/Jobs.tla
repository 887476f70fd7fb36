-------------------------------- MODULE Jobs --------------------------------
(***************************************************************************)
(* The background jobs of the Engine: `apps/engine/src/jobs/job-runner.ts` *)
(* and `job-store.ts`, over the write queue of                             *)
(* `session-store/src/write-coordinator.ts`.                               *)
(*                                                                         *)
(* A job is a row.  Its execution is a chain of promises that touches the  *)
(* row only through the queue; HTTP requests create, cancel and resume     *)
(* jobs through the same queue, and a shutdown interrupts the imports,     *)
(* waits for them and lets the requests it had accepted finish.            *)
(***************************************************************************)
EXTENDS Naturals, Sequences, FiniteSets

CONSTANTS Imports,       \* the Codex import jobs: cancellable, resumable
          Applies,       \* scan and apply jobs: replayed by a restart
          Restores,      \* restore and recover jobs: never replayed
          MaxPending,    \* entries the write queue holds
          MaxAsks,       \* bound: HTTP requests
          MaxCommits,    \* bound: sessions one import commits
          MaxLives       \* bound: starts of the Engine

JobIds == Imports \cup Applies \cup Restores
Slots  == 1..(Cardinality(JobIds) + 1)

\* A job has one kind; the bounds are numbers.
ASSUME JobsAssumption ==
    /\ IsFiniteSet(JobIds)
    /\ Imports \cap Applies = {} /\ Restores \cap (Imports \cup Applies) = {}
    /\ {MaxPending, MaxAsks, MaxCommits, MaxLives} \subseteq Nat

VARIABLES
    row,        \* [JobIds -> [status, cancel]]: table jobs; cancel is {cancelRequested: true}
    queue,      \* the coordinator's FIFO of [op, job, by]; by is an execution or 0
    work,       \* the executions: [slot, job, pc, signal, watched]
    active,     \* the runner's set of jobs with an execution
    inflight,   \* the accepted requests: [what, job, at]
    phase,      \* of the process: down, serving, draining, drained
    stopping,   \* the runner's flag
    asks, life, \* requests made, starts of the Engine
    commits,    \* [JobIds -> Nat]: sessions the import committed
    cancelled,  \* [JobIds -> Nat]: the life in which a cancellation was persisted
    heard,      \* history: the jobs whose cancellation was persisted while their execution had its
                \* signal, and that ended by its own write since, or did not end
    refused     \* the jobs one of whose writes the full queue refused

vars == <<row, queue, work, active, inflight, phase, stopping, asks, life, commits, cancelled,
          heard, refused>>

Statuses == {"absent", "queued", "running", "completed", "failed"}
Signals  == {"none", "JOB_CANCELLED", "JOB_INTERRUPTED"}
Ops      == {"create", "resume", "cancel", "markRunning", "commit", "complete", "requeue", "fail"}

\* The row's columns are typed and each queued write of an execution has that execution waiting
\* for it: nothing else advances it meanwhile (`await this.mutate(...)`).
TypeOK ==
    /\ row \in [JobIds -> [status : Statuses, cancel : BOOLEAN]]
    /\ queue \in Seq([op : Ops, job : JobIds, by : Slots \cup {0}]) /\ Len(queue) <= MaxPending
    /\ work \subseteq [slot : Slots, job : JobIds, signal : Signals, watched : BOOLEAN,
                       pc : {"begin", "waiting", "importing", "catch"}]
    /\ active \subseteq JobIds /\ refused \subseteq JobIds /\ heard \subseteq Imports
    /\ phase \in {"down", "serving", "draining", "drained"} /\ stopping \in BOOLEAN
    /\ commits \in [JobIds -> 0..MaxCommits] /\ cancelled \in [JobIds -> 0..MaxLives]
    /\ \A i \in 1..Len(queue) :
          queue[i].by # 0 => \E w \in work : w.slot = queue[i].by /\ w.pc = "waiting"

Init ==
    /\ row = [j \in JobIds |-> [status |-> "absent", cancel |-> FALSE]]
    /\ queue = <<>> /\ work = {} /\ active = {} /\ inflight = {} /\ refused = {} /\ heard = {}
    /\ phase = "down" /\ stopping = FALSE /\ asks = 0 /\ life = 0
    /\ commits = [j \in JobIds |-> 0] /\ cancelled = [j \in JobIds |-> 0]

-----------------------------------------------------------------------------
(* The pieces.                                                             *)

Open(j) == row[j].status \in {"queued", "running"}

\* A transition of the row: the status changes and result_json, where a cancellation is kept, is
\* overwritten.
Moved(rows, j, status) == [rows EXCEPT ![j] = [status |-> status, cancel |-> FALSE]]

Room == Len(queue) < MaxPending

\* The executions scheduled for a set of jobs; `scheduleImport` and its siblings refuse a job
\* that is active.
Free(n) == CHOOSE s \in [1..n -> Slots] :
              /\ \A a, b \in 1..n : a < b => s[a] < s[b]
              /\ \A a \in 1..n : \A w \in work : w.slot # s[a]
Fresh(j, s) == [slot |-> s, job |-> j, pc |-> "begin", signal |-> "none", watched |-> FALSE]

\* Mutant: nothing checks that the job has an execution.
ScheduledAgain(j) == IF Cardinality(work) = Cardinality(Slots) THEN work
                     ELSE work \cup {Fresh(j, Free(1)[1])}

Scheduled(j) == IF j \in active THEN work ELSE work \cup {Fresh(j, Free(1)[1])}

Changed(w, f) == (work \ {w}) \cup {f}

Ended(w) == /\ work' = work \ {w}
            /\ active' = active \ {w.job}

-----------------------------------------------------------------------------
(* Start and stop.                                                         *)

\* Mutant: restores are replayed too.
ReplayedAll == {j \in JobIds : Open(j) /\ ~row[j].cancel}

\* The rows a restart finds open: a persisted cancellation becomes its result, a job whose token
\* is gone fails, the others go back to the queue.
Replayed == {j \in Imports \cup Applies : Open(j) /\ ~row[j].cancel}

Start ==
    /\ phase = "down" /\ life < MaxLives
    /\ life' = life + 1 /\ phase' = "serving" /\ stopping' = FALSE
    /\ row' = [j \in JobIds |->
                  IF ~Open(j) THEN row[j]
                  ELSE [status |-> IF j \in Replayed THEN "queued" ELSE "failed", cancel |-> FALSE]]
    /\ active' = Replayed /\ refused' = {}
    /\ \E f \in [Replayed -> Slots] :
          /\ \A a, b \in Replayed : a # b => f[a] # f[b]
          /\ \A a \in Replayed : f[a] <= Cardinality(Replayed)
          /\ work' = {Fresh(j, f[j]) : j \in Replayed}
    /\ UNCHANGED <<queue, inflight, asks, commits, cancelled, heard>>

\* `stopImports`: the imports there are get the signal; they and the other executions there are
\* get waited for.  The server accepts nothing new, what it has accepted goes on.
Stop ==
    /\ phase = "serving" /\ life < MaxLives
    /\ phase' = "draining" /\ stopping' = TRUE
    /\ work' = {[w EXCEPT !.watched = TRUE,
                          !.signal = IF @ = "none" /\ w.job \in Imports THEN "JOB_INTERRUPTED" ELSE @]
                   : w \in work}
    /\ UNCHANGED <<row, queue, active, inflight, asks, life, commits, cancelled, heard, refused>>

\* The executions waited for are over, the server is closed, the queue is drained.
Drained ==
    /\ phase = "draining" /\ inflight = {} /\ queue = <<>>
    /\ \A w \in work : ~w.watched
    /\ phase' = "drained"
    /\ UNCHANGED <<row, queue, work, active, inflight, stopping, asks, life, commits, cancelled,
                   heard, refused>>

\* The process ends, after the drain or by a crash: only the rows survive.
Exit ==
    /\ phase # "down" /\ life < MaxLives
    /\ phase' = "down" /\ stopping' = FALSE
    /\ queue' = <<>> /\ work' = {} /\ active' = {} /\ inflight' = {}
    /\ UNCHANGED <<row, asks, life, commits, cancelled, heard, refused>>

-----------------------------------------------------------------------------
(* Requests.                                                               *)

Ask(what, j) ==
    /\ phase = "serving" /\ asks < MaxAsks
    /\ what # "create" => j \in Imports
    /\ inflight' = inflight \cup {[what |-> what, job |-> j, at |-> "accepted"]}
    /\ asks' = asks + 1
    /\ UNCHANGED <<row, queue, work, active, phase, stopping, life, commits, cancelled, heard, refused>>

\* The signal a cancellation gives before its intent is written.
Aborted(j) == {IF w.job = j /\ w.signal = "none" THEN [w EXCEPT !.signal = "JOB_CANCELLED"] ELSE w
                  : w \in work}

\* The handler puts its write into the queue, a cancellation after giving the signal; a full
\* queue refuses it, an unknown job is an error.
Handle(r) ==
    /\ r \in inflight /\ r.at = "accepted"
    /\ work' = IF r.what = "cancel" THEN Aborted(r.job) ELSE work
    /\ IF Room /\ (r.what = "cancel" => row[r.job].status # "absent")
          THEN /\ inflight' = (inflight \ {r}) \cup {[r EXCEPT !.at = "queued"]}
               /\ queue' = Append(queue, [op |-> r.what, job |-> r.job, by |-> 0])
          ELSE inflight' = inflight \ {r} /\ UNCHANGED queue
    /\ UNCHANGED <<row, active, phase, stopping, asks, life, commits, cancelled, heard, refused>>

Answered(q) == inflight' = inflight \ {[what |-> q.op, job |-> q.job, at |-> "queued"]}

\* A creation: an import that exists is returned as it is, and scheduled if it is open; an import
\* is refused while the runner stops, the other kinds are not.
Create(q) ==
    /\ q.op = "create"
    /\ Answered(q)
    /\ IF stopping /\ q.job \in Imports THEN UNCHANGED <<row, work, active>>
       ELSE IF row[q.job].status \in {"completed", "failed"} \/ (q.job \notin Imports /\ Open(q.job))
               THEN UNCHANGED <<row, work, active>>
       ELSE /\ row' = IF Open(q.job) THEN row ELSE Moved(row, q.job, "queued")
            /\ work' = Scheduled(q.job) /\ active' = active \cup {q.job}
    /\ UNCHANGED <<commits, cancelled, heard>>

\* A resumption: refused for an active job, nothing for a completed one.  Nothing asks whether
\* the runner stops.
Resume(q) ==
    /\ q.op = "resume"
    /\ Answered(q)
    /\ IF row[q.job].status \in {"absent", "completed"} \/ q.job \in active
          THEN UNCHANGED <<row, work, active, cancelled, heard>>
          ELSE /\ row' = Moved(row, q.job, "queued")
               /\ work' = Scheduled(q.job) /\ active' = active \cup {q.job}
               /\ cancelled' = [cancelled EXCEPT ![q.job] = 0] /\ heard' = heard \ {q.job}
    /\ UNCHANGED commits

\* The transition to running that an execution waits for.
ToRunning(w) == \E i \in 1..Len(queue) : queue[i].by = w.slot /\ queue[i].op = "markRunning"

RequestCancellation(q) ==
    /\ q.op = "cancel"
    /\ Answered(q)
    /\ row' = IF Open(q.job) THEN [row EXCEPT ![q.job].cancel = TRUE] ELSE row
    /\ cancelled' = IF Open(q.job) THEN [cancelled EXCEPT ![q.job] = life] ELSE cancelled
    /\ heard' = IF Open(q.job) /\ \E w \in work : /\ w.job = q.job /\ w.signal = "JOB_CANCELLED"
                                                 /\ ~ToRunning(w)
                   THEN heard \cup {q.job} ELSE heard
    /\ UNCHANGED <<work, active, commits>>

-----------------------------------------------------------------------------
(* Executions.                                                             *)

\* `await this.mutate(...)`, or, when the queue is full, what the rejection leads to.
Mutate(w, op) ==
    IF Room THEN /\ queue' = Append(queue, [op |-> op, job |-> w.job, by |-> w.slot])
                 /\ work' = Changed(w, [w EXCEPT !.pc = "waiting"])
                 /\ UNCHANGED <<active, refused, heard>>
    ELSE /\ refused' = refused \cup {w.job} /\ heard' = heard \ {w.job}
         /\ UNCHANGED queue
         /\ IF w.pc = "catch" THEN Ended(w)
            ELSE work' = Changed(w, [w EXCEPT !.pc = "catch"]) /\ UNCHANGED active

\* The execution starts: a persisted cancellation is looked at before anything is written.
Begin(w) ==
    /\ w \in work /\ w.pc = "begin"
    /\ IF w.job \in Imports /\ (row[w.job].cancel \/ w.signal # "none")
          THEN /\ work' = Changed(w, [w EXCEPT !.pc = "catch",
                                         !.signal = IF @ = "none" THEN "JOB_CANCELLED" ELSE @])
               /\ UNCHANGED <<queue, active, refused, heard>>
          ELSE Mutate(w, "markRunning")
    /\ UNCHANGED <<row, inflight, phase, stopping, asks, life, commits, cancelled>>

\* Mutant: an import does not look at its signal.
ImportDeaf(w) ==
    /\ w \in work /\ w.pc = "importing"
    /\ \/ /\ work' = Changed(w, [w EXCEPT !.pc = "catch"])
          /\ UNCHANGED <<queue, active, refused, heard>>
       \/ /\ w.job \in Imports /\ commits[w.job] < MaxCommits
          /\ Mutate(w, "commit")
       \/ Mutate(w, "complete")
    /\ UNCHANGED <<row, inflight, phase, stopping, asks, life, commits, cancelled>>

\* The import between two commits: it stops at the signal, commits the next session, fails on its
\* source or ends.  The other kinds run outside the queue and end or fail.
Import(w) ==
    /\ w \in work /\ w.pc = "importing"
    /\ \/ /\ work' = Changed(w, [w EXCEPT !.pc = "catch"])
          /\ UNCHANGED <<queue, active, refused, heard>>
       \/ /\ w.job \in Imports /\ w.signal = "none" /\ commits[w.job] < MaxCommits
          /\ Mutate(w, "commit")
       \/ /\ w.job \in Imports => w.signal = "none"
          /\ Mutate(w, "complete")
    /\ UNCHANGED <<row, inflight, phase, stopping, asks, life, commits, cancelled>>

\* The failure handler: an interrupted import goes back to the queue, all else fails.
Catch(w) ==
    /\ w \in work /\ w.pc = "catch"
    /\ Mutate(w, IF w.signal = "JOB_INTERRUPTED" THEN "requeue" ELSE "fail")
    /\ UNCHANGED <<row, inflight, phase, stopping, asks, life, commits, cancelled>>

\* The writes of an execution when their turn comes.
MarkRunning(q, w) ==
    /\ q.op = "markRunning"
    /\ row' = Moved(row, q.job, "running")
    /\ work' = Changed(w, [w EXCEPT !.pc = "importing"])
    /\ UNCHANGED <<active, commits>>

\* A commit of a queued import that has got the signal is skipped.
Commit(q, w) ==
    /\ q.op = "commit"
    /\ commits' = IF w.signal = "none" THEN [commits EXCEPT ![q.job] = @ + 1] ELSE commits
    /\ work' = Changed(w, [w EXCEPT !.pc = IF w.signal = "none" THEN "importing" ELSE "catch"])
    /\ UNCHANGED <<row, active>>

\* Mutant: a requeued import starts over at once.
FinishAgain(q, w) ==
    /\ q.op \in {"complete", "requeue", "fail"}
    /\ row' = Moved(row, q.job, CASE q.op = "complete" -> "completed"
                                  [] q.op = "requeue"  -> "queued"
                                  [] q.op = "fail"     -> "failed")
    /\ IF q.op = "requeue" THEN work' = Changed(w, [w EXCEPT !.pc = "begin"]) /\ UNCHANGED active
                           ELSE Ended(w)
    /\ UNCHANGED commits

Finish(q, w) ==
    /\ q.op \in {"complete", "requeue", "fail"}
    /\ row' = Moved(row, q.job, CASE q.op = "complete" -> "completed"
                                  [] q.op = "requeue"  -> "queued"
                                  [] q.op = "fail"     -> "failed")
    /\ Ended(w)
    /\ UNCHANGED commits

\* The head of the queue runs.
Perform ==
    /\ queue # <<>> /\ phase # "down"
    /\ queue' = Tail(queue)
    /\ LET q == Head(queue)
       IN  \/ Create(q) \/ Resume(q) \/ RequestCancellation(q)
           \/ \E w \in work : /\ w.slot = q.by
                              /\ MarkRunning(q, w) \/ Commit(q, w) \/ Finish(q, w)
                              /\ UNCHANGED <<inflight, cancelled, heard>>
    /\ UNCHANGED <<phase, stopping, asks, life, refused>>

\* The bounded life of the model is over.
Done == life = MaxLives /\ work = {} /\ queue = <<>> /\ inflight = {} /\ UNCHANGED vars

Execution == \E w \in work : Begin(w) \/ Import(w) \/ Catch(w)

Next ==
    \/ Start \/ Stop \/ Drained \/ Exit \/ Perform \/ Execution \/ Done
    \/ \E j \in JobIds, what \in {"create", "resume", "cancel"} : Ask(what, j)
    \/ \E r \in inflight : Handle(r)

\* A scheduled promise and the head of the queue run, an accepted request is handled, a drain
\* that has ended goes on.
Fairness ==
    /\ WF_vars(Execution) /\ WF_vars(Perform) /\ WF_vars(Drained)
    /\ WF_vars(\E r \in inflight : Handle(r))

Spec == Init /\ [][Next]_vars /\ Fairness

-----------------------------------------------------------------------------
(* Properties.                                                             *)

\* A job has at most one execution, whatever requests and restarts ask for it: two of them would
\* overwrite each other's verdict.
OneExecution == \A v, w \in work : v.job = w.job => v = w

\* A job that is open in a serving Engine has an execution, or is waiting for a restart after an
\* interruption, or lost a write to a full queue: no job is forgotten between its row and its
\* promise.
NoOrphan == \A j \in JobIds :
    phase = "serving" /\ Open(j) /\ j \notin refused => \E w \in work : w.job = j

\* The rows, the queue and the executions agree: none is forgotten and none has two executions.
ExecutionInv == TypeOK /\ OneExecution /\ NoOrphan

\* A cancellation written while the execution had its signal is final, over restarts too, until
\* somebody resumes the job or the full queue refuses the execution a write: no further session is
\* committed, the import is never completed.  The execution must have left its transition to running
\* behind it: a cancellation asked for before there was an execution can be written before that
\* transition, which then overwrites it until the cancellation that gave the signal is written too.
CancelHolds == [][\A j \in heard \cap heard' :
    commits'[j] = commits[j] /\ row'[j].status # "completed"]_vars

\* SM-05: the signal reaches an import that is queued and the persisted intent is a restart's
\* result.  The transition to running of an execution scheduled between the signal and the write,
\* and the requeueing of an interrupted one, overwrite the intent.
CancelKept == [][\A j \in Imports : cancelled[j] # 0 => commits'[j] = commits[j]]_vars

\* A verdict is final: a completed job never changes again, a failed one only by a resumption.
VerdictStays == \A j \in JobIds :
    /\ row[j].status = "completed" => row'[j].status = "completed"
    /\ row[j].status = "failed" /\ row'[j].status # "failed" => j \in Imports /\ row'[j].status = "queued"

\* A restore or recovery never runs in an Engine that was not asked for it: its confirmation
\* token is not kept.
RestoreNotReplayed == \A j \in Restores :
    Open(j) /\ phase = "down" /\ phase' # "down" => row'[j].status = "failed"

\* Neither a request nor a restart undoes a verdict or repeats a restore.
VerdictsHold == [][VerdictStays /\ RestoreNotReplayed]_vars

\* SM-05: a shutdown has drained the jobs when it goes on to close the database.  A resumption
\* accepted before it is not refused and not waited for.
DrainedIsIdle == phase = "drained" => work = {}

\* A shutdown ends: the executions it waits for do.
StopEnds == phase = "draining" ~> phase # "draining"
=============================================================================
