----------------------------- MODULE Continuation -----------------------------
(***************************************************************************)
(* Continuing a DSH session in Codex:                                      *)
(* `packages/continuation-engine/src/service.ts` over the jobs of          *)
(* `session-store/src/repository.ts` and the app-server of                 *)
(* `adapter-codex-continuation/src/adapter.ts` and `transport.ts`.         *)
(*                                                                         *)
(* A request becomes a job, the job one Codex thread with one turn, the    *)
(* thread a binding of the request's session.  Codex is another program:   *)
(* it may do what it is asked and die before it says so.  The Engine runs  *)
(* one operation at a time (engine.ts coordinates them) and may die        *)
(* between any two steps.                                                  *)
(***************************************************************************)
EXTENDS Naturals

CONSTANTS Requests,     \* what identifies a job: source versions, target, mode, bundle
          Threads,      \* the threads Codex can make
          MaxCalls,     \* bound: operations asked for
          MaxCrashes    \* bound: deaths of the Engine

NoThread == 0
NoOne    == "nobody"
Own      == "own"       \* the logical session an import makes of a thread it meets

VARIABLES
    job,        \* [Requests -> [status, thread]]: table continuation_jobs
    bound,      \* [Threads -> the request's session, Own or NoOne]: table platform_bindings
    codex,      \* [Threads -> what Codex keeps: nothing, a thread, a thread with a turn]
    maker,      \* [Threads -> the request it was started for]
    op,         \* the operation under way: [what, of, at, thread]
    link,       \* the app-server: none spawned, up, or gone with the error the transport keeps
    calls, crashes

vars == <<job, bound, codex, maker, op, link, calls, crashes>>

Statuses == {"absent", "prepared", "creating", "started", "verifying", "completed", "failed",
             "manual-review"}
Points   == {"find", "probe", "creating", "start", "record", "turn", "turned", "verify", "bind",
             "complete", "catch"}
Idle     == [what |-> "nothing", of |-> NoOne, at |-> "find", thread |-> NoThread]

\* What each step of an operation finds in the row it is about to change: the `expected` status of
\* `transitionContinuationJob`, which refuses any other.
Expected == [at \in {"creating", "start", "record", "turn", "turned", "bind", "complete"} |->
    CASE at = "creating"             -> "prepared"
      [] at \in {"start", "record"}  -> "creating"
      [] at \in {"turn", "turned"}   -> "started"
      [] at \in {"bind", "complete"} -> "verifying"]

TypeOK ==
    /\ job \in [Requests -> [status : Statuses, thread : Threads \cup {NoThread}]]
    /\ bound \in [Threads -> Requests \cup {Own, NoOne}]
    /\ codex \in [Threads -> {"nothing", "empty", "turned"}]
    /\ maker \in [Threads -> Requests \cup {NoOne}]
    /\ op = Idle \/ op \in [what : {"create", "recover"}, of : Requests, at : Points,
                            thread : Threads \cup {NoThread}]
    /\ link \in {"none", "up", "gone"}
    /\ op # Idle /\ op.at \in DOMAIN Expected => job[op.of].status = Expected[op.at]

Init ==
    /\ job = [r \in Requests |-> [status |-> "absent", thread |-> NoThread]]
    /\ bound = [t \in Threads |-> NoOne] /\ maker = [t \in Threads |-> NoOne]
    /\ codex = [t \in Threads |-> "nothing"]
    /\ op = Idle /\ link = "none" /\ calls = 0 /\ crashes = 0

At(what, at) == op.what = what /\ op.at = at
Goes(at)     == op' = [op EXCEPT !.at = at]

\* `transitionContinuationJob`: the status moves, a thread once written stays.
Moved(status, thread) ==
    job' = [job EXCEPT ![op.of] = [status |-> status,
                                   thread |-> IF thread = NoThread THEN @.thread ELSE thread]]

-----------------------------------------------------------------------------
(* Asking.                                                                 *)

Ask(what, r) ==
    /\ op = Idle /\ calls < MaxCalls
    /\ calls' = calls + 1
    /\ op' = [what |-> what, of |-> r, at |-> "find", thread |-> NoThread]
    /\ UNCHANGED <<job, bound, codex, maker, link, crashes>>

\* Mutant: a job that was interrupted before it had a thread is tried again.
KnownUnlessOpen(r) == job[r].status \notin {"absent", "prepared", "creating"}

\* `findContinuationByRequestHash`, and the same look of `createContinuationJob`.
Known(r) == job[r].status # "absent"

\* The job there is is the answer; a new one is written before Codex is asked anything.
Find ==
    /\ At("create", "find")
    /\ IF Known(op.of) THEN op' = Idle /\ UNCHANGED job
       ELSE Goes("probe") /\ job' = [job EXCEPT ![op.of] = [status |-> "prepared", thread |-> NoThread]]
    /\ UNCHANGED <<bound, codex, maker, link, calls, crashes>>

\* A verdict is returned, a job without a thread is left to a person.
FindToRecover ==
    /\ At("recover", "find")
    /\ IF job[op.of].status \in {"absent", "completed", "failed"} THEN op' = Idle /\ UNCHANGED job
       ELSE IF job[op.of].thread = NoThread THEN op' = Idle /\ Moved("manual-review", NoThread)
       ELSE op' = [op EXCEPT !.at = "probe", !.thread = job[op.of].thread] /\ UNCHANGED job
    /\ UNCHANGED <<bound, codex, maker, link, calls, crashes>>

-----------------------------------------------------------------------------
(* The app-server.                                                         *)

\* A request spawns the child if there is none; once a child is gone the transport refuses every
\* request until the Engine is started again.
Reached == link # "gone"

\* `probe`: another version, or an app-server that is gone, is incompatible.
Probe ==
    /\ op.at = "probe"
    /\ \/ /\ Reached /\ link' = "up"
          /\ Goes(IF op.what = "create" THEN "creating" ELSE "verify")
          /\ IF op.what = "create" THEN UNCHANGED job ELSE Moved("verifying", NoThread)
       \/ /\ op' = Idle /\ UNCHANGED link
          /\ Moved(IF op.what = "create" THEN "failed" ELSE "manual-review", NoThread)
    /\ UNCHANGED <<bound, codex, maker, calls, crashes>>

Creating ==
    /\ op.at = "creating"
    /\ Moved("creating", NoThread) /\ Goes("start")
    /\ UNCHANGED <<bound, codex, maker, link, calls, crashes>>

\* thread/start: refused; done and answered; or done and the child is gone before its answer.
StartThread ==
    /\ op.at = "start"
    /\ \/ Goes("catch") /\ UNCHANGED <<codex, maker, link>>
       \/ /\ Reached
          /\ \E t \in {t \in Threads : codex[t] = "nothing"} :
                /\ codex' = [codex EXCEPT ![t] = "empty"] /\ maker' = [maker EXCEPT ![t] = op.of]
                /\ \/ op' = [op EXCEPT !.at = "record", !.thread = t] /\ UNCHANGED link
                   \/ Goes("catch") /\ link' = "gone"
    /\ UNCHANGED <<job, bound, calls, crashes>>

\* `onThreadStarted`: the thread is in the row before its turn begins.
Record ==
    /\ op.at = "record"
    /\ Moved("started", op.thread) /\ Goes("turn")
    /\ UNCHANGED <<bound, codex, maker, link, calls, crashes>>

\* turn/start and the wait for turn/completed: the turn is there or not, and the answer comes or
\* the wait times out or the child goes.
StartTurn ==
    /\ op.at = "turn"
    /\ \E done \in BOOLEAN, heard \in BOOLEAN :
          /\ heard => done
          /\ done => Reached
          /\ codex' = IF done THEN [codex EXCEPT ![op.thread] = "turned"] ELSE codex
          /\ Goes(IF heard THEN "turned" ELSE "catch")
          /\ link' \in IF heard THEN {link} ELSE {link, "gone"}
    /\ UNCHANGED <<job, bound, maker, calls, crashes>>

Turned ==
    /\ op.at = "turned"
    /\ Moved("verifying", op.thread) /\ Goes("verify")
    /\ UNCHANGED <<bound, codex, maker, link, calls, crashes>>

\* thread/read and thread/resume: the thread is the one asked for and has its turn.
Verify ==
    /\ op.at = "verify"
    /\ \/ Reached /\ codex[op.thread] = "turned" /\ Goes("bind") /\ UNCHANGED link
       \/ Goes("catch") /\ link' \in {link, "gone"}
    /\ UNCHANGED <<job, bound, codex, maker, calls, crashes>>

\* A thread bound to another logical session is a conflict.
Bind ==
    /\ op.at = "bind"
    /\ IF bound[op.thread] \in {NoOne, op.of}
          THEN bound' = [bound EXCEPT ![op.thread] = op.of] /\ Goes("complete")
          ELSE Goes("catch") /\ UNCHANGED bound
    /\ UNCHANGED <<job, codex, maker, link, calls, crashes>>

Complete ==
    /\ op.at = "complete"
    /\ Moved("completed", NoThread) /\ op' = Idle
    /\ UNCHANGED <<bound, codex, maker, link, calls, crashes>>

\* Mutant: what failed while creating has failed.
CatchFailed ==
    /\ op.at = "catch"
    /\ Moved(IF op.what = "create" THEN "failed" ELSE "manual-review", op.thread) /\ op' = Idle
    /\ UNCHANGED <<bound, codex, maker, link, calls, crashes>>

\* Nothing known of a thread: failed.  Otherwise somebody has to look.
Catch ==
    /\ op.at = "catch"
    /\ Moved(IF op.thread = NoThread THEN "failed" ELSE "manual-review", op.thread) /\ op' = Idle
    /\ UNCHANGED <<bound, codex, maker, link, calls, crashes>>

-----------------------------------------------------------------------------
(* The world.                                                              *)

\* The Codex import meets the thread between two operations and gives it a session of its own.
ImportThread ==
    /\ op = Idle
    /\ \E t \in Threads :
          /\ codex[t] = "turned" /\ bound[t] = NoOne
          /\ bound' = [bound EXCEPT ![t] = Own]
    /\ UNCHANGED <<job, codex, maker, op, link, calls, crashes>>

AppServerExits ==
    /\ link = "up" /\ link' = "gone"
    /\ UNCHANGED <<job, bound, codex, maker, op, calls, crashes>>

Crash ==
    /\ crashes < MaxCrashes /\ crashes' = crashes + 1
    /\ op' = Idle /\ link' = "none"
    /\ UNCHANGED <<job, bound, codex, maker, calls>>

\* Every call the model makes is answered.
Done == op = Idle /\ calls = MaxCalls /\ UNCHANGED vars

Step ==
    op # Idle /\ (\/ Find \/ FindToRecover \/ Probe \/ Creating \/ StartThread \/ Record
                  \/ StartTurn \/ Turned \/ Verify \/ Bind \/ Complete \/ Catch)

Next ==
    \/ \E r \in Requests, what \in {"create", "recover"} : Ask(what, r)
    \/ Step \/ ImportThread \/ AppServerExits \/ Crash \/ Done

Spec == Init /\ [][Next]_vars

-----------------------------------------------------------------------------
(* Properties.                                                             *)

\* One thread per request, however often the request is repeated, whatever answers were lost and
\* wherever the Engine died: a second one would be a second task in the user's Codex.
OneThread == \A t, u \in Threads : maker[t] # NoOne /\ maker[t] = maker[u] => t = u

\* A completed job's thread was started for it, has its turn, and is bound to the job's session.
CompletedIsBound == \A r \in Requests :
    job[r].status = "completed" =>
        \E t \in Threads : /\ t = job[r].thread /\ maker[t] = r
                           /\ codex[t] = "turned" /\ bound[t] = r

\* A thread in a row stays there and its job is never called failed: it ends completed or in
\* front of a person.
ThreadKept == \A r \in Requests :
    job[r].thread # NoThread => job'[r].thread = job[r].thread /\ job'[r].status # "failed"

\* A verdict is final: no repetition, recovery or crash changes a completed or failed job.
VerdictKept == \A r \in Requests :
    job[r].status \in {"completed", "failed"} => job'[r].status = job[r].status

\* What a row says of its thread and its end is never taken back.
RowsHold == ThreadKept /\ VerdictKept

\* Phase 3 plan: a process that exits after the thread was made can go on verifying it.  The
\* thread is in Codex before it is in the row, and an answer can be lost: the job then says failed
\* or knows no thread.
ThreadRecorded == \A t \in Threads :
    op = Idle /\ maker[t] # NoOne => job[maker[t]].thread = t
=============================================================================
