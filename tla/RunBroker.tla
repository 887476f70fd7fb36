------------------------------ MODULE RunBroker ------------------------------
(***************************************************************************)
(* The life of a projection run as its three programs see it: the provider *)
(* the Launcher calls (`external-lifecycle-provider.ts`), the broker in    *)
(* the Engine (`runtime-broker.ts`, `lifecycle.ts`, `lease.ts`,            *)
(* `projection-run-repository.ts`) and DSH with its plugin.                *)
(*                                                                         *)
(* ProjectionRun has what happens inside a running run.  Here a provider   *)
(* may be gone before its answer comes, its call is executed nevertheless, *)
(* the Engine dies between the steps of a close, and launches compete for  *)
(* the writer lease of the one branch there is.                            *)
(***************************************************************************)
EXTENDS Naturals, Sequences, SequencesExt

CONSTANTS Launches,      \* launches of DSH, a run each
          MaxRestarts,   \* bound: deaths of the Engine
          MaxLosses      \* bound: calls that fail or whose caller is gone

VARIABLES
    row,        \* [Launches -> state of the run in the database]
    root,       \* [Launches -> the run's directory]
    entry,      \* [Launches -> what the Engine's memory has of the run]
    drained,    \* runs whose plugin has told the Engine that it drained
    handle,     \* [Launches -> the provider's record of the launch]
    provider,   \* [Launches -> what the provider process waits for]
    dsh,        \* [Launches -> the DSH process]
    plugin,     \* [Launches -> the plugin in it]
    saved,      \* runs with captured events that are only in DSH's store
    forced,     \* launches whose DSH ended otherwise than asked
    requests,   \* calls of the broker, one at a time
    step,       \* progress of the first
    restarts, losses

vars == <<row, root, entry, drained, handle, provider, dsh, plugin, saved, forced, requests, step,
          restarts, losses>>

\* The states the unique index of the writer lease is about (migration 008).
Leased == {"preparing", "running", "draining", "recovery-required", "recovering", "cleanup-pending"}

NoHandle == [accepted |-> FALSE, receipt |-> "absent"]
Fresh    == [accepted |-> FALSE, receipt |-> "none"]

TypeOK ==
    /\ row \in [Launches -> Leased \cup {"none", "quarantined", "closed", "recovered"}]
    /\ root \in [Launches -> {"none", "partial", "there", "removed"}]
    /\ entry \in [Launches -> {"none", "prepared", "attached", "stuck"}]
    /\ drained \subseteq Launches /\ saved \subseteq Launches /\ forced \subseteq Launches
    /\ handle \in [Launches -> [accepted : BOOLEAN, receipt : {"absent", "none", "closed", "recovered"}]]
    /\ provider \in [Launches -> {"none", "prepare", "patch", "stop", "normal", "recovery", "writeClosed",
                                  "writeRecovered"}]
    /\ dsh \in [Launches -> {"off", "up", "asked", "down"}]
    /\ plugin \in [Launches -> {"none", "on", "drained"}]
    /\ requests \in Seq([run : Launches, kind : {"prepare", "normal", "recovery"}, live : BOOLEAN])
    /\ step \in {"start", "lease", "work", "remove", "finish"}
    /\ restarts \in 0..MaxRestarts /\ losses \in 0..MaxLosses

Init ==
    /\ row = [r \in Launches |-> "none"] /\ root = row /\ entry = row /\ provider = row /\ plugin = row
    /\ drained = {} /\ saved = {} /\ forced = {} /\ handle = [r \in Launches |-> NoHandle]
    /\ dsh = [r \in Launches |-> "off"] /\ requests = <<>> /\ step = "start" /\ restarts = 0 /\ losses = 0

Lose == losses < MaxLosses /\ losses' = losses + 1
Set(f, r, v) == [f EXCEPT ![r] = v]
EngineSide == <<row, root, entry, drained>>
DshSide    == <<dsh, plugin, saved, forced>>

(***************************************************************************)
(* The provider: one process per request of the Launcher.                  *)
(***************************************************************************)
Send(r, kind) ==
    /\ provider' = Set(provider, r, kind)
    /\ requests' = Append(requests, [run |-> r, kind |-> kind, live |-> TRUE])

\* The Launcher prepares a launch.
Prepare(r) ==
    /\ row[r] = "none" /\ dsh[r] = "off" /\ provider[r] = "none" /\ Send(r, "prepare")
    /\ UNCHANGED <<EngineSide, DshSide, handle, step, restarts, losses>>

\* With the broker's answer the patch and the handle are written; when that fails the run is closed.
StoreHandle(r) ==
    /\ provider[r] = "patch"
    /\ \/ handle' = Set(handle, r, Fresh) /\ provider' = Set(provider, r, "none") /\ UNCHANGED <<requests, dsh, losses>>
       \/ Lose /\ Send(r, "recovery") /\ dsh' = Set(dsh, r, "down") /\ UNCHANGED handle
    /\ UNCHANGED <<EngineSide, plugin, saved, forced, step, restarts>>

Spawn(r) ==
    /\ handle[r] = Fresh /\ dsh[r] = "off" /\ provider[r] = "none" /\ dsh' = Set(dsh, r, "up")
    /\ UNCHANGED <<EngineSide, plugin, saved, forced, handle, provider, requests, step, restarts, losses>>

\* abort: DSH could not be spawned.
Abort(r) ==
    /\ handle[r] = Fresh /\ dsh[r] = "off" /\ provider[r] = "none"
    /\ dsh' = Set(dsh, r, "down") /\ Send(r, "recovery")
    /\ UNCHANGED <<EngineSide, plugin, saved, forced, handle, step, restarts, losses>>

\* beforeStop: DSH accepts the shutdown, then the handle says so; without an answer it is killed.
BeforeStop(r) ==
    /\ dsh[r] = "up" /\ provider[r] = "none" /\ ~handle[r].accepted
    /\ \/ dsh' = Set(dsh, r, "asked") /\ provider' = Set(provider, r, "stop") /\ UNCHANGED <<forced, losses>>
       \/ Lose /\ dsh' = Set(dsh, r, "down") /\ forced' = forced \cup {r} /\ UNCHANGED provider
    /\ UNCHANGED <<EngineSide, plugin, saved, handle, requests, step, restarts>>

StoreAcceptance(r) ==
    /\ provider[r] = "stop" /\ provider' = Set(provider, r, "none")
    /\ handle' = [handle EXCEPT ![r].accepted = TRUE]
    /\ UNCHANGED <<EngineSide, DshSide, requests, step, restarts, losses>>

\* afterExit: a stop that was asked for and accepted is closed, every other end is recovered.
AfterExit(r) ==
    /\ dsh[r] = "down" /\ handle[r].receipt = "none" /\ provider[r] = "none"
    /\ Send(r, IF handle[r].accepted /\ r \notin forced THEN "normal" ELSE "recovery")
    /\ UNCHANGED <<EngineSide, DshSide, handle, step, restarts, losses>>

StoreReceipt(r) ==
    /\ provider[r] \in {"writeClosed", "writeRecovered"} /\ provider' = Set(provider, r, "none")
    /\ handle' = IF handle[r] = NoHandle THEN handle
                 ELSE [handle EXCEPT ![r].receipt = IF provider[r] = "writeClosed" THEN "closed" ELSE "recovered"]
    /\ UNCHANGED <<EngineSide, DshSide, requests, step, restarts, losses>>

\* What a provider does without the answer: a failed close is tried as a recovery.
Deaf(r) == [i \in DOMAIN requests |-> IF requests[i].run = r THEN [requests[i] EXCEPT !.live = FALSE] ELSE requests[i]]
Disappointed(r, rest) ==
    CASE provider[r] = "normal"  -> /\ provider' = Set(provider, r, "recovery")
                                    /\ requests' = Append(rest, [run |-> r, kind |-> "recovery", live |-> TRUE])
                                    /\ UNCHANGED dsh
      [] provider[r] = "prepare" -> /\ provider' = Set(provider, r, "none") /\ requests' = rest
                                    /\ dsh' = Set(dsh, r, "down")
      [] OTHER                   -> provider' = Set(provider, r, "none") /\ requests' = rest /\ UNCHANGED dsh

Timeout(r) ==
    /\ provider[r] \in {"prepare", "normal", "recovery"} /\ Lose /\ Disappointed(r, Deaf(r))
    /\ UNCHANGED <<EngineSide, plugin, saved, forced, handle, step, restarts>>

\* The provider's process ends before it has stored what it was told.
ProviderDies(r) ==
    /\ provider[r] \in {"patch", "stop", "writeClosed", "writeRecovered"} /\ Lose
    /\ provider' = Set(provider, r, "none")
    /\ dsh' = IF provider[r] = "patch" THEN Set(dsh, r, "down") ELSE dsh
    /\ UNCHANGED <<EngineSide, plugin, saved, forced, handle, requests, step, restarts>>

(***************************************************************************)
(* DSH and its plugin; the broker's calls are executed one at a time.      *)
(***************************************************************************)
Serving == step = "start"

\* attachRun: a failure leaves the broker an entry the lifecycle has forgotten.
Attach(r) ==
    /\ Serving /\ dsh[r] = "up" /\ plugin[r] = "none" /\ entry[r] = "prepared"
    /\ \/ entry' = Set(entry, r, "attached") /\ row' = Set(row, r, "running") /\ plugin' = Set(plugin, r, "on")
          /\ UNCHANGED losses
       \/ Lose /\ entry' = Set(entry, r, "stuck") /\ row' = Set(row, r, "quarantined") /\ UNCHANGED plugin
    /\ UNCHANGED <<root, drained, dsh, saved, forced, handle, provider, requests, step, restarts>>

\* DSH saves an event the plugin captures.
Save(r) ==
    /\ dsh[r] \in {"up", "asked"} /\ plugin[r] = "on" /\ saved' = saved \cup {r}
    /\ UNCHANGED <<EngineSide, dsh, plugin, forced, handle, provider, requests, step, restarts, losses>>

\* append: what was captured becomes canonical.
AppendSaved(r) ==
    /\ Serving /\ dsh[r] \in {"up", "asked"} /\ entry[r] = "attached" /\ r \in saved /\ saved' = saved \ {r}
    /\ UNCHANGED <<EngineSide, dsh, plugin, forced, handle, provider, requests, step, restarts, losses>>

\* drainRun, when everything captured is sent.
Drain(r) ==
    /\ Serving /\ dsh[r] = "asked" /\ plugin[r] = "on" /\ entry[r] = "attached" /\ r \notin saved
    /\ plugin' = Set(plugin, r, "drained") /\ drained' = drained \cup {r}
    /\ UNCHANGED <<row, root, entry, dsh, saved, forced, handle, provider, requests, step, restarts, losses>>

\* It exits when it was asked to, drained or not, or dies.
Exit(r) ==
    /\ dsh[r] \in {"up", "asked"} /\ dsh' = Set(dsh, r, "down")
    /\ forced' = IF dsh[r] = "up" THEN forced \cup {r} ELSE forced
    /\ UNCHANGED <<EngineSide, plugin, saved, handle, provider, requests, step, restarts, losses>>

(***************************************************************************)
(* The Engine: prepare, close and recover, in their durable steps.         *)
(***************************************************************************)
First == Head(requests)
Doing(r, kind) == requests # <<>> /\ First.run = r /\ First.kind = kind
Go(at) == step' = at /\ UNCHANGED <<requests, provider, dsh, losses>>
Elsewhere == <<plugin, saved, forced, handle, restarts>>

Answer(r, with) ==
    /\ step' = "start" /\ requests' = Tail(requests) /\ UNCHANGED <<dsh, losses>>
    /\ provider' = IF First.live THEN Set(provider, r, with) ELSE provider

Refuse(r) ==
    /\ step' = "start"
    /\ IF First.live THEN Disappointed(r, Tail(requests))
       ELSE requests' = Tail(requests) /\ UNCHANGED <<provider, dsh>>

\* Mutant: only a running run keeps others from preparing.
HeldWhileRunning(r) == \E o \in Launches \ {r} : row[o] = "running"

\* The unique index over the leased states.
Held(r) == \E o \in Launches \ {r} : row[o] \in Leased

\* prepareRun: the candidate is registered; only the lease lets it prepare.
TakeLease(r) ==
    /\ Doing(r, "prepare") /\ step = "start"
    /\ IF Held(r) THEN row' = Set(row, r, "quarantined") /\ Refuse(r) /\ UNCHANGED losses
       ELSE row' = Set(row, r, "preparing") /\ Go("work")
    /\ UNCHANGED <<root, entry, drained, Elsewhere>>

Materialize(r) ==
    /\ Doing(r, "prepare")
    /\ \/ step = "work" /\ root[r] = "none" /\ root' = Set(root, r, "partial") /\ Go("work") /\ UNCHANGED <<row, entry>>
       \/ step = "work" /\ root[r] = "partial" /\ root' = Set(root, r, "there") /\ Go("finish") /\ UNCHANGED <<row, entry>>
       \/ step = "work" /\ Lose /\ row' = Set(row, r, "quarantined") /\ Refuse(r) /\ UNCHANGED <<root, entry>>
       \/ step = "finish" /\ entry' = Set(entry, r, "prepared") /\ Answer(r, "patch") /\ UNCHANGED <<row, root>>
    /\ UNCHANGED <<drained, Elsewhere>>

\* A run without a runtime is discarded: in memory, or by its row after a restart.
NeverAttached(r) == IF entry[r] = "none" THEN row[r] = "preparing" ELSE entry[r] \in {"prepared", "stuck"}

\* A leased state is written over another one, or when no other run has the lease.
MayLease(r) == row[r] \in Leased \/ ~Held(r)

\* Mutant: a close does not ask for the plugin's acknowledgement.
MayCloseUndrained(r) == entry[r] = "attached" /\ root[r] = "there" /\ MayLease(r)
MayClose(r)   == entry[r] = "attached" /\ r \in drained /\ root[r] = "there" /\ MayLease(r)
MayDiscard(r) == NeverAttached(r) /\ (entry[r] = "prepared" \/ row[r] = "preparing") /\ root[r] = "there"
MayRecover(r) == ~NeverAttached(r) /\ root[r] = "there" /\ MayLease(r)

\* A run the lifecycle has in memory, and whose row it may change, is left to a recovery.
LeftToRecovery(r) == IF entry[r] = "attached" /\ MayLease(r) THEN Set(row, r, "recovery-required") ELSE row

Begin(r) ==
    /\ step = "start" /\ UNCHANGED <<root, entry, drained, Elsewhere>>
    /\ \/ /\ Doing(r, "normal") /\ MayClose(r) /\ row' = Set(row, r, "draining") /\ Go("remove")
       \/ /\ Doing(r, "recovery") /\ MayDiscard(r) /\ row' = Set(row, r, "recovering") /\ Go("remove")
       \/ /\ Doing(r, "recovery") /\ MayRecover(r) /\ row' = Set(row, r, "recovering") /\ Go("work")
       \/ /\ Doing(r, "normal") /\ ~MayClose(r) /\ Refuse(r) /\ UNCHANGED losses
          /\ row' = IF r \in drained THEN LeftToRecovery(r) ELSE row
       \/ /\ Doing(r, "recovery") /\ ~MayDiscard(r) /\ ~MayRecover(r) /\ Refuse(r) /\ UNCHANGED losses
          /\ row' = LeftToRecovery(r)

\* recover: what DSH's store has beyond the committed prefix becomes canonical.
RecoverSaved(r) ==
    /\ Doing(r, "recovery") /\ step = "work" /\ Go("remove") /\ saved' = saved \ {r}
    /\ UNCHANGED <<EngineSide, plugin, forced, handle, restarts>>

RemoveDirectory(r) ==
    /\ step = "remove" /\ requests # <<>> /\ First.run = r
    /\ root' = Set(root, r, "removed") /\ Go("finish") /\ UNCHANGED <<row, entry, drained, Elsewhere>>

Finish(r) ==
    /\ step = "finish" /\ requests # <<>> /\ First.run = r /\ First.kind # "prepare"
    /\ row' = Set(row, r, IF First.kind = "normal" THEN "closed" ELSE "recovered")
    /\ entry' = Set(entry, r, "none") /\ drained' = drained \ {r}
    /\ Answer(r, IF First.kind = "normal" THEN "writeClosed" ELSE "writeRecovered")
    /\ UNCHANGED <<root, Elsewhere>>

\* A close or a recovery fails: before the cleanup it can be recovered, afterwards cleanup is pending.
Fail(r) ==
    /\ requests # <<>> /\ First.run = r /\ First.kind # "prepare" /\ step \in {"work", "remove", "finish"} /\ Lose
    /\ \/ step # "finish" /\ row' = Set(row, r, "recovery-required")
       \/ step = "work" /\ row' = Set(row, r, "quarantined")
       \/ step = "finish" /\ row' = Set(row, r, "cleanup-pending")
    /\ Refuse(r) /\ UNCHANGED <<root, entry, drained, Elsewhere>>

\* The Engine dies and is started again: its memory and the calls are gone, the callers see an error
\* in any order.
EngineDies ==
    /\ restarts < MaxRestarts /\ restarts' = restarts + 1
    /\ entry' = [r \in Launches |-> "none"] /\ drained' = {} /\ step' = "start"
    /\ LET waits(k) == {r \in Launches : provider[r] = k}
       IN  /\ \E again \in SetToSeqs(waits("normal")) :
                 requests' = [i \in DOMAIN again |-> [run |-> again[i], kind |-> "recovery", live |-> TRUE]]
           /\ provider' = [r \in Launches |-> CASE r \in waits("normal") -> "recovery"
                                                [] r \in waits("prepare") \cup waits("recovery") -> "none"
                                                [] OTHER -> provider[r]]
           /\ dsh' = [r \in Launches |-> IF r \in waits("prepare") THEN "down" ELSE dsh[r]]
    /\ UNCHANGED <<row, root, plugin, saved, forced, handle, losses>>

Next ==
    \/ \E r \in Launches :
          \/ Prepare(r) \/ StoreHandle(r) \/ Spawn(r) \/ Abort(r) \/ BeforeStop(r) \/ StoreAcceptance(r)
          \/ AfterExit(r) \/ StoreReceipt(r) \/ Timeout(r) \/ ProviderDies(r)
          \/ Attach(r) \/ Save(r) \/ AppendSaved(r) \/ Drain(r) \/ Exit(r)
          \/ TakeLease(r) \/ Materialize(r) \/ Begin(r) \/ RecoverSaved(r) \/ RemoveDirectory(r) \/ Finish(r) \/ Fail(r)
    \/ EngineDies

Spec == Init /\ [][Next]_vars

(***************************************************************************)
(* Properties.                                                             *)
(***************************************************************************)
\* A run's directory goes only when what its plugin captured is canonical.
RemovedIsCanonical == \A r \in Launches : root[r] = "removed" => r \notin saved

\* A handle is final when its run is: the directory is gone and the lease is free.
ReceiptIsEarned == \A r \in Launches : handle[r].receipt \in {"closed", "recovered"} =>
    root[r] = "removed" /\ row[r] \in {"closed", "recovered"}

\* A launch is recorded as closed only if its plugin drained.
ClosedIsDrained == \A r \in Launches : handle[r].receipt = "closed" \/ row[r] = "closed" => plugin[r] = "drained"

\* At most one DSH runs with a plugin that captures.
OneWriter == \A r, o \in Launches :
    plugin[r] # "none" /\ plugin[o] # "none" /\ dsh[r] # "down" /\ dsh[o] # "down" => r = o

\* A captured event is in a directory that is there.
SavedIsThere == \A r \in saved : root[r] = "there"
=============================================================================
