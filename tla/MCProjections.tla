--------------------------- MODULE MCProjections ---------------------------
(* The model instance of the projection runs: what happens inside one (ProjectionRun), the        *)
(* launches that compete for it (RunBroker), and DSH's own store as a recovery reads it           *)
(* (TailRecovery).  As in MCServices an initial choice of `focus` explores each by itself.        *)
EXTENDS MCProjectionRun

CONSTANTS Foci, Launches, MaxRestarts, MaxLosses,
          Opened, Created, TailEvents, MaxAttempts

VARIABLES focus,
    lease, root, entry, drained, handle, provider, process, client, saved, forced, requests, step, restarts, losses,
    adapter, packing, form, native, disk, registered, projected, revision, pending, alive, tails, outcome, attempts

\* There are finitely many launches; the bounds are numbers.
ASSUME LaunchAssumption == IsFiniteSet(Launches) /\ MaxRestarts \in Nat /\ MaxLosses \in Nat

B == INSTANCE RunBroker WITH row <- lease, dsh <- process, plugin <- client
T == INSTANCE TailRecovery WITH mapping <- registered, MaxEvents <- TailEvents

launches  == <<lease, root, entry, drained, handle, provider, process, client, saved, forced, requests, step,
               restarts, losses>>
artifacts == <<adapter, packing, form, native, disk, registered, projected, revision, pending, alive, tails,
               outcome, attempts>>

\* Where a focus rests one of its initial states is enough.
FocusInit ==
    /\ Init /\ B!Init /\ T!Init /\ focus \in Foci
    /\ focus # "run"    => canon[Root].scope = "codex"
    /\ focus # "tail"   => adapter = "rc1" /\ packing = "none" /\ \A s \in Opened \cup Created : form[s] = "plain"

FocusNext ==
    /\ UNCHANGED focus
    /\ \/ focus = "run"    /\ Next   /\ UNCHANGED <<launches, artifacts>>
       \/ focus = "broker" /\ B!Next /\ UNCHANGED <<vars, artifacts>>
       \/ focus = "tail"   /\ T!Next /\ UNCHANGED <<vars, launches>>

FocusSpec == FocusInit /\ [][FocusNext]_<<focus, vars, launches, artifacts>>

\* With the fairness of ProjectionRun, where "run" is the only focus.
FocusFairSpec == FocusSpec /\ Fairness

\* One launch writes at a time; a run is closed only when its plugin drained, its
\* directory goes only when what was captured is canonical, and the provider's record of the end
\* is earned (external-lifecycle-provider.ts, runtime-broker.ts, lifecycle.ts, lease.ts).
BrokerInv == focus = "broker" =>
    /\ B!TypeOK /\ B!OneWriter /\ B!ClosedIsDrained
    /\ B!RemovedIsCanonical /\ B!ReceiptIsEarned /\ B!SavedIsThere
\* A recovery takes all of a conversation that DSH stored, once and in order, and refuses only
\* what it cannot take (runtime-tail-recovery.ts).
TailInv == focus = "tail" => T!TypeOK /\ T!ProjectedIsEmitted /\ T!DoneIsWhole /\ T!RefusalIsMeant
=============================================================================
