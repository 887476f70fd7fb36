----------------------------- MODULE MCLibrary -----------------------------
(* The model instance of what is kept: the canonical library and its writers (Library), and the   *)
(* histories with native rows that are given to DSH run after run (NativeHistory).  As in         *)
(* MCServices an initial choice of `focus` explores each by itself.                               *)
EXTENDS Library

CONSTANTS MaxRows, MaxRuns

VARIABLES focus, canon, origin, adapter, running, rows, recorded, kept, refused, whole, written, runs

N == INSTANCE NativeHistory

histories == <<canon, origin, adapter, running, rows, recorded, kept, refused, whole, written, runs>>

ASSUME LibraryAssumption == MaxBody \in Nat \ {0} /\ MaxTitles \in Nat /\ MaxEdits \in Nat
                            /\ MaxBusy \in Nat \ {0} /\ MaxVersions \in Nat \ {0}

\* Where a focus rests one of its initial states is enough.
FocusInit ==
    /\ Init /\ N!Init /\ focus \in {"library", "native"}
    /\ focus # "native" => origin = "new"

\* Bound: with the last edit of the dashboard one writer at most is under way.
EditsOrWriters == edits' < MaxEdits \/ Busy' <= 1

FocusNext ==
    /\ UNCHANGED focus
    /\ \/ focus = "library" /\ Next   /\ UNCHANGED histories /\ EditsOrWriters
       \/ focus = "native"  /\ N!Next /\ UNCHANGED vars

FocusSpec == FocusInit /\ [][FocusNext]_<<focus, vars, histories>>

\* A history with native envelopes survives its projections and migrations (materialize.ts,
\* normalize-append.ts, restore-lifecycle-evidence.ts).
NativeInv == focus = "native" => N!NativeInv
=============================================================================
