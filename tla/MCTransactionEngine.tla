------------------------ MODULE MCTransactionEngine ------------------------
(* The constants TransactionEngine is checked with, and a smaller part of it. *)
EXTENDS TransactionEngine, TLC

CONSTANTS p1, p2, c1, c2

MCPlans == {p1, p2}
MCCallers == {c1, c2}
OnePlan == {p1}
OneCaller == {c1}

\* Two calls race each other until the last fault; after that one runs at a time, as one call is
\* enough for what the last fault leaves behind.
OneByOneAtLast == faults < MaxFaults \/ Cardinality({c \in Callers : call[c] # IdleCall}) <= 1
RaceSpec == Init /\ [][Next /\ OneByOneAtLast']_vars

\* Plans and callers are interchangeable: no action names one of them.
PlanAndCallerSymmetry == Permutations(MCPlans) \cup Permutations(MCCallers)
=============================================================================
