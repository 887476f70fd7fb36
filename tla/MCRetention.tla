---------------------------- MODULE MCRetention ----------------------------
(* The model instance of what a user governs from the dashboard: storage (Retention), and which   *)
(* projects are mirrored (ProjectMapping).  As in MCServices an initial choice of `focus`         *)
(* explores each by itself.                                                                       *)
EXTENDS Retention

CONSTANTS Projects, Renamed, Threads, Children, Natives, MaxMoves, MaxSaves, MaxOrders

VARIABLES focus, home, policy, saved, session, shown, pass, activation, up, wish, admitted, moves, orders

\* A thread, a session derived from one and a session of DSH's own are three things, and a project
\* is none of the places that are not one.
ASSUME MappingAssumption ==
    /\ Threads # {} /\ Renamed \in Projects /\ Projects \cap {"outside", "server", "local"} = {}
    /\ Threads \cap Children = {} /\ Threads \cap Natives = {} /\ Children \cap Natives = {}
    /\ MaxMoves \in Nat /\ MaxSaves \in Nat /\ MaxOrders \in Nat

M == INSTANCE ProjectMapping

projects == <<home, policy, saved, session, shown, pass, activation, up, wish, admitted, moves, orders>>

TwoRuns == {1, 2}
TwoCaches == {3, 4}
TwoBackups == {5, 6}
TwoBundles == {7, 8}
Histories == {[first |-> {1, 3}, later |-> {2, 4}],
              [first |-> {3}, later |-> {2, 4}],
              [first |-> {5, 6}, later |-> {}],
              [first |-> {7}, later |-> {8}]}

\* One run that is yet to start, one generation of the cache, and another that can be rebuilt.
OneRun == {1}
Rebuilt == {[first |-> {3}, later |-> {1, 4}]}

\* Where a focus rests one of its initial states is enough.
FocusInit ==
    /\ Init /\ M!Init /\ focus \in {"storage", "mapping"}
    /\ focus # "storage" => later = {8}
    /\ focus # "mapping" => shown = {} /\ \A t \in Threads : home[t] = "outside"

FocusNext ==
    /\ UNCHANGED focus
    /\ \/ focus = "storage" /\ Next   /\ UNCHANGED projects
       \/ focus = "mapping" /\ M!Next /\ UNCHANGED vars

FocusSpec == FocusInit /\ [][FocusNext]_<<focus, vars, projects>>

\* Lists, users and imports leave each other's word standing: what a user deleted stays deleted, what
\* a list took out can come back, mirrors keep to the active list and local sessions to themselves
\* (codex-project-mapping.ts, codex-project-mapping-reconcile.ts, codex-canonical-import.ts).
MappingInv == focus = "mapping" =>
    /\ M!TypeOK /\ M!SavedIsKept /\ M!DeletedStaysDeleted /\ M!RemovalIsReversible
    /\ M!LiveIsInScope /\ M!LocalIsKept /\ M!LiveIsShown
=============================================================================
