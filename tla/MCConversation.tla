---------------------------- MODULE MCConversation ----------------------------
(* The model instance of what a session holds: a head of native history and what is appended to   *)
(* it (Conversation), and the versions observed of a session (VersionGraph).  As in MCServices an *)
(* initial choice of `focus` explores each by itself.                                             *)
EXTENDS Conversation, TLC

CONSTANTS Ids, Bindings, PageLimit

VARIABLES focus, parents, head, free, reader

\* Nothing is stored; or the session was twice brought over to the other platform (first 2, then 5 on
\* top of it were verified) and has since been scanned on one (4).
Histories ==
    {[parents |-> <<>>, head |-> [b \in Bindings |-> 0], free |-> {1, 2, 3, 4}]} \cup
    {[parents |-> 1 :> <<>> @@ 2 :> <<>> @@ 3 :> <<2>> @@ 4 :> <<5>> @@ 5 :> <<2>>,
      head |-> [b \in Bindings |-> IF b = s THEN 4 ELSE 5], free |-> {6}] : s \in Bindings}

G == INSTANCE VersionGraph

graph == <<parents, head, free, reader>>

ASSUME GraphAssumption == Ids \subseteq Nat \ {0} /\ PageLimit \in Nat \ {0}

\* Where the graph rests one of its initial states is enough.
FocusInit ==
    /\ Init /\ G!Init /\ focus \in {"conversation", "graph"}
    /\ focus # "graph" => parents = <<>>

FocusNext ==
    /\ UNCHANGED focus
    /\ \/ focus = "conversation" /\ Next   /\ UNCHANGED graph
       \/ focus = "graph"        /\ G!Next /\ UNCHANGED vars

FocusSpec == FocusInit /\ [][FocusNext]_<<focus, vars, graph>>

Symmetry == Permutations(Calls) \cup Permutations(Bindings)

\* What is read of the versions of a session while others are added to it is whole, and what is
\* decided from it is true (graph.ts, repository.ts, service.ts).
GraphInv == focus = "graph" => G!GraphInv
=============================================================================
