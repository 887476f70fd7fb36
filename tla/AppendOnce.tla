---------------------------- MODULE AppendOnce ----------------------------
(***************************************************************************)
(* What a projection run promises, without saying how: DSH writes events   *)
(* 1, 2, 3, ... of one session, the run takes them into the Maintenance    *)
(* history in order, each once, acknowledges only what is in the history,  *)
(* and gives its recovery material away only when the history holds        *)
(* everything DSH saved.                                                   *)
(***************************************************************************)
EXTENDS Naturals, Sequences

VARIABLES
    emitted,    \* events DSH produced
    saved,      \* events in DSH's own store, inside the run directory
    history,    \* the session's events in Maintenance
    acked,      \* events DSH was told are committed
    over        \* the run directory is being removed or is gone

vars == <<emitted, saved, history, acked, over>>

FirstEvents(n) == [i \in 1..n |-> i]

Init ==
    /\ emitted = 0
    /\ saved = 0
    /\ history = <<>>
    /\ acked = 0
    /\ over = FALSE

\* DSH produces an event, stores some of what it produced, or both.
Write ==
    /\ ~over
    /\ emitted' \in {emitted, emitted + 1}
    /\ saved' \in saved..emitted'
    /\ UNCHANGED <<history, acked, over>>

Commit ==
    /\ ~over
    /\ \E n \in (Len(history) + 1)..emitted : history' = FirstEvents(n)
    /\ UNCHANGED <<emitted, saved, acked, over>>

Acknowledge ==
    /\ acked' \in (acked + 1)..Len(history)
    /\ UNCHANGED <<emitted, saved, history, over>>

Finish ==
    /\ saved <= Len(history)
    /\ over' = TRUE
    /\ UNCHANGED <<emitted, saved, history, acked>>

Next == Write \/ Commit \/ Acknowledge \/ Finish

Spec == Init /\ [][Next]_vars
=============================================================================
