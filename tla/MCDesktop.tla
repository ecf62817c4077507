------------------------------ MODULE MCDesktop ------------------------------
(* Desktop for TLC: two scopes of analytics, a query that matches two pages. *)
EXTENDS Desktop

MCALL == <<"Products", "Prices">>
MCPages == [q \in Asked |-> 2]

(* What is explored together: a longer session is explored with fewer      *)
(* hasty clicks, operations and faults.                                    *)
Focus == clicks.all + clicks.hasty + 2 * Len(ops) + 2 * faults <= 5
=============================================================================
