----------------------------- MODULE MCSessions -----------------------------
(* Sessions for TLC: names, account ids and logins are interchangeable.    *)
EXTENDS Sessions, TLC

MCTokens == 1..3
Symmetry == Permutations(Names) \cup Permutations(Ids) \cup Permutations(Logins)

Alone == Cardinality(Present) <= 1 /\ \A r \in Requests : request[r].at = "none"

(* What is explored together.  A login is overtaken by Administer, which   *)
(* makes every change an account request can make, so that logins and      *)
(* requests need not be under way at a time.  The limiter, a second login   *)
(* and a third session are explored while one account exists and no        *)
(* request is under way.                                                   *)
Focus ==
    /\ \/ \A l \in Logins : login[l].at = "none"
       \/ \A r \in Requests : request[r].at = "none"
    /\ \/ \A k \in Keys : limiter[k] = None
       \/ Cardinality(Rows) <= 1 /\ Alone
    /\ sessions[3] = None \/ Alone
    /\ Cardinality({l \in Logins : login[l].at # "none"}) <= 1 \/ Alone
=============================================================================
