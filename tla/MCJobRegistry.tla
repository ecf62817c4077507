--------------------------- MODULE MCJobRegistry ---------------------------
(* JobRegistry for TLC: identities of requests and users do not matter.    *)
EXTENDS JobRegistry, TLC

Symmetry == Permutations(Jobs) \cup Permutations(Users)

MCJobs == 1..2
MCUsers == {"u1", "u2"}

(* Two jobs and two users up to their identities, for liveness, which is   *)
(* not checked under SYMMETRY: kinds and owners never change.  Imports     *)
(* are explored with one user.                                             *)
CanonicalInit ==
    /\ Init
    /\ owner[1] = "u1"
    /\ kind[1] = "Export" => kind[2] = "Export"
    /\ kind[1] = "Import" => kind[2] # "Clear"
    /\ "Import" \in {kind[1], kind[2]} => owner[2] = "u1"

CanonicalFairSpec == CanonicalInit /\ [][Next]_vars /\ Fairness
=============================================================================
