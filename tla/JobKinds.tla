------------------------------ MODULE JobKinds ------------------------------
(* The kinds of job, and what the registry decides by kind. *)

JobKind == {"Import", "Export", "Optimize", "Compact", "Reindex", "Clear", "OlapBuild"}

\* Kinds that run one at a time on the database.
IsWrite(k) == k # "Export"

\* Kinds of which at most one may be pending or running.
IsSingleFlight(k) == k \in {"Optimize", "Compact", "Reindex", "Clear", "OlapBuild"}

\* Kinds whose work calls enter_non_cancellable before it changes the database.
HasPointOfNoReturn(k) == k \in {"Optimize", "Compact", "Clear", "OlapBuild"}
=============================================================================
