--------------------------- MODULE MCPuffManager ---------------------------
(***************************************************************************)
(* Instances of PuffManager for TLC.  Containers that are all capped and   *)
(* all mortal (or none of them) are interchangeable: creation order is     *)
(* kept in `created', not in the names.                                    *)
(***************************************************************************)
EXTENDS PuffManager, TLC

CONSTANTS p1, p2, c1, c2, c3, cu

SuspendSteps == {"monitor_suspend", "reclaim_suspend"}

Everywhere    == Steps \ {"idle"}
NotInSuspend  == Everywhere \ SuspendSteps

ContainerSymmetry == Permutations(Containers \ Uncapped)

CallerSymmetry == Permutations(Callers)

FullSymmetry == Permutations(Containers \ Uncapped) \cup Permutations(Callers)
=============================================================================
