-------------------------- MODULE MCSuspendManager --------------------------
(***************************************************************************)
(* Instances of SuspendManager for TLC: containers without a CPU limit, as *)
(* admission.py launches them, and with one and a cpuset of their own.     *)
(***************************************************************************)
EXTENDS SuspendManager, TLC

CONSTANTS a1, a2, c1, c2

Free    == [quota |-> Unlimited, period |-> 100000, cpuset |-> {}]
Limited == [quota |-> 50000, period |-> 50000, cpuset |-> {1}]

TwoCores   == {0, 1}
BothKinds  == {Free, Limited}

\* A command fails, or a process is killed, wherever it may; or anywhere but
\* between the halves of a write_text().
Everywhere  == Steps \ {"idle"}
NotInWrites == Everywhere \ {"fill"}

Symmetry == Permutations(Containers) \cup Permutations(Actors)
=============================================================================
