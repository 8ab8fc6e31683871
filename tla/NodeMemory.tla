----------------------------- MODULE NodeMemory -----------------------------
(***************************************************************************)
(* What the memory side promises of every container (puff_manager.py:1-14, *)
(* 190): launched with some memory, it may be enlarged and reduced any     *)
(* number of times, never below what it was launched with, which stays     *)
(* what it is until the container ends.                                    *)
(***************************************************************************)
EXTENDS Naturals

CONSTANTS
    Containers,
    Requests    \* memory a container may be launched with

VARIABLES
    running,    \* the containers
    limit,      \* memory of each; 0 if there is no such container
    orig        \* memory it was launched with

vars == <<running, limit, orig>>

Init ==
    /\ running \subseteq Containers
    /\ limit = [c \in Containers |-> 0]
    /\ orig  = [c \in Containers |-> 0]

Launch(c, mb) ==
    /\ c \notin running
    /\ running' = running \cup {c}
    /\ limit'   = [limit EXCEPT ![c] = mb]
    /\ orig'    = [orig EXCEPT ![c] = mb]

\* Puff or reclaim.
Resize(c) ==
    /\ c \in running
    /\ \A d \in Containers \ {c} : limit'[d] = limit[d]
    /\ DOMAIN limit' = Containers /\ limit'[c] >= orig[c]
    /\ UNCHANGED <<running, orig>>

End(c) ==
    /\ c \in running
    /\ running' = running \ {c}
    /\ limit'   = [limit EXCEPT ![c] = 0]
    /\ orig'    = [orig EXCEPT ![c] = 0]

Next ==
    \E c \in Containers :
        \/ \E mb \in Requests : Launch(c, mb)
        \/ Resize(c)
        \/ End(c)

Spec == Init /\ [][Next]_vars
=============================================================================
