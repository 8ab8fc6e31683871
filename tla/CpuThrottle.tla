---------------------------- MODULE CpuThrottle ----------------------------
(***************************************************************************)
(* What suspend_manager.py promises (lines 1-9): a container runs either   *)
(* with the CPU it was launched with or with the 1% that keeps its         *)
(* heartbeat alive, and resuming it gives back the first, nothing else.    *)
(***************************************************************************)
CONSTANTS
    Containers,
    Shares,     \* CPU a container may be launched with
    Slow        \* CPU of a suspended container

VARIABLES
    status,     \* "absent", "running", "exited" or "removed"
    given,      \* CPU the container was launched with
    share       \* CPU it has

vars == <<status, given, share>>

Init ==
    /\ status = [c \in Containers |-> "absent"]
    /\ given \in [Containers -> Shares]
    /\ share = given

Launch(c, k) ==
    /\ status[c] = "absent"
    /\ status' = [status EXCEPT ![c] = "running"]
    /\ given'  = [given EXCEPT ![c] = k]
    /\ share'  = [share EXCEPT ![c] = k]

End(c) ==
    /\ \/ status[c] = "running" /\ status' = [status EXCEPT ![c] = "exited"]
       \/ status[c] = "exited" /\ status' = [status EXCEPT ![c] = "removed"]
    /\ UNCHANGED <<given, share>>

Suspend(c) ==
    /\ status[c] = "running"
    /\ share' = [share EXCEPT ![c] = Slow]
    /\ UNCHANGED <<status, given>>

Resume(c) ==
    /\ status[c] = "running"
    /\ share' = [share EXCEPT ![c] = given[c]]
    /\ UNCHANGED <<status, given>>

Next ==
    \E c \in Containers :
        \/ \E k \in Shares : Launch(c, k)
        \/ End(c) \/ Suspend(c) \/ Resume(c)

Spec == Init /\ [][Next]_vars
=============================================================================
