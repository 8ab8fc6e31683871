------------------------------- MODULE Cgroup -------------------------------
(***************************************************************************)
(* One container as its cgroup shows it: the files that the programs of    *)
(* this project read, what the kernel does behind them, and the workload   *)
(* (MemoryGrowthWorkload.java) that allocates.  The modules that extend    *)
(* this one add the programs; one of them runs at a time, at pc.           *)
(*                                                                         *)
(* Memory is counted in chunks of the workload.                            *)
(***************************************************************************)
EXTENDS Integers

CONSTANTS
    LaunchMax,      \* --memory
    MaxLimit,       \* bound: the highest memory.max puff() may reach
    SwapMaxes,      \* memory.swap.max at launch: numbers and Unlimited
    SwapHeadroom,   \* SWAP_HEADROOM_MB: memory.swap.max once puffed
    Unlimited,      \* "max"
    MaxAllocation   \* MAX_ALLOCATION_MB

ASSUME CgroupAssumption ==
    /\ LaunchMax \in Nat /\ MaxLimit \in Nat /\ LaunchMax <= MaxLimit
    /\ SwapMaxes \subseteq Nat \cup {Unlimited} /\ Unlimited \notin Nat
    /\ SwapHeadroom \in Nat \ {0}
    /\ MaxAllocation \in Nat

VARIABLES
    alive,
    max,        \* memory.max
    current,    \* memory.current
    swap,       \* memory.swap.current
    swapMax,    \* memory.swap.max
    hostSwap,   \* does the host have swap?
    hasPswp,    \* does memory.stat have pswpin and pswpout?
    moved,      \* was a page swapped since memory.stat was last read?
    program,    \* what runs now
    pc

machine == <<swapMax, hostSwap, hasPswp>>
kernel  == <<alive, max, current, swap, moved, machine>>
control == <<program, pc>>

Goto(at) == pc' = at /\ UNCHANGED program

SwapRoom == hostSwap /\ (swapMax # Unlimited => swap < swapMax)

-----------------------------------------------------------------------------
\* A chunk is allocated and touched; with nowhere left to put it, the kernel
\* OOM-kills the container.
Allocate ==
    /\ alive
    /\ current + swap + 1 <= MaxAllocation
    /\ \/ current < max /\ current' = current + 1 /\ UNCHANGED alive
       \/ current = max /\ ~SwapRoom /\ alive' = FALSE /\ UNCHANGED current
    /\ UNCHANGED <<max, swap, moved, machine, control>>

PageOut ==
    /\ alive
    /\ current > 0 /\ SwapRoom
    /\ current' = current - 1
    /\ swap' = swap + 1
    /\ moved' = TRUE
    /\ UNCHANGED <<alive, max, machine, control>>

PageIn ==
    /\ alive
    /\ swap > 0 /\ current < max
    /\ current' = current + 1
    /\ swap' = swap - 1
    /\ moved' = TRUE
    /\ UNCHANGED <<alive, max, machine, control>>

\* Thrashing at the limit: one page in, another out.
Refault ==
    /\ alive
    /\ swap > 0 /\ current = max
    /\ moved' = TRUE
    /\ UNCHANGED <<alive, max, current, swap, machine, control>>

Exit ==
    /\ alive
    /\ alive' = FALSE
    /\ UNCHANGED <<max, current, swap, moved, machine, control>>

Container == Allocate \/ PageOut \/ PageIn \/ Refault \/ Exit

\* The container has just been launched.
CgroupInit ==
    /\ alive = TRUE
    /\ max = LaunchMax
    /\ current = 0 /\ swap = 0
    /\ swapMax \in SwapMaxes
    /\ hostSwap \in BOOLEAN /\ hasPswp \in BOOLEAN
    /\ moved = FALSE
    /\ program = "none" /\ pc = "idle"

\* The types of the files; the kernel enforces the limit on memory, and only
\* swaps where there is swap.
CgroupTypeOK ==
    /\ alive \in BOOLEAN /\ moved \in BOOLEAN
    /\ max \in LaunchMax .. MaxLimit
    /\ current \in 0 .. max
    /\ swap \in Nat
    /\ swapMax \in SwapMaxes \cup {SwapHeadroom}
    /\ hostSwap \in BOOLEAN /\ hasPswp \in BOOLEAN
    /\ swap > 0 => hostSwap /\ swapMax # 0
=============================================================================
