-------------------------- MODULE ContainerMonitor --------------------------
(***************************************************************************)
(* container_monitor.py: a monitor polls the cgroup of one container,      *)
(* decides whether it is under memory pressure (OCM), and if so puffs and  *)
(* suspends it.  The files of the cgroup are read one after the other,     *)
(* while the workload allocates and the kernel swaps.  puff() and          *)
(* suspend() are single steps here: PuffManager and SuspendManager open    *)
(* them.                                                                   *)
(***************************************************************************)
EXTENDS Cgroup

CONSTANTS Saturating, Whole     \* SWAP_SATURATION_RATIO = Saturating / Whole

ASSUME RatioAssumption == Saturating \in Nat /\ Whole \in Nat \ {0}

VARIABLES
    prevSwap,   \* prev["swap_current"]
    curr,       \* what is read so far of the snapshot
    throttled,  \* suspended
    reliable    \* no docker command has failed, and nobody has pressed Ctrl-C

snapshot == <<prevSwap, curr>>
monitor  == <<snapshot, throttled, reliable>>

Blank == [current |-> 0, max |-> 0, swap |-> 0, moved |-> FALSE]

-----------------------------------------------------------------------------
(* evaluate_ocm(prev, curr).                                               *)

OverLimit == curr.current + curr.swap > curr.max

\* The increase of the two counters, or else of memory.swap.current.
SwapActivity == IF hasPswp THEN curr.moved ELSE curr.swap > prevSwap

\* curr["swap_current"] >= swap_max * SWAP_SATURATION_RATIO
SwapSaturated == swapMax # Unlimited /\ Whole * curr.swap >= Saturating * swapMax

\* Mutant: the logic before the saturation test was added.
ActivityOnly == OverLimit /\ SwapActivity

Ocm == OverLimit /\ (SwapActivity \/ SwapSaturated)

-----------------------------------------------------------------------------
(* read_snapshot(), which the A/B script imports; the passive sampler      *)
(* reads the same files in the same order, except memory.stat.             *)

Watchers == {"monitor", "once", "ab", "sampler"}
Reading  == {"first_swap", "first_stat", "sleep", "read_max", "read_swap", "read_stat"}

\* prev: only its swap and its counters are used later.
FirstSwap ==
    /\ pc = "first_swap"
    /\ alive
    /\ prevSwap' = swap
    /\ Goto("first_stat")
    /\ UNCHANGED <<kernel, curr, throttled, reliable>>

FirstStat ==
    /\ pc = "first_stat"
    /\ alive
    /\ moved' = FALSE
    /\ Goto("sleep")
    /\ UNCHANGED <<alive, max, current, swap, machine, monitor>>

ReadCurrent ==
    /\ pc = "sleep"
    /\ alive
    /\ curr' = [curr EXCEPT !.current = current]
    /\ Goto("read_max")
    /\ UNCHANGED <<kernel, prevSwap, throttled, reliable>>

ReadMax ==
    /\ pc = "read_max"
    /\ alive
    /\ curr' = [curr EXCEPT !.max = max]
    /\ Goto("read_swap")
    /\ UNCHANGED <<kernel, prevSwap, throttled, reliable>>

ReadSwap ==
    /\ pc = "read_swap"
    /\ alive
    /\ curr' = [curr EXCEPT !.swap = swap]
    /\ Goto("read_stat")
    /\ UNCHANGED <<kernel, prevSwap, throttled, reliable>>

ReadStat ==
    /\ pc = "read_stat" /\ program # "sampler"
    /\ alive
    /\ curr'  = [curr EXCEPT !.moved = moved]
    /\ moved' = FALSE
    /\ Goto("evaluate")
    /\ UNCHANGED <<alive, max, current, swap, machine, prevSwap, throttled, reliable>>

\* Mutant: a container that is lost while memory.stat is read goes unnoticed.
LostEarly ==
    /\ pc \in Reading \ {"read_stat"}
    /\ ~alive
    /\ Goto("ended")
    /\ UNCHANGED <<kernel, monitor>>

\* The cgroup is gone: the program ends, reporting it or, at the first
\* snapshot, by an exception.
Lost ==
    /\ pc \in Reading
    /\ ~alive
    /\ Goto("ended")
    /\ UNCHANGED <<kernel, monitor>>

Read == FirstSwap \/ FirstStat \/ ReadCurrent \/ ReadMax \/ ReadSwap \/ ReadStat \/ Lost

-----------------------------------------------------------------------------
(* monitor(): what follows a snapshot.                                     *)

Monitoring == program \in {"monitor", "once"}
Again      == IF program = "once" THEN "ended" ELSE "sleep"

\* prev = curr, of which only the swap is used again.
NextPoll == prevSwap' = curr.swap /\ curr' = Blank

Evaluate ==
    /\ pc = "evaluate" /\ Monitoring
    /\ NextPoll
    /\ Goto(IF Ocm THEN "puff" ELSE Again)
    /\ UNCHANGED <<kernel, throttled, reliable>>

\* docker update --memory --memory-swap: the second is the first plus the
\* headroom, which is what memory.swap.max becomes.
DockerUpdate(limit) == max' = limit /\ swapMax' = SwapHeadroom

\* Mutant: the container is only suspended if the puff was granted.
PuffOrGiveUp ==
    /\ pc = "puff"
    /\ \/ alive /\ (\E limit \in max + 1 .. MaxLimit : DockerUpdate(limit)) /\ Goto("suspend")
       \/ alive /\ UNCHANGED <<max, swapMax>> /\ Goto(Again)
       \/ ~alive /\ UNCHANGED <<max, swapMax>> /\ Goto("ended")
    /\ UNCHANGED <<alive, current, swap, moved, hostSwap, hasPswp, monitor>>

\* Mutant: the new limit may be below the old one.
PuffEither ==
    /\ pc = "puff"
    /\ \/ alive /\ (\E limit \in 0 .. MaxLimit : DockerUpdate(limit)) /\ Goto("suspend")
       \/ alive /\ UNCHANGED <<max, swapMax>> /\ Goto("suspend")
       \/ ~alive /\ UNCHANGED <<max, swapMax>> /\ Goto("ended")
    /\ UNCHANGED <<alive, current, swap, moved, hostSwap, hasPswp, monitor>>

\* puff() raises the limit, or finds no room; a container without a cgroup is
\* an error.
Puff ==
    /\ pc = "puff"
    /\ \/ alive /\ (\E limit \in max + 1 .. MaxLimit : DockerUpdate(limit)) /\ Goto("suspend")
       \/ alive /\ UNCHANGED <<max, swapMax>> /\ Goto("suspend")
       \/ ~alive /\ UNCHANGED <<max, swapMax>> /\ Goto("ended")
    /\ UNCHANGED <<alive, current, swap, moved, hostSwap, hasPswp, monitor>>

\* if not is_suspended: suspend(), whether or not the puff was granted.
Suspend ==
    /\ pc = "suspend"
    /\ IF alive \/ throttled
       THEN throttled' = TRUE /\ Goto(Again)
       ELSE UNCHANGED throttled /\ Goto("ended")
    /\ UNCHANGED <<kernel, snapshot, reliable>>

\* A docker command fails: neither PuffError nor SuspendError is caught, so the
\* monitor ends.  Ctrl-C ends it, or another watcher, anywhere.
Raise ==
    /\ program \in Watchers /\ pc # "ended"
    /\ reliable' = FALSE
    /\ Goto("ended")
    /\ UNCHANGED <<kernel, snapshot, throttled>>

Monitor == Evaluate \/ Puff \/ Suspend

MonitorInit ==
    /\ prevSwap = 0
    /\ curr = Blank
    /\ throttled = FALSE
    /\ reliable = TRUE

MonitorTypeOK ==
    /\ prevSwap \in Nat
    /\ curr \in [current : Nat, max : Nat, swap : Nat, moved : BOOLEAN]
    /\ throttled \in BOOLEAN /\ reliable \in BOOLEAN
=============================================================================
