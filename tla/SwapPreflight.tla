--------------------------- MODULE SwapPreflight ----------------------------
(***************************************************************************)
(* The checks before an experiment: cgroup_precheck.py looks at how docker *)
(* and the container are set up, swap_preflight.py waits until the swap of *)
(* the container grows or a deadline passes.                               *)
(***************************************************************************)
EXTENDS Cgroup

CONSTANT Timeout    \* --timeout, in units of --interval

ASSUME TimeoutAssumption == Timeout \in Nat

VARIABLES
    precheck,   \* its verdict: none yet, fail, pass for the host, pass for the container
    preflight,  \* its verdict: none, fail (or an error), pass
    baseline,   \* the first memory.swap.current
    clock       \* intervals slept

verdicts == <<precheck, preflight>>
checks   == <<verdicts, baseline, clock>>

-----------------------------------------------------------------------------
(* cgroup_precheck.py.                                                     *)

\* What docker info prints: a version, or it fails.
Answers == {"1", "2", "error"}
check_docker_cgroup_version(answer) == answer = "2"

check_host_swap == hostSwap
check_container_swap_max == swapMax # Unlimited => swapMax > 0
check_memory_stat_swap_keys == hasPswp

\* Mutant: the keys of memory.stat are not checked.
NoKeyCheck == alive /\ check_container_swap_max

\* A container without a cgroup fails (CgroupError).
ContainerChecks == alive /\ check_container_swap_max /\ check_memory_stat_swap_keys

\* main(), with or without a container.
Precheck(named, answer) ==
    /\ pc = "idle" /\ precheck = "none" /\ preflight = "none"
    /\ precheck' = IF /\ check_docker_cgroup_version(answer) /\ check_host_swap
                      /\ named => ContainerChecks
                   THEN IF named THEN "container" ELSE "host"
                   ELSE "fail"
    /\ UNCHANGED <<kernel, control, preflight, baseline, clock>>

-----------------------------------------------------------------------------
(* swap_preflight.py: run_preflight().                                     *)

\* It ends with a verdict; what it measured is forgotten.
Conclude(verdict) ==
    /\ preflight' = verdict
    /\ baseline' = 0 /\ clock' = 0
    /\ pc' = "idle" /\ program' = "none"
    /\ UNCHANGED <<kernel, precheck>>

StartPreflight ==
    /\ pc = "idle" /\ preflight = "none"
    /\ program' = "preflight" /\ pc' = "baseline"
    /\ UNCHANGED <<kernel, checks>>

ReadBaseline ==
    /\ pc = "baseline"
    /\ alive
    /\ baseline' = swap
    /\ Goto("wait")
    /\ UNCHANGED <<kernel, verdicts, clock>>

\* Mutant: a swap that has not fallen is taken for one that grows.
SwapNotLess ==
    /\ pc = "wait" /\ clock < Timeout
    /\ alive
    /\ swap >= baseline
    /\ Conclude("pass")

\* if current > baseline: return True
SwapGrew ==
    /\ pc = "wait" /\ clock < Timeout
    /\ alive
    /\ swap > baseline
    /\ Conclude("pass")

\* Mutant: the deadline is set anew at every turn.
SleepForever ==
    /\ pc = "wait" /\ clock < Timeout
    /\ alive
    /\ swap <= baseline
    /\ UNCHANGED <<kernel, control, verdicts, baseline, clock>>

\* time.sleep(interval)
Sleep ==
    /\ pc = "wait" /\ clock < Timeout
    /\ alive
    /\ swap <= baseline
    /\ clock' = clock + 1
    /\ UNCHANGED <<kernel, control, verdicts, baseline>>

\* The deadline has passed; the diagnosis only prints.
TimedOut ==
    /\ pc = "wait" /\ clock >= Timeout
    /\ Conclude("fail")

\* The container has no cgroup any more: CgroupError, or an OSError that
\* main() does not catch.  Either way the exit status is 1.
ContainerGone ==
    /\ pc \in {"baseline", "wait"}
    /\ ~alive
    /\ Conclude("fail")

Preflight == ReadBaseline \/ SwapGrew \/ Sleep \/ TimedOut \/ ContainerGone

ChecksInit == precheck = "none" /\ preflight = "none" /\ baseline = 0 /\ clock = 0

ChecksTypeOK ==
    /\ precheck \in {"none", "fail", "host", "container"}
    /\ preflight \in {"none", "fail", "pass"}
    /\ baseline \in Nat
    /\ clock \in 0 .. Timeout
=============================================================================
