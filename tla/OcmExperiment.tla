--------------------------- MODULE OcmExperiment ----------------------------
(***************************************************************************)
(* An experiment with one container: the operator runs the checks, or      *)
(* skips them, and then one watcher: the monitor, the A/B script or the    *)
(* passive sampler.                                                        *)
(***************************************************************************)
EXTENDS Observers, SwapPreflight

vars == <<kernel, control, monitor, counts, checks>>

-----------------------------------------------------------------------------
\* A watcher is started; all but the sampler take a first snapshot.  Of the
\* verdicts only that on the container is kept: nothing later reads the others.
Start(watcher) ==
    /\ pc = "idle"
    /\ program' = watcher
    /\ pc' = IF watcher = "sampler" THEN "sleep" ELSE "first_swap"
    /\ precheck'  = IF precheck = "container" THEN precheck ELSE "none"
    /\ preflight' = "none"
    /\ UNCHANGED <<kernel, monitor, counts, baseline, clock>>

Init == CgroupInit /\ MonitorInit /\ ObserversInit /\ ChecksInit

Operator ==
    \/ /\ \E named \in BOOLEAN, answer \in Answers : Precheck(named, answer)
       /\ UNCHANGED <<monitor, counts>>
    \/ StartPreflight /\ UNCHANGED <<monitor, counts>>
    \/ \E watcher \in Watchers : Start(watcher)
    \/ Raise /\ UNCHANGED <<counts, checks>>

Program ==
    \/ Preflight /\ UNCHANGED <<monitor, counts>>
    \/ Read /\ UNCHANGED <<counts, checks>>
    \/ Monitor /\ UNCHANGED <<counts, checks>>
    \/ Observe /\ UNCHANGED checks

Next ==
    \/ Operator
    \/ Program
    \/ Container /\ UNCHANGED <<monitor, counts, checks>>

\* A program that can take its next step takes it: it sleeps for a fixed time
\* and every command it runs returns.  Nothing is assumed of the container or
\* of the operator.
Spec == Init /\ [][Next]_vars /\ WF_vars(Program)

-----------------------------------------------------------------------------
(* Properties.                                                             *)

\* Every variable has its type, and the kernel enforces the limits.
TypeOK ==
    /\ CgroupTypeOK /\ MonitorTypeOK /\ ObserversTypeOK /\ ChecksTypeOK
    /\ program \in Watchers \cup {"none", "preflight"}
    /\ pc \in Reading \cup {"idle", "baseline", "wait", "evaluate", "puff", "suspend", "ended"}

\* Over its limit, with its swap full.
Saturated ==
    /\ alive /\ current + swap > max
    /\ swapMax # Unlimited /\ Whole * swap >= Saturating * swapMax

Monitored == []reliable /\ <>(program = "monitor")

\* A container that stays over its limit with its swap saturated is suspended
\* once its swap has stopped moving, while memory.current still creeps up to
\* the limit (container_monitor.py:12-17).  While the swap moves, a snapshot
\* can show neither: a page that goes out after memory.current was read and
\* comes back before memory.swap.current is read is in neither figure (46-48).
SaturationIsThrottled ==
    Monitored /\ <>[]Saturated /\ <>[][swap' = swap]_vars => <>throttled

\* At its limit with pages in swap.
Thrashing == alive /\ current = max /\ swap > 0

\* After a precheck of the container has passed, one that stays at its limit
\* and keeps swapping is suspended, even if its swap does not grow
\* (container_monitor.py:8-9): the check of memory.stat
\* (cgroup_precheck.py:55-63) is what the monitor relies on.
ThrashingIsThrottled ==
    Monitored /\ <>(precheck = "container") /\ <>[]Thrashing /\ []<>moved => <>throttled

\* The suspend does not depend on what puff() grants: once OCM is seen, the
\* monitor comes to suspend the container, unless that has ended or a docker
\* command fails (container_monitor.py:22-23).
OcmReachesSuspend == pc = "puff" ~> throttled \/ ~alive \/ ~reliable

\* No watcher outlives its container for long (container_monitor.py:107-114).
WatchersEnd == ~alive /\ program \in Watchers ~> pc = "ended"

\* A preflight that passes shows that the container can swap, on this host and
\* under its limits (swap_preflight.py:1-9).
PreflightProvesSwap == preflight = "pass" => hostSwap /\ (swapMax # Unlimited => swapMax > 0)

\* A preflight ends, also of a container that never swaps
\* (swap_preflight.py:32-33).
PreflightEnds == program = "preflight" ~> program # "preflight"

\* The report of the A/B script (05-ab-test-script.py:75-77) adds up: the
\* polls where the two disagree are those that only the new logic reports.
AbAccounts == disagree = new_fired - old_fired /\ new_fired <= polls
=============================================================================
