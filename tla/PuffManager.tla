---------------------------- MODULE PuffManager ----------------------------
(***************************************************************************)
(* The memory side of the controller: puff_manager.py (puff, reclaim,      *)
(* reclaim_host), and the three programs that call it:                     *)
(* container_monitor.py (on OCM: puff, then suspend), admission.py         *)
(* (reclaim for a new container, then docker run) and                      *)
(* host_reclaim_daemon.py (reclaim when the host fills up).                *)
(*                                                                         *)
(* Every program is a process of its own and they share, without a lock,   *)
(* the cgroup limits and the files under state/.  A caller is one such     *)
(* process; each read of a cgroup or of a state file, and each docker      *)
(* command, is a step of it, so that other callers, the kernel and the     *)
(* container's workload can act between what a caller read and what it     *)
(* does with it.  suspend_manager's calls are single steps here; module    *)
(* SuspendManager opens them.                                              *)
(*                                                                         *)
(* Memory is counted in MiB, as in the code.                               *)
(***************************************************************************)
EXTENDS Integers, FiniteSetsExt

CONSTANTS
    Containers,     \* container names
    Callers,        \* concurrent invocations of the controller
    Uncapped,       \* names that run with memory.max = max, not of admission
    Mortal,         \* names whose container may end by itself
    Operated,       \* names the operator suspends and resumes by hand
    NameReuse,      \* may a removed container's name be launched again?
    Faults,         \* steps at which a program may fail, or be killed, and end
    Unread,         \* names docker inspect or the cgroup may give no answer for
                    \* where the code goes on without it
    HostTotal,      \* MemTotal of the host
    Requests,       \* admission --request-mb
    Targets,        \* reclaim-host --target-free-mb
    Amounts,        \* reclaim --amount-mb; None stands for "all of it"
    Growth,         \* how much a workload may allocate at once
    Release,        \* how much it may give back, or the kernel swap out, at once
    MaxLaunch,      \* bound: launches in a behaviour
    MaxLimit,       \* bound: no puff begins on a limit above it
    None,           \* no state file; no container; no amount
    Torn            \* a state file whose writer was killed half-way

ASSUME ConstantsAssumption ==
    /\ Uncapped \subseteq Containers /\ Mortal \subseteq Containers
    /\ Operated \subseteq Containers /\ Unread \subseteq Containers
    /\ NameReuse \in BOOLEAN
    /\ HostTotal \in Nat /\ MaxLaunch \in Nat /\ MaxLimit \in Nat
    /\ Requests \subseteq Nat /\ Targets \subseteq Nat /\ Growth \subseteq Nat
    /\ Release \subseteq Nat
    /\ Amounts \subseteq Nat \cup {None}
    /\ None \notin Nat /\ None \notin Containers
    /\ Torn \notin Nat /\ Torn # None

\* The controller lists them (docker ps): the sum of their limits exists.
ASSUME FiniteAssumption == IsFiniteSet(Containers)

VARIABLES
    \* Docker and the kernel
    status,     \* "absent", "running" or "exited" (not yet docker rm'ed)
    limit,      \* memory.max of a running container
    orig,       \* the limit it was launched with
    usage,      \* memory.current
    created,    \* rank of its creation time; 0 = name never used
    clock,      \* launches so far
    throttled,  \* is the cgroup's CPU at 1%?
    \* the files under state/
    memFile,    \* <c>_memory.json: original_memory_max_mb, None or Torn
    cpuFile,    \* does <c>.json exist?
    \* the callers
    call,       \* the program a caller runs
    pc,         \* the step it is about to take
    job,        \* container
    cur,        \* current_mb
    floor,      \* floor_mb
    new,        \* new_mb
    amount,     \* amount_mb
    target,     \* target_free_mb, or admission's request_mb
    order       \* candidates of reclaim_host, each with its creation rank

files   == <<memFile, cpuFile>>
box     == <<status, limit, orig, usage, created, clock, throttled>>
sweep   == <<target, order>>
frame   == <<job, cur, floor, new, amount>>
callers == <<call, pc, frame, sweep>>
vars    == <<box, files, callers>>

-----------------------------------------------------------------------------
(* Constants and arithmetic of the code.                                   *)

MIN_PUFF_STEP_MB         == 16
RECLAIM_SAFETY_MARGIN_MB == 32
RECLAIM_TARGET_FREE_MB   == 300

PuffStep(mb)  == (mb * 4) \div 10           \* int(current_mb * PUFF_RATIO)
HostBudget    == (HostTotal * 8) \div 10    \* int(total * HOST_STOP_RATIO)
Larger(a, b)  == IF a >= b THEN a ELSE b
Smaller(a, b) == IF a <= b THEN a ELSE b

Running(c) == status[c] = "running"

AssignedBut(missed) ==
    LET limitOf(c) == limit[c]
    IN  MapThenSumSet(limitOf, {c \in Containers \ (Uncapped \cup missed) : Running(c)})

\* What is assigned, and what is left of the budget.
HostAssigned == AssignedBut({})
HostFree     == HostBudget - HostAssigned

\* What get_host_free_mb() may return: a running container whose limit it
\* fails to read is passed over (except (CgroupError, OSError): continue).
FreeReads == {HostBudget - AssignedBut(missed) : missed \in SUBSET Unread}

\* Mutant: the saved floor is forgotten.
SafetyFloorOfUsage(flr, c) == usage[c] + RECLAIM_SAFETY_MARGIN_MB

SafetyFloor(flr, c) == Larger(flr, usage[c] + RECLAIM_SAFETY_MARGIN_MB)

NoOrder == [c \in Containers |-> 0]

-----------------------------------------------------------------------------
(* Control of a caller.                                                    *)

Sweeps == {"reclaim_host", "daemon", "admission"}

\* Begin a program at its first step.
Enter(p, prog, at, c) ==
    /\ pc[p] = "idle"
    /\ call' = [call EXCEPT ![p] = prog]
    /\ pc'   = [pc EXCEPT ![p] = at]
    /\ job'  = [job EXCEPT ![p] = c]

Goto(p, at) == pc' = [pc EXCEPT ![p] = at] /\ UNCHANGED call

\* Locals of puff() and reclaim() are gone when the function returns.
PopFrame(p) ==
    /\ job'    = [job EXCEPT ![p] = None]
    /\ cur'    = [cur EXCEPT ![p] = 0]
    /\ floor'  = [floor EXCEPT ![p] = 0]
    /\ new'    = [new EXCEPT ![p] = 0]
    /\ amount' = [amount EXCEPT ![p] = None]

\* The program ends: by returning, or by an exception, which none of the
\* functions on the way to main() catches.
Finish(p) ==
    /\ call'   = [call EXCEPT ![p] = "none"]
    /\ pc'     = [pc EXCEPT ![p] = "idle"]
    /\ target' = [target EXCEPT ![p] = 0]
    /\ order'  = [order EXCEPT ![p] = NoOrder]
    /\ PopFrame(p)

\* Mutant: the monitor no longer knows its container after puff().
PuffReturnPops(p) ==
    IF call[p] = "monitor"
    THEN Goto(p, "monitor_suspend") /\ PopFrame(p) /\ UNCHANGED sweep
    ELSE Finish(p)

\* puff() returns: the monitor goes on to suspend the container.
PuffReturn(p) ==
    IF call[p] = "monitor"
    THEN Goto(p, "monitor_suspend") /\ UNCHANGED <<frame, sweep>>
    ELSE Finish(p)

\* reclaim() returns: reclaim_host goes on to its next candidate.
ReclaimReturn(p) ==
    IF call[p] \in Sweeps
    THEN Goto(p, "host_next") /\ PopFrame(p) /\ UNCHANGED sweep
    ELSE Finish(p)

-----------------------------------------------------------------------------
(* What the two managers do to a container.                                *)

\* The container's processes are gone and with them its cgroup.
CgroupGone(c) ==
    /\ status'    = [status EXCEPT ![c] = "exited"]
    /\ limit'     = [limit EXCEPT ![c] = 0]
    /\ orig'      = [orig EXCEPT ![c] = 0]
    /\ usage'     = [usage EXCEPT ![c] = 0]
    /\ throttled' = [throttled EXCEPT ![c] = FALSE]
    /\ UNCHANGED <<created, clock>>

\* docker update --memory: a limit below memory.current makes the kernel
\* OOM-kill the container at once; an exited container has no cgroup.
DockerUpdateMemory(c, mb) ==
    /\ status[c] # "absent"
    /\ IF Running(c)
       THEN IF mb < usage[c]
            THEN CgroupGone(c)
            ELSE /\ limit' = [limit EXCEPT ![c] = mb]
                 /\ UNCHANGED <<status, orig, usage, created, clock, throttled>>
       ELSE UNCHANGED box

\* docker update --cpus
SetThrottled(c, b) ==
    /\ throttled' = [throttled EXCEPT ![c] = b /\ Running(c)]
    /\ UNCHANGED <<status, limit, orig, usage, created, clock>>

\* Mutant: a container that has no state file is left at full speed.
SuspendRecord(c) ==
    /\ cpuFile' = [cpuFile EXCEPT ![c] = TRUE]
    /\ UNCHANGED <<box, memFile>>

\* if not is_suspended(c): suspend(c).  The last disjunct is a suspend()
\* whose docker update fails after the state file was written.
SuspendOnce(c) ==
    IF cpuFile[c] THEN UNCHANGED <<box, files>>
    ELSE /\ Running(c)
         /\ cpuFile' = [cpuFile EXCEPT ![c] = TRUE]
         /\ SetThrottled(c, TRUE)
         /\ UNCHANGED memFile

SuspendHalf(c) ==
    /\ Running(c) /\ ~cpuFile[c]
    /\ cpuFile' = [cpuFile EXCEPT ![c] = TRUE]
    /\ UNCHANGED <<box, memFile>>

-----------------------------------------------------------------------------
(* puff(container), by hand or from a monitor that sees OCM.               *)

PuffBegin(p, c, prog) ==
    /\ Running(c)
    /\ c \notin Uncapped
    /\ limit[c] <= MaxLimit
    /\ Enter(p, prog, "puff_save", c)
    /\ cur' = [cur EXCEPT ![p] = limit[c]]
    /\ UNCHANGED <<box, files, floor, new, amount, sweep>>

\* No limit: puff() returns None at once and the monitor goes on.
MonitorUncapped(p, c) ==
    /\ Running(c)
    /\ c \in Uncapped
    /\ Enter(p, "monitor", "monitor_suspend", c)
    /\ UNCHANGED <<box, files, cur, floor, new, amount, sweep>>

\* Mutant: every puff saves the limit it finds.
SaveAlways(p) == cur[p]

ValueToSave(p) == IF memFile[job[p]] = None THEN cur[p] ELSE memFile[job[p]]

PuffSave(p) ==
    /\ pc[p] = "puff_save"
    /\ memFile' = [memFile EXCEPT ![job[p]] = ValueToSave(p)]
    /\ Goto(p, "puff_decide")
    /\ UNCHANGED <<box, cpuFile, frame, sweep>>

\* Mutant: the step is not cut to what the budget has left.
GrantUncut(p, free) == PuffStep(cur[p])

Grant(p, free) == Smaller(PuffStep(cur[p]), free)

\* free is at most HostBudget, so the first guard is available >= MIN.
PuffGrant(p) ==
    /\ pc[p] = "puff_decide"
    /\ PuffStep(cur[p]) >= MIN_PUFF_STEP_MB
    /\ \E free \in FreeReads :
          /\ free \in MIN_PUFF_STEP_MB .. HostBudget
          /\ new' = [new EXCEPT ![p] = cur[p] + Grant(p, free)]
    /\ Goto(p, "puff_apply")
    /\ UNCHANGED <<box, files, job, cur, floor, amount, sweep>>

PuffRefuse(p) ==
    /\ pc[p] = "puff_decide"
    /\ \/ \E free \in FreeReads : free < MIN_PUFF_STEP_MB
       \/ PuffStep(cur[p]) < MIN_PUFF_STEP_MB
    /\ PuffReturn(p)
    /\ UNCHANGED <<box, files>>

PuffApply(p) ==
    /\ pc[p] = "puff_apply"
    /\ DockerUpdateMemory(job[p], new[p])
    /\ PuffReturn(p)
    /\ UNCHANGED files

MonitorSuspend(p) ==
    /\ pc[p] = "monitor_suspend"
    /\ SuspendOnce(job[p])
    /\ Finish(p)

-----------------------------------------------------------------------------
(* reclaim(container, amount_mb).                                          *)

ReclaimBegin(p, c, mb) ==
    /\ Enter(p, "reclaim", "reclaim_file", c)
    /\ amount' = [amount EXCEPT ![p] = mb]
    /\ UNCHANGED <<box, files, cur, floor, new, sweep>>

ReclaimFile(p) ==
    /\ pc[p] = "reclaim_file"
    /\ memFile[job[p]] # Torn
    /\ IF memFile[job[p]] = None
       THEN ReclaimReturn(p)
       ELSE /\ floor' = [floor EXCEPT ![p] = memFile[job[p]]]
            /\ Goto(p, "reclaim_limit")
            /\ UNCHANGED <<job, cur, new, amount, sweep>>
    /\ UNCHANGED <<box, files>>

ReclaimLimit(p) ==
    /\ pc[p] = "reclaim_limit"
    /\ Running(job[p])
    /\ IF limit[job[p]] <= floor[p]
       THEN ReclaimReturn(p)
       ELSE /\ cur' = [cur EXCEPT ![p] = limit[job[p]]]
            /\ Goto(p, "reclaim_usage")
            /\ UNCHANGED <<job, floor, new, amount, sweep>>
    /\ UNCHANGED <<box, files>>

\* Mutant: amount_mb is ignored and everything is taken back.
ReclaimToFloor(p) == SafetyFloor(floor[p], job[p])

ReclaimTo(p) ==
    LET safe == SafetyFloor(floor[p], job[p])
    IN  IF amount[p] = None THEN safe ELSE Larger(safe, cur[p] - amount[p])

ReclaimUsage(p) ==
    /\ pc[p] = "reclaim_usage"
    /\ Running(job[p])
    /\ IF ReclaimTo(p) >= cur[p]
       THEN ReclaimReturn(p)
       ELSE /\ new' = [new EXCEPT ![p] = ReclaimTo(p)]
            /\ Goto(p, "reclaim_suspend")
            /\ UNCHANGED <<job, cur, floor, amount, sweep>>
    /\ UNCHANGED <<box, files>>

ReclaimSuspend(p) ==
    /\ pc[p] = "reclaim_suspend"
    /\ SuspendOnce(job[p])
    /\ Goto(p, "reclaim_apply")
    /\ UNCHANGED <<frame, sweep>>

\* Mutant: any reclaim ends the puffed state.
RestoredByAny(p) == new[p] <= cur[p]

Restored(p) == new[p] <= floor[p]

ReclaimApply(p) ==
    /\ pc[p] = "reclaim_apply"
    /\ DockerUpdateMemory(job[p], new[p])
    /\ IF Restored(p)
       THEN Goto(p, "reclaim_unlink") /\ UNCHANGED <<frame, sweep>>
       ELSE ReclaimReturn(p)
    /\ UNCHANGED files

\* unlink() without missing_ok raises if another caller was first (Raise).
ReclaimUnlink(p) ==
    /\ pc[p] = "reclaim_unlink"
    /\ memFile[job[p]] # None
    /\ memFile' = [memFile EXCEPT ![job[p]] = None]
    /\ ReclaimReturn(p)
    /\ UNCHANGED <<box, cpuFile>>

-----------------------------------------------------------------------------
(* reclaim_host(target_free_mb) and the programs that call it.             *)

HostBegin(p, t) ==
    /\ Enter(p, "reclaim_host", "host_scan", None)
    /\ target' = [target EXCEPT ![p] = t]
    /\ UNCHANGED <<box, files, cur, floor, new, amount, order>>

\* One poll of the daemon: assigned >= host_total * RECLAIM_TRIGGER_RATIO.
DaemonBegin(p) ==
    /\ \E free \in FreeReads : 10 * (HostBudget - free) >= 9 * HostTotal
    /\ Enter(p, "daemon", "host_scan", None)
    /\ target' = [target EXCEPT ![p] = RECLAIM_TARGET_FREE_MB]
    /\ UNCHANGED <<box, files, cur, floor, new, amount, order>>

\* Mutant: room measured against the whole host, not the budget.
FitsHost(r, free) == HostTotal - HostBudget + free >= r

Fits(r, free) == free >= r

\* ensure_capacity(): a sweep only if the request does not fit.
AdmissionBegin(p, r) ==
    /\ \E free \in FreeReads :
          Enter(p, "admission", IF Fits(r, free) THEN "run" ELSE "host_scan", None)
    /\ target' = [target EXCEPT ![p] = r]
    /\ UNCHANGED <<box, files, cur, floor, new, amount, order>>

\* created_at is None: docker no longer knows the container, or docker inspect
\* of one it does know failed.
CreatedUnknown(missed) == {c \in Containers : status[c] = "absent"} \cup missed

\* The candidates: a state file whose container has a creation time.  All other
\* files are deleted.
HostScan(p) ==
    /\ pc[p] = "host_scan"
    /\ \E missed \in SUBSET Unread :
          /\ order' = [order EXCEPT ![p] =
                [c \in Containers |->
                    IF memFile[c] # None /\ c \notin CreatedUnknown(missed)
                    THEN created[c] ELSE 0]]
          /\ memFile' = [c \in Containers |->
                IF c \in CreatedUnknown(missed) THEN None ELSE memFile[c]]
    /\ Goto(p, "host_next")
    /\ UNCHANGED <<box, cpuFile, frame, target>>

\* Mutant: the oldest container first.
IsNextOldest(p, c) ==
    /\ order[p][c] > 0
    /\ \A d \in Containers : order[p][d] = 0 \/ order[p][c] <= order[p][d]

\* The first candidate left: the one created last.
IsNext(p, c) ==
    /\ order[p][c] > 0
    /\ \A d \in Containers : order[p][d] <= order[p][c]

HostNext(p, c) ==
    /\ pc[p] = "host_next"
    /\ IsNext(p, c)
    /\ job'    = [job EXCEPT ![p] = c]
    /\ \E free \in FreeReads :
          /\ target[p] - free \in Nat \ {0}       \* free < target_free_mb
          /\ amount' = [amount EXCEPT ![p] = target[p] - free]
    /\ order'  = [order EXCEPT ![p][c] = 0]
    /\ Goto(p, "reclaim_file")
    /\ UNCHANGED <<box, files, cur, floor, new, target>>

HostReturn(p) ==
    /\ pc[p] = "host_next"
    /\ (\E free \in FreeReads : free >= target[p]) \/ order[p] = NoOrder
    /\ IF call[p] = "admission"
       THEN Goto(p, "run") /\ UNCHANGED <<frame, sweep>>
       ELSE Finish(p)
    /\ UNCHANGED <<box, files>>

\* docker run --memory: admission launches even if the sweep fell short.
Run(p, c) ==
    /\ pc[p] = "run"
    /\ clock < MaxLaunch
    /\ c \notin Uncapped
    /\ status[c] = "absent"
    /\ NameReuse \/ created[c] = 0
    /\ status'    = [status EXCEPT ![c] = "running"]
    /\ limit'     = [limit EXCEPT ![c] = target[p]]
    /\ orig'      = [orig EXCEPT ![c] = target[p]]
    /\ usage'     = [usage EXCEPT ![c] = 0]
    /\ throttled' = [throttled EXCEPT ![c] = FALSE]
    /\ clock'     = clock + 1
    /\ created'   = [created EXCEPT ![c] = clock + 1]
    /\ Finish(p)
    /\ UNCHANGED files

-----------------------------------------------------------------------------
(* Errors.                                                                 *)

\* The next step of p cannot succeed: a torn file or no cgroup to read, no
\* container to update, no file to unlink, or the name to run is taken.
Stuck(p) ==
    \/ pc[p] = "reclaim_file" /\ memFile[job[p]] = Torn
    \/ pc[p] \in {"reclaim_limit", "reclaim_usage"} /\ ~Running(job[p])
    \/ /\ pc[p] \in {"reclaim_suspend", "monitor_suspend"}
       /\ ~cpuFile[job[p]] /\ ~Running(job[p])
    \/ pc[p] \in {"puff_apply", "reclaim_apply"} /\ status[job[p]] = "absent"
    \/ pc[p] = "reclaim_unlink" /\ memFile[job[p]] = None
    \/ pc[p] = "run" /\ (clock = MaxLaunch \/ \E c \in Containers : status[c] # "absent")

Raise(p) ==
    /\ pc[p] # "idle"
    /\ pc[p] \in Faults \/ Stuck(p)
    /\ Finish(p)
    /\ UNCHANGED <<box, files>>

RaiseInSuspend(p) ==
    /\ pc[p] \in Faults \cap {"reclaim_suspend", "monitor_suspend"}
    /\ SuspendHalf(job[p])
    /\ Finish(p)

\* puff() is killed in write_text(), which has emptied the file before.
RaiseInSave(p) ==
    /\ pc[p] \in Faults
    /\ pc[p] = "puff_save" /\ memFile[job[p]] = None
    /\ memFile' = [memFile EXCEPT ![job[p]] = Torn]
    /\ Finish(p)
    /\ UNCHANGED <<box, cpuFile>>

-----------------------------------------------------------------------------
(* The containers and their operator.                                      *)

Grow(c) ==
    /\ Running(c) /\ c \notin Uncapped
    /\ \E mb \in Growth :
          /\ usage[c] + mb <= limit[c]
          /\ usage' = [usage EXCEPT ![c] = @ + mb]
    /\ UNCHANGED <<status, limit, orig, created, clock, throttled, files, callers>>

Shrink(c) ==
    /\ Running(c) /\ c \notin Uncapped
    /\ \E mb \in Release :
          /\ mb <= usage[c]
          /\ usage' = [usage EXCEPT ![c] = @ - mb]
    /\ UNCHANGED <<status, limit, orig, created, clock, throttled, files, callers>>

Exit(c) ==
    /\ c \in Mortal /\ Running(c)
    /\ CgroupGone(c)
    /\ UNCHANGED <<files, callers>>

Remove(c) ==
    /\ status[c] = "exited"
    /\ status' = [status EXCEPT ![c] = "absent"]
    /\ UNCHANGED <<limit, orig, usage, created, clock, throttled, files, callers>>

\* suspend_manager.py suspend / resume, run by hand.
SuspendCommand(c) ==
    /\ c \in Operated /\ Running(c)
    /\ cpuFile' = [cpuFile EXCEPT ![c] = TRUE]
    /\ SetThrottled(c, TRUE)
    /\ UNCHANGED <<memFile, callers>>

ResumeCommand(c) ==
    /\ c \in Operated /\ status[c] # "absent"
    /\ cpuFile[c]
    /\ cpuFile' = [cpuFile EXCEPT ![c] = FALSE]
    /\ SetThrottled(c, FALSE)
    /\ UNCHANGED <<memFile, callers>>

-----------------------------------------------------------------------------
Init ==
    /\ status    = [c \in Containers |-> IF c \in Uncapped THEN "running" ELSE "absent"]
    /\ limit     = [c \in Containers |-> 0]
    /\ orig      = [c \in Containers |-> 0]
    /\ usage     = [c \in Containers |-> 0]
    /\ created   = [c \in Containers |-> 0]
    /\ clock     = 0
    /\ throttled = [c \in Containers |-> FALSE]
    /\ memFile   = [c \in Containers |-> None]
    /\ cpuFile   = [c \in Containers |-> FALSE]
    /\ call      = [p \in Callers |-> "none"]
    /\ pc        = [p \in Callers |-> "idle"]
    /\ job       = [p \in Callers |-> None]
    /\ cur       = [p \in Callers |-> 0]
    /\ floor     = [p \in Callers |-> 0]
    /\ new       = [p \in Callers |-> 0]
    /\ amount    = [p \in Callers |-> None]
    /\ target    = [p \in Callers |-> 0]
    /\ order     = [p \in Callers |-> NoOrder]

Begin(p) ==
    \/ \E c \in Containers : \/ PuffBegin(p, c, "puff")
                             \/ PuffBegin(p, c, "monitor")
                             \/ MonitorUncapped(p, c)
                             \/ \E mb \in Amounts : ReclaimBegin(p, c, mb)
    \/ \E t \in Targets : HostBegin(p, t)
    \/ DaemonBegin(p)
    \/ \E r \in Requests : AdmissionBegin(p, r)

Step(p) ==
    \/ PuffSave(p) \/ PuffGrant(p) \/ PuffRefuse(p) \/ PuffApply(p)
    \/ MonitorSuspend(p)
    \/ ReclaimFile(p) \/ ReclaimLimit(p) \/ ReclaimUsage(p)
    \/ ReclaimSuspend(p) \/ ReclaimApply(p) \/ ReclaimUnlink(p)
    \/ HostScan(p) \/ HostReturn(p)
    \/ \E c \in Containers : HostNext(p, c) \/ Run(p, c)
    \/ Raise(p) \/ RaiseInSuspend(p) \/ RaiseInSave(p)

Outside(c) ==
    Grow(c) \/ Shrink(c) \/ Exit(c) \/ Remove(c) \/ SuspendCommand(c) \/ ResumeCommand(c)

Next ==
    \/ \E p \in Callers : Begin(p) \/ Step(p)
    \/ \E c \in Containers : Outside(c)

Spec == Init /\ [][Next]_vars

-----------------------------------------------------------------------------
(* Properties.                                                             *)

Programs == {"none", "puff", "monitor", "reclaim"} \cup Sweeps

Steps == {"idle", "puff_save", "puff_decide", "puff_apply", "monitor_suspend",
          "reclaim_file", "reclaim_limit", "reclaim_usage", "reclaim_suspend",
          "reclaim_apply", "reclaim_unlink", "host_scan", "host_next", "run"}

BoxOK ==
    /\ status    \in [Containers -> {"absent", "running", "exited"}]
    /\ limit     \in [Containers -> Nat]
    /\ orig      \in [Containers -> Nat]
    /\ usage     \in [Containers -> Nat]
    /\ created   \in [Containers -> 0 .. MaxLaunch]
    /\ clock     \in 0 .. MaxLaunch
    /\ throttled \in [Containers -> BOOLEAN]

FilesOK ==
    /\ memFile \in [Containers -> Nat \cup {None, Torn}]
    /\ cpuFile \in [Containers -> BOOLEAN]

\* The steps of puff() and reclaim(), which work on one container.
JobSteps == Steps \ {"idle", "host_scan", "host_next", "run"}

CallersOK ==
    /\ call   \in [Callers -> Programs]
    /\ pc     \in [Callers -> Steps]
    /\ job    \in [Callers -> Containers \cup {None}]
    /\ cur    \in [Callers -> Nat]
    /\ floor  \in [Callers -> Nat]
    /\ new    \in [Callers -> Nat]
    /\ amount \in [Callers -> Nat \cup {None}]
    /\ target \in [Callers -> Nat]
    /\ order  \in [Callers -> [Containers -> 0 .. MaxLaunch]]
    /\ \A p \in Callers : pc[p] \in JobSteps => job[p] \in Containers

\* Every variable has its type: limits, saved limits and the locals of puff()
\* and reclaim() are never negative, and these two always have a container.
TypeOK == BoxOK /\ FilesOK /\ CallersOK

\* No interleaving of puffs and reclaims leaves a container with less memory
\* than it was launched with (puff_manager.py:5-6, 190).
FloorRespected == \A c \in Containers : limit[c] >= orig[c]

Memory == INSTANCE NodeMemory WITH running <- {c \in Containers : Running(c)}

\* Whatever the programs, their failures and their interleaving, all that ever
\* happens to a container's memory is what NodeMemory allows: one container at
\* a time is launched, resized to no less than its launch limit, or gone.
KeepsLaunchMemory == Memory!Spec

\* What puff() saved is the limit from before the first puff, so that a full
\* reclaim restores it (puff_manager.py:12-13), or cannot be read at all.
\* Stated for programs that do not overlap and for Unread = {}: a docker inspect
\* that fails during a sweep loses the file of a container that is still
\* enlarged, and the next puff saves the enlarged limit (251-254, 272-276).
SavedIsOriginal ==
    \A c \in Containers :
        Running(c) /\ memFile[c] \notin {None, Torn} => memFile[c] = orig[c]

\* A container larger than it was launched has a state file: without one no
\* reclaim_host() ever finds it again and its memory is lost to the host.
\* Stated under the same conditions as SavedIsOriginal, and for the same reason.
EnlargedHasFile ==
    \A c \in Containers : limit[c] > orig[c] => memFile[c] # None

\* The memory a reclaim could still take from c.
Slack(c) ==
    IF Running(c) /\ memFile[c] \notin {None, Torn}
    THEN limit[c] - SafetyFloor(memFile[c], c) ELSE 0

\* When the daemon triggers there is nothing left to take: puffs stop at 0.8 of
\* the host, and admission has exhausted the containers before it goes above
\* that.  Stated for programs that run one after the other and whose reads of
\* the assigned sum are complete (Unread = {}), for workloads that give nothing
\* back (Release = {}) and for hosts all of whose limited containers came through
\* admission, as Run is the only launch here: a race, a read that failed, a
\* container launched past admission or memory given back is what gives the
\* daemon anything to do (host_reclaim_daemon.py:12-14, 41).
NothingLeftAtTrigger ==
    10 * HostAssigned >= 9 * HostTotal => \A c \in Containers : Slack(c) <= 0

\* A puff never brings the sum of the limits above the budget
\* (puff_manager.py:104, 111).  Stated for programs that do not overlap and for
\* Unread = {}: a limit that get_host_assigned_mb() passes over is room that is
\* not there (126-129).
PuffWithinBudget ==
    [][\A p \in Callers : PuffApply(p) => HostAssigned' <= HostBudget]_vars

\* Admission exceeds the budget only when no puffed container has anything
\* left to give back (admission.py:56-85).  Stated for programs that do not
\* overlap, for Unread = {} and for Release = {}: a container the sweep has
\* passed may otherwise have something again by the time docker runs.
OvercommitOnlyWhenExhausted ==
    [][\A p \in Callers, c \in Containers :
          Run(p, c) /\ HostAssigned' > HostBudget
              => \A d \in Containers : Slack(d) <= 0]_vars

\* Earliest Job First: a sweep takes nothing from a container while one that
\* was created later still has something to give (puff_manager.py:257-266).
\* Stated under the same conditions as OvercommitOnlyWhenExhausted: a sweep asks
\* each container once.
EarliestJobFirst ==
    [][\A p \in Callers : ReclaimApply(p) /\ call[p] \in Sweeps =>
          \A d \in Containers :
              created[d] > created[job[p]] => Slack(d) <= 0]_vars

\* A sweep acts only while room is missing and, unless its update makes the
\* kernel kill the container, never frees more than was asked for
\* (puff_manager.py:304-308).
SweepTakesWhatIsMissing ==
    [][\A p \in Callers : ReclaimApply(p) /\ call[p] \in Sweeps =>
          /\ HostFree < target[p]
          /\ UNCHANGED status => HostFree' <= target[p]]_vars

\* A container whose memory is taken back runs at 1% CPU by then
\* (puff_manager.py:204-207), unless a suspend() broke off half-way, the operator
\* resumed it or its name was used before.
ReclaimedAreThrottled ==
    [][\A p \in Callers :
          ReclaimApply(p) /\ Running(job[p]) => throttled[job[p]]]_vars

\* A reclaim never lowers a limit below what the container uses, which would
\* OOM-kill it (puff_manager.py:84-85, 194).
ReclaimNeverKills ==
    [][\A p \in Callers : ReclaimApply(p) => UNCHANGED status]_vars

\* The containers a sweep will try to reclaim have not terminated: the state
\* files of those that have are cleaned up (puff_manager.py:264-265).
CandidatesAreAlive ==
    [][\A p \in Callers : HostScan(p) =>
          \A c \in Containers : order'[p][c] > 0 => Running(c)]_vars
=============================================================================
