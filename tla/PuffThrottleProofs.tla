------------------------- MODULE PuffThrottleProofs -------------------------
(***************************************************************************)
(* A container whose memory is taken back is throttled by then, whatever   *)
(* the number of programs and their interleaving, wherever else a program  *)
(* fails or is killed, as long as no suspend() breaks off between its file *)
(* and its docker update, the operator resumes nothing by hand and names   *)
(* are not reused.  Each assumption is needed: a suspend() that breaks off *)
(* leaves a file that stands for a throttle that never was, and so does    *)
(* the file of a removed container whose name comes back.                  *)
(***************************************************************************)
EXTENDS PuffManagerProofs

Undisturbed ==
    /\ Faults \cap {"reclaim_suspend", "monitor_suspend"} = {}
    /\ ~NameReuse /\ Operated = {}

\* The name c is in use, or was.
Known(c) == c \in Uncapped \/ created[c] > 0

\* A state file belongs to a known name, and to a throttled container.
FilesThrottle ==
    \A c \in Containers :
        cpuFile[c] => Known(c) /\ (Running(c) => throttled[c])

\* What a caller relies on at each step.
Relies(p) ==
    /\ pc[p] = "monitor_suspend" => Known(job[p])
    /\ pc[p] = "reclaim_apply" => cpuFile[job[p]]

ThrottleInv == FilesThrottle /\ \A p \in Callers : Relies(p)

\* No file is removed, no container starts or comes to run at full speed.
Calm ==
    /\ UNCHANGED <<cpuFile, created>>
    /\ \A c \in Containers : Running(c)' => Running(c) /\ throttled'[c] = throttled[c]

LEMMA CalmFiles == ASSUME FilesThrottle, Calm PROVE FilesThrottle'
BY DEF FilesThrottle, Known, Calm

LEMMA StillCalm == ASSUME UNCHANGED box, UNCHANGED cpuFile PROVE Calm
BY DEF box, Calm, Running

LEMMA GoneCalm ==
    ASSUME TypeOK, NEW c \in Containers, CgroupGone(c), UNCHANGED cpuFile
    PROVE  Calm
BY DEF CgroupGone, Calm, Running, TypeOK, BoxOK

LEMMA UpdateCalm ==
    ASSUME TypeOK, NEW c \in Containers, NEW mb \in Nat, DockerUpdateMemory(c, mb),
           UNCHANGED cpuFile
    PROVE  Calm
<1>1. CASE Running(c) /\ mb < usage[c]
  BY <1>1, GoneCalm DEF DockerUpdateMemory
<1>2. CASE Running(c) /\ ~(mb < usage[c])
  BY <1>2 DEF DockerUpdateMemory, Calm, Running
<1>3. CASE ~Running(c)
  BY <1>3, StillCalm DEF DockerUpdateMemory
<1> QED BY <1>1, <1>2, <1>3

\* suspend() of a known container, unless it is suspended already.
LEMMA SuspendThrottles ==
    ASSUME TypeOK, FilesThrottle, NEW c \in Containers, Known(c), SuspendOnce(c)
    PROVE  /\ FilesThrottle' /\ cpuFile'[c] /\ UNCHANGED created
           /\ \A d \in Containers : cpuFile[d] => cpuFile'[d]
<1>1. CASE cpuFile[c]
  BY <1>1 DEF SuspendOnce, box, files, FilesThrottle, Known, Running
<1>2. CASE ~cpuFile[c]
  <2>1. /\ Running(c) /\ cpuFile' = [cpuFile EXCEPT ![c] = TRUE]
        /\ throttled' = [throttled EXCEPT ![c] = TRUE]
        /\ UNCHANGED <<status, created>>
    BY <1>2 DEF SuspendOnce, SetThrottled
  <2> QED BY <2>1 DEF FilesThrottle, Known, Running, TypeOK, BoxOK, FilesOK
<1> QED BY <1>1, <1>2

\* What a step of p must show.
LEMMA ThrottleKept ==
    ASSUME TypeOK, ThrottleInv, NEW p \in Callers, Begin(p) \/ Step(p),
           FilesThrottle', Relies(p)',
           \A c \in Containers : created'[c] = created[c] /\ (cpuFile[c] => cpuFile'[c])
    PROVE  ThrottleInv'
<1>1. ASSUME NEW q \in Callers, q # p
      PROVE  Relies(q)'
  <2>1. pc'[q] = pc[q] /\ job'[q] = job[q]
    BY <1>1, OthersStill
  <2>2. pc[q] \in {"monitor_suspend", "reclaim_apply"} => job[q] \in Containers
    BY DEF TypeOK, CallersOK, JobSteps, Steps
  <2> QED BY <2>1, <2>2 DEF ThrottleInv, Relies, Known
<1> QED BY <1>1 DEF ThrottleInv

\* The same for a step that throttles nobody.
LEMMA CalmKept ==
    ASSUME TypeOK, ThrottleInv, NEW p \in Callers, Begin(p) \/ Step(p), Calm, Relies(p)'
    PROVE  ThrottleInv'
<1>1. FilesThrottle'
  BY CalmFiles DEF ThrottleInv
<1> QED BY <1>1, ThrottleKept DEF Calm

LEMMA ReliesOnNothing ==
    ASSUME NEW p, pc'[p] \notin {"monitor_suspend", "reclaim_apply"}
    PROVE  Relies(p)'
BY DEF Relies

\* puff() returns: its monitor goes on with a container that exists.
LEMMA ReturnRelies ==
    ASSUME TypeOK, NEW p \in Callers, UNCHANGED created,
           \/ Finish(p) \/ ReclaimReturn(p)
           \/ PuffReturn(p) /\ created[job[p]] > 0
    PROVE  Relies(p)'
<1>1. CASE Finish(p) \/ ReclaimReturn(p)
  BY <1>1 DEF Finish, ReclaimReturn, Goto, TypeOK, CallersOK, Relies
<1>2. CASE PuffReturn(p) /\ ~Finish(p) /\ created[job[p]] > 0
  BY <1>2 DEF PuffReturn, Goto, frame, TypeOK, CallersOK, Relies, Known
<1> QED BY <1>1, <1>2

LEMMA BeginThrottle ==
    ASSUME TypeOK, ThrottleInv, NEW p \in Callers, Begin(p)
    PROVE  ThrottleInv'
<1>1. Calm
  BY StillCalm DEF Begin, PuffBegin, MonitorUncapped, ReclaimBegin, HostBegin,
                   DaemonBegin, AdmissionBegin, files
<1>2. Relies(p)'
  <2>1. ASSUME NEW c \in Containers, MonitorUncapped(p, c) PROVE Relies(p)'
    BY <2>1 DEF MonitorUncapped, Enter, TypeOK, CallersOK, Relies, Known
  <2>2. CASE \A c \in Containers : ~MonitorUncapped(p, c)
    BY <2>2, ReliesOnNothing
       DEF Begin, PuffBegin, ReclaimBegin, HostBegin, DaemonBegin, AdmissionBegin,
           Enter, TypeOK, CallersOK
  <2> QED BY <2>1, <2>2
<1> QED BY <1>1, <1>2, CalmKept

LEMMA PuffThrottle ==
    ASSUME FloorInv, ThrottleInv, NEW p \in Callers, Step(p),
           \/ PuffSave(p) \/ PuffGrant(p) \/ PuffRefuse(p) \/ PuffApply(p)
           \/ MonitorSuspend(p)
    PROVE  ThrottleInv'
<1> USE DEF FloorInv
<1>1. CASE PuffSave(p) \/ PuffGrant(p)
  <2>1. Calm
    BY <1>1, StillCalm DEF PuffSave, PuffGrant, files
  <2>2. Relies(p)'
    BY <1>1, ReliesOnNothing DEF PuffSave, PuffGrant, Goto, TypeOK, CallersOK
  <2> QED BY <2>1, <2>2, CalmKept
<1>2. CASE PuffRefuse(p) \/ PuffApply(p)
  <2>1. job[p] \in Containers /\ new[p] \in Nat
    BY <1>2 DEF PuffRefuse, PuffApply, TypeOK, CallersOK, JobSteps, Steps
  <2>2. Calm
    BY <1>2, <2>1, StillCalm, UpdateCalm DEF PuffRefuse, PuffApply, files
  <2>3. created[job[p]] > 0
    BY <1>2 DEF PuffRefuse, PuffApply, Holds, PuffHolds, WillWrite
  <2>4. Relies(p)'
    BY <1>2, <2>2, <2>3, ReturnRelies DEF PuffRefuse, PuffApply, Calm
  <2> QED BY <2>2, <2>4, CalmKept
<1>3. CASE MonitorSuspend(p)
  <2>1. job[p] \in Containers /\ Known(job[p])
    BY <1>3 DEF MonitorSuspend, ThrottleInv, Relies, TypeOK, CallersOK, JobSteps, Steps
  <2>2. /\ FilesThrottle' /\ UNCHANGED created
        /\ \A d \in Containers : cpuFile[d] => cpuFile'[d]
    BY <1>3, <2>1, SuspendThrottles DEF MonitorSuspend, ThrottleInv
  <2> QED BY <1>3, <2>2, ReturnRelies, ThrottleKept DEF MonitorSuspend
<1> QED BY <1>1, <1>2, <1>3

LEMMA ReclaimThrottle ==
    ASSUME FloorInv, ThrottleInv, NEW p \in Callers, Step(p),
           \/ ReclaimFile(p) \/ ReclaimLimit(p) \/ ReclaimUsage(p)
           \/ ReclaimSuspend(p) \/ ReclaimApply(p) \/ ReclaimUnlink(p)
    PROVE  ThrottleInv'
<1> USE DEF FloorInv
<1>0. job[p] \in Containers /\ new[p] \in Nat
  BY DEF ReclaimFile, ReclaimLimit, ReclaimUsage, ReclaimSuspend, ReclaimApply,
         ReclaimUnlink, TypeOK, CallersOK, JobSteps, Steps
<1>1. CASE ReclaimSuspend(p)
  <2>1. Known(job[p])
    BY <1>1 DEF ReclaimSuspend, Holds, ReclaimHolds, Known
  <2>2. /\ FilesThrottle' /\ cpuFile'[job[p]] /\ UNCHANGED created
        /\ \A d \in Containers : cpuFile[d] => cpuFile'[d]
    BY <1>0, <1>1, <2>1, SuspendThrottles DEF ReclaimSuspend, ThrottleInv
  <2>3. Relies(p)'
    BY <1>1, <2>2 DEF ReclaimSuspend, Goto, frame, TypeOK, CallersOK, Relies
  <2> QED BY <2>2, <2>3, ThrottleKept
<1>2. CASE ~ReclaimSuspend(p)
  <2>1. Calm
    BY <1>0, <1>2, StillCalm, UpdateCalm
       DEF ReclaimFile, ReclaimLimit, ReclaimUsage, ReclaimApply, ReclaimUnlink, files
  <2>2. CASE ReclaimReturn(p)
    BY <2>1, <2>2, ReturnRelies, CalmKept DEF Calm
  <2>3. CASE ~ReclaimReturn(p)
    <3>1. Relies(p)'
      BY <1>2, <2>3, ReliesOnNothing
         DEF ReclaimFile, ReclaimLimit, ReclaimUsage, ReclaimApply, ReclaimUnlink, Goto,
             TypeOK, CallersOK
    <3> QED BY <2>1, <3>1, CalmKept
  <2> QED BY <2>2, <2>3
<1> QED BY <1>1, <1>2

LEMMA HostThrottle ==
    ASSUME Undisturbed, FloorInv, ThrottleInv, NEW p \in Callers, Step(p),
           \/ HostScan(p) \/ HostReturn(p) \/ \E c \in Containers : HostNext(p, c)
           \/ Raise(p) \/ RaiseInSuspend(p) \/ RaiseInSave(p)
    PROVE  ThrottleInv'
<1>1. Calm
  BY StillCalm DEF HostScan, HostReturn, HostNext, Raise, RaiseInSuspend, SuspendHalf,
                   RaiseInSave, files, Undisturbed
<1>2. CASE Finish(p)
  BY <1>1, <1>2, ReturnRelies, CalmKept DEF Calm, FloorInv
<1>3. CASE ~Finish(p)
  <2>1. Relies(p)'
    BY <1>3, ReliesOnNothing
       DEF HostScan, HostReturn, HostNext, Raise, RaiseInSuspend, RaiseInSave, Goto,
           FloorInv, TypeOK, CallersOK
  <2> QED BY <1>1, <2>1, CalmKept DEF FloorInv
<1> QED BY <1>2, <1>3

\* A container starts at full speed, under a name that has no state file.
LEMMA RunThrottle ==
    ASSUME Undisturbed, TypeOK, ThrottleInv, NEW p \in Callers, NEW c \in Containers,
           Step(p), Run(p, c)
    PROVE  ThrottleInv'
<1>1. /\ created[c] = 0 /\ ~cpuFile[c] /\ cpuFile' = cpuFile
      /\ \A d \in Containers \ {c} : /\ created'[d] = created[d]
                                     /\ throttled'[d] = throttled[d]
                                     /\ Running(d)' => Running(d)
  BY DEF Run, Undisturbed, ThrottleInv, FilesThrottle, Known, files, Running,
         TypeOK, BoxOK
<1>2. created'[c] > 0
  BY DEF Run, TypeOK, BoxOK
<1>3. FilesThrottle'
  BY <1>1, <1>2 DEF ThrottleInv, FilesThrottle, Known
<1>4. ASSUME NEW q \in Callers PROVE Relies(q)'
  <2>1. CASE q = p
    <3>1. pc'[p] = "idle"
      BY DEF Run, Finish, TypeOK, CallersOK
    <3> QED BY <2>1, <3>1, ReliesOnNothing
  <2>2. CASE q # p
    <3>1. pc'[q] = pc[q] /\ job'[q] = job[q]
      BY <2>2, OthersStill
    <3>2. pc[q] \in {"monitor_suspend", "reclaim_apply"} => job[q] \in Containers
      BY DEF TypeOK, CallersOK, JobSteps, Steps
    <3>3. Known(job[q]) /\ job[q] \in Containers => Known(job[q])'
      BY <1>1, <1>2, <3>1 DEF Known
    <3> QED BY <1>1, <3>1, <3>2, <3>3 DEF ThrottleInv, Relies, Known
  <2> QED BY <2>1, <2>2
<1> QED BY <1>3, <1>4 DEF ThrottleInv

LEMMA OutsideThrottle ==
    ASSUME Undisturbed, TypeOK, ThrottleInv, NEW c \in Containers, Outside(c)
    PROVE  ThrottleInv'
<1>1. Calm
  <2>1. CASE Exit(c)
    BY <2>1, GoneCalm DEF Exit, files
  <2>2. CASE Grow(c) \/ Shrink(c) \/ Remove(c)
    BY <2>2 DEF Grow, Shrink, Remove, files, Calm, Running, TypeOK, BoxOK
  <2> QED BY <2>1, <2>2 DEF Outside, SuspendCommand, ResumeCommand, Undisturbed
<1>2. UNCHANGED callers
  BY DEF Outside, Grow, Shrink, Exit, Remove, SuspendCommand, ResumeCommand
<1> QED BY <1>1, <1>2, CalmFiles DEF ThrottleInv, Relies, Known, Calm, callers, frame

\* No reclaim takes memory from a container that runs at full speed, whatever
\* fails outside suspend() (puff_manager.py:204-207, 230-232).
THEOREM ReclaimedAlwaysThrottled ==
    ASSUME Undisturbed
    PROVE  Spec => ReclaimedAreThrottled
<1>1. Init => ThrottleInv
  BY DEF Init, ThrottleInv, FilesThrottle, Relies
<1>2. FloorInv /\ ThrottleInv /\ [Next]_vars => ThrottleInv'
  <2> SUFFICES ASSUME FloorInv, ThrottleInv, [Next]_vars PROVE ThrottleInv'
    OBVIOUS
  <2> USE DEF FloorInv
  <2>1. ASSUME NEW p \in Callers, Begin(p) PROVE ThrottleInv'
    BY <2>1, BeginThrottle
  <2>2. ASSUME NEW p \in Callers, Step(p) PROVE ThrottleInv'
    BY <2>2, PuffThrottle, ReclaimThrottle, HostThrottle, RunThrottle DEF Step
  <2>3. ASSUME NEW c \in Containers, Outside(c) PROVE ThrottleInv'
    BY <2>3, OutsideThrottle
  <2>4. CASE UNCHANGED vars
    BY <2>4 DEF vars, box, files, callers, frame, ThrottleInv, FilesThrottle, Known,
                Relies, Running
  <2> QED BY <2>1, <2>2, <2>3, <2>4 DEF Next
<1>3. FloorInv /\ ThrottleInv
        => [\A p \in Callers :
               ReclaimApply(p) /\ Running(job[p]) => throttled[job[p]]]_vars
  BY DEF FloorInv, TypeOK, CallersOK, JobSteps, Steps, ReclaimApply, ThrottleInv, Relies,
         FilesThrottle
<1>4. ~NameReuse
  BY DEF Undisturbed
<1> QED BY <1>1, <1>2, <1>3, <1>4, FloorInductive, PTL DEF Spec, ReclaimedAreThrottled
=============================================================================
