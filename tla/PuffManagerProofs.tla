------------------------- MODULE PuffManagerProofs -------------------------
(***************************************************************************)
(* What PuffManager guarantees for every number of containers and callers. *)
(***************************************************************************)
EXTENDS PuffManager, TLAPS

(***************************************************************************)
(* Type correctness.                                                       *)
(***************************************************************************)

\* A caller that ends is typed.
LEMMA FinishType ==
    ASSUME CallersOK, NEW p \in Callers, Finish(p)
    PROVE  CallersOK'
BY ConstantsAssumption
   DEF CallersOK, Finish, PopFrame, NoOrder, Programs, Steps, JobSteps

\* So is one that returns from puff().
LEMMA PuffReturnType ==
    ASSUME CallersOK, NEW p \in Callers, PuffReturn(p), job[p] \in Containers
    PROVE  CallersOK'
<1>1. CASE call[p] = "monitor"
  BY <1>1 DEF CallersOK, PuffReturn, Goto, frame, sweep, Steps, JobSteps
<1>2. CASE call[p] # "monitor"
  BY <1>2, FinishType DEF PuffReturn
<1> QED BY <1>1, <1>2

\* And one that returns from reclaim().
LEMMA ReclaimReturnType ==
    ASSUME CallersOK, NEW p \in Callers, ReclaimReturn(p)
    PROVE  CallersOK'
<1>1. CASE call[p] \in Sweeps
  <2>1. /\ pc' = [pc EXCEPT ![p] = "host_next"]
        /\ PopFrame(p)
        /\ UNCHANGED <<call, target, order>>
    BY <1>1 DEF ReclaimReturn, Goto, sweep
  <2> QED BY <2>1 DEF CallersOK, PopFrame, Steps, JobSteps
<1>2. CASE call[p] \notin Sweeps
  BY <1>2, FinishType DEF ReclaimReturn
<1> QED BY <1>1, <1>2

\* The end of a container keeps the types.
LEMMA GoneType ==
    ASSUME BoxOK, NEW c \in Containers, CgroupGone(c)
    PROVE  BoxOK'
BY DEF BoxOK, CgroupGone

\* docker update --memory keeps the types.
LEMMA UpdateType ==
    ASSUME BoxOK, NEW c \in Containers, NEW mb \in Nat, DockerUpdateMemory(c, mb)
    PROVE  BoxOK'
<1>1. CASE Running(c) /\ mb < usage[c]
  BY <1>1, GoneType DEF DockerUpdateMemory
<1>2. CASE Running(c) /\ ~(mb < usage[c])
  BY <1>2 DEF DockerUpdateMemory, BoxOK
<1>3. CASE ~Running(c)
  BY <1>3 DEF DockerUpdateMemory, BoxOK, box
<1> QED BY <1>1, <1>2, <1>3

LEMMA StillBox == ASSUME BoxOK, UNCHANGED box PROVE BoxOK'
BY DEF BoxOK, box

LEMMA StillFiles == ASSUME FilesOK, UNCHANGED files PROVE FilesOK'
BY DEF FilesOK, files

LEMMA StillCallers == ASSUME CallersOK, UNCHANGED callers PROVE CallersOK'
BY DEF CallersOK, callers, frame, sweep

\* suspend() keeps the types.
LEMMA SuspendType ==
    ASSUME BoxOK, FilesOK, NEW c \in Containers, SuspendOnce(c) \/ SuspendHalf(c)
    PROVE  BoxOK' /\ FilesOK'
<1>1. CASE SuspendOnce(c) /\ cpuFile[c]
  BY <1>1, StillBox, StillFiles DEF SuspendOnce
<1>2. CASE SuspendOnce(c) /\ ~cpuFile[c]
  BY <1>2 DEF SuspendOnce, SetThrottled, BoxOK, FilesOK, Running
<1>3. CASE SuspendHalf(c)
  BY <1>3, StillBox DEF SuspendHalf, FilesOK
<1> QED BY <1>1, <1>2, <1>3

\* A program that begins keeps the types.
LEMMA BeginType ==
    ASSUME TypeOK, NEW p \in Callers, Begin(p)
    PROVE  TypeOK'
<1> USE DEF TypeOK
<1>1. ASSUME NEW c \in Containers, NEW prog \in {"puff", "monitor"},
             PuffBegin(p, c, prog)
      PROVE  TypeOK'
  <2>1. CallersOK'
    BY <1>1 DEF PuffBegin, Enter, CallersOK, BoxOK, Programs, Steps, JobSteps, sweep
  <2> QED BY <1>1, <2>1, StillBox, StillFiles DEF PuffBegin
<1>2. ASSUME NEW c \in Containers, MonitorUncapped(p, c)
      PROVE  TypeOK'
  <2>1. CallersOK'
    BY <1>2 DEF MonitorUncapped, Enter, CallersOK, Programs, Steps, JobSteps, sweep
  <2> QED BY <1>2, <2>1, StillBox, StillFiles DEF MonitorUncapped
<1>3. ASSUME NEW c \in Containers, NEW mb \in Amounts, ReclaimBegin(p, c, mb)
      PROVE  TypeOK'
  <2>1. CallersOK'
    BY <1>3, ConstantsAssumption
       DEF ReclaimBegin, Enter, CallersOK, Programs, Steps, JobSteps, sweep
  <2> QED BY <1>3, <2>1, StillBox, StillFiles DEF ReclaimBegin
<1>4. ASSUME NEW t \in Targets, HostBegin(p, t)
      PROVE  TypeOK'
  <2>1. CallersOK'
    BY <1>4, ConstantsAssumption
       DEF HostBegin, Enter, CallersOK, Programs, Sweeps, Steps, JobSteps
  <2> QED BY <1>4, <2>1, StillBox, StillFiles DEF HostBegin
<1>5. ASSUME DaemonBegin(p)
      PROVE  TypeOK'
  <2>1. CallersOK'
    BY <1>5 DEF DaemonBegin, Enter, CallersOK, Programs, Sweeps, Steps, JobSteps,
                RECLAIM_TARGET_FREE_MB
  <2> QED BY <1>5, <2>1, StillBox, StillFiles DEF DaemonBegin
<1>6. ASSUME NEW r \in Requests, AdmissionBegin(p, r)
      PROVE  TypeOK'
  <2>1. PICK at \in {"run", "host_scan"} : Enter(p, "admission", at, None)
    BY <1>6 DEF AdmissionBegin
  <2>2. CallersOK'
    BY <1>6, <2>1, ConstantsAssumption
       DEF AdmissionBegin, Enter, CallersOK, Programs, Sweeps, Steps, JobSteps
  <2> QED BY <1>6, <2>2, StillBox, StillFiles DEF AdmissionBegin
<1> QED BY <1>1, <1>2, <1>3, <1>4, <1>5, <1>6 DEF Begin

\* What puff() decides on is more than the limit it read, whatever get_host_free_mb()
\* returned.
LEMMA GrantRaises ==
    ASSUME TypeOK, NEW p \in Callers, PuffGrant(p)
    PROVE  \E mb \in Nat : mb >= cur[p] /\ new' = [new EXCEPT ![p] = mb]
<1>1. cur[p] \in Nat
  BY DEF TypeOK, CallersOK
<1>2. HostBudget \in Nat /\ PuffStep(cur[p]) \in Nat
  BY <1>1, ConstantsAssumption DEF HostBudget, PuffStep
<1>3. PICK free \in MIN_PUFF_STEP_MB .. HostBudget :
            new' = [new EXCEPT ![p] = cur[p] + Grant(p, free)]
  BY DEF PuffGrant
<1>4. Grant(p, free) \in Nat
  BY <1>2, <1>3 DEF Grant, Smaller, MIN_PUFF_STEP_MB
<1>5. cur[p] + Grant(p, free) \in Nat /\ cur[p] + Grant(p, free) >= cur[p]
  BY <1>1, <1>4
<1> QED BY <1>3, <1>5

\* A step of puff() keeps the types.
LEMMA PuffType ==
    ASSUME TypeOK, NEW p \in Callers,
           \/ PuffSave(p) \/ PuffGrant(p) \/ PuffRefuse(p) \/ PuffApply(p)
           \/ MonitorSuspend(p)
    PROVE  TypeOK'
<1> USE DEF TypeOK
<1>1. CASE PuffSave(p)
  <2>1. job[p] \in Containers /\ cur[p] \in Nat
    BY <1>1 DEF PuffSave, CallersOK, Steps, JobSteps
  <2>2. FilesOK'
    BY <1>1, <2>1 DEF PuffSave, ValueToSave, FilesOK
  <2>3. CallersOK'
    BY <1>1, <2>1 DEF PuffSave, Goto, CallersOK, frame, sweep, Steps, JobSteps
  <2> QED BY <1>1, <2>2, <2>3, StillBox DEF PuffSave
<1>2. CASE PuffGrant(p)
  <2>1. job[p] \in Containers /\ cur[p] \in Nat
    BY <1>2 DEF PuffGrant, CallersOK, Steps, JobSteps
  <2>2. PICK mb \in Nat : new' = [new EXCEPT ![p] = mb]
    BY <1>2, GrantRaises
  <2>3. CallersOK'
    BY <1>2, <2>1, <2>2 DEF PuffGrant, Goto, CallersOK, sweep, Steps, JobSteps
  <2> QED BY <1>2, <2>3, StillBox, StillFiles DEF PuffGrant
<1>3. CASE PuffRefuse(p)
  <2>1. job[p] \in Containers
    BY <1>3 DEF PuffRefuse, CallersOK, Steps, JobSteps
  <2> QED BY <1>3, <2>1, PuffReturnType, StillBox, StillFiles DEF PuffRefuse
<1>4. CASE PuffApply(p)
  <2>1. job[p] \in Containers /\ new[p] \in Nat
    BY <1>4 DEF PuffApply, CallersOK, Steps, JobSteps
  <2> QED BY <1>4, <2>1, UpdateType, PuffReturnType, StillFiles DEF PuffApply
<1>5. CASE MonitorSuspend(p)
  <2>1. job[p] \in Containers
    BY <1>5 DEF MonitorSuspend, CallersOK, Steps, JobSteps
  <2> QED BY <1>5, <2>1, SuspendType, FinishType DEF MonitorSuspend
<1> QED BY <1>1, <1>2, <1>3, <1>4, <1>5

\* A step of reclaim() keeps the types.
LEMMA ReclaimType ==
    ASSUME TypeOK, NEW p \in Callers,
           \/ ReclaimFile(p) \/ ReclaimLimit(p) \/ ReclaimUsage(p)
           \/ ReclaimSuspend(p) \/ ReclaimApply(p) \/ ReclaimUnlink(p)
    PROVE  TypeOK'
<1> USE DEF TypeOK
<1>0. job[p] \in Containers
  BY DEF ReclaimFile, ReclaimLimit, ReclaimUsage, ReclaimSuspend, ReclaimApply,
         ReclaimUnlink, CallersOK, Steps, JobSteps
<1>1. CASE ReclaimFile(p)
  <2>1. CASE memFile[job[p]] # None
    <3>1. memFile[job[p]] \in Nat
      BY <1>0, <1>1, <2>1 DEF ReclaimFile, FilesOK
    <3>2. CallersOK'
      BY <1>0, <1>1, <2>1, <3>1
         DEF ReclaimFile, Goto, CallersOK, sweep, Steps, JobSteps
    <3> QED BY <1>1, <3>2, StillBox, StillFiles DEF ReclaimFile
  <2>2. CASE memFile[job[p]] = None
    BY <1>1, <2>2, ReclaimReturnType, StillBox, StillFiles DEF ReclaimFile
  <2> QED BY <2>1, <2>2
<1>2. CASE ReclaimLimit(p)
  <2>1. CASE ~(limit[job[p]] <= floor[p])
    <3>1. limit[job[p]] \in Nat
      BY <1>0 DEF BoxOK
    <3>2. CallersOK'
      BY <1>0, <1>2, <2>1, <3>1
         DEF ReclaimLimit, Goto, CallersOK, sweep, Steps, JobSteps
    <3> QED BY <1>2, <3>2, StillBox, StillFiles DEF ReclaimLimit
  <2>2. CASE limit[job[p]] <= floor[p]
    BY <1>2, <2>2, ReclaimReturnType, StillBox, StillFiles DEF ReclaimLimit
  <2> QED BY <2>1, <2>2
<1>3. CASE ReclaimUsage(p)
  <2>1. ReclaimTo(p) \in Nat
    BY <1>0 DEF ReclaimTo, SafetyFloor, Larger, RECLAIM_SAFETY_MARGIN_MB, BoxOK, CallersOK
  <2>2. CASE ~(ReclaimTo(p) >= cur[p])
    BY <1>0, <1>3, <2>1, <2>2, StillBox, StillFiles
       DEF ReclaimUsage, Goto, CallersOK, sweep, Steps, JobSteps
  <2>3. CASE ReclaimTo(p) >= cur[p]
    BY <1>3, <2>3, ReclaimReturnType, StillBox, StillFiles DEF ReclaimUsage
  <2> QED BY <2>2, <2>3
<1>4. CASE ReclaimSuspend(p)
  <2>1. CallersOK'
    BY <1>0, <1>4 DEF ReclaimSuspend, Goto, CallersOK, frame, sweep, Steps, JobSteps
  <2> QED BY <1>0, <1>4, <2>1, SuspendType DEF ReclaimSuspend
<1>5. CASE ReclaimApply(p)
  <2>1. new[p] \in Nat
    BY DEF CallersOK
  <2>2. BoxOK' /\ FilesOK'
    BY <1>0, <1>5, <2>1, UpdateType, StillFiles DEF ReclaimApply
  <2>3. CASE Restored(p)
    BY <1>0, <1>5, <2>2, <2>3
       DEF ReclaimApply, Goto, CallersOK, frame, sweep, Steps, JobSteps
  <2>4. CASE ~Restored(p)
    BY <1>5, <2>2, <2>4, ReclaimReturnType DEF ReclaimApply
  <2> QED BY <2>3, <2>4
<1>6. CASE ReclaimUnlink(p)
  <2>1. FilesOK'
    BY <1>0, <1>6 DEF ReclaimUnlink, FilesOK
  <2> QED BY <1>6, <2>1, ReclaimReturnType, StillBox DEF ReclaimUnlink
<1> QED BY <1>1, <1>2, <1>3, <1>4, <1>5, <1>6

\* A step of reclaim_host() or of its callers, or an error, keeps the types.
LEMMA HostType ==
    ASSUME TypeOK, NEW p \in Callers,
           \/ HostScan(p) \/ HostReturn(p)
           \/ \E c \in Containers : HostNext(p, c) \/ Run(p, c)
           \/ Raise(p) \/ RaiseInSuspend(p) \/ RaiseInSave(p)
    PROVE  TypeOK'
<1> USE DEF TypeOK
<1>1. CASE HostScan(p)
  <2>1. FilesOK'
    BY <1>1 DEF HostScan, FilesOK
  <2>2. PICK found \in [Containers -> 0 .. MaxLaunch] :
                order' = [order EXCEPT ![p] = found]
    <3>1. PICK missed \in SUBSET Unread :
                order' = [order EXCEPT ![p] =
                    [d \in Containers |->
                        IF memFile[d] # None /\ d \notin CreatedUnknown(missed)
                        THEN created[d] ELSE 0]]
      BY <1>1 DEF HostScan
    <3>2. [d \in Containers |->
              IF memFile[d] # None /\ d \notin CreatedUnknown(missed)
              THEN created[d] ELSE 0] \in [Containers -> 0 .. MaxLaunch]
      BY ConstantsAssumption DEF BoxOK
    <3> QED BY <3>1, <3>2
  <2>3. CallersOK'
    BY <1>1, <2>2 DEF HostScan, Goto, CallersOK, frame, Steps, JobSteps
  <2> QED BY <1>1, <2>1, <2>3, StillBox DEF HostScan
<1>2. ASSUME NEW c \in Containers, HostNext(p, c)
      PROVE  TypeOK'
  <2>1. [order[p] EXCEPT ![c] = 0] \in [Containers -> 0 .. MaxLaunch]
    BY ConstantsAssumption DEF CallersOK
  <2>2. CallersOK'
    BY <1>2, <2>1 DEF HostNext, Goto, CallersOK, Steps, JobSteps
  <2> QED BY <1>2, <2>2, StillBox, StillFiles DEF HostNext
<1>3. CASE HostReturn(p)
  <2>1. CASE call[p] = "admission"
    BY <1>3, <2>1, StillBox, StillFiles
       DEF HostReturn, Goto, CallersOK, frame, sweep, Steps, JobSteps
  <2>2. CASE call[p] # "admission"
    BY <1>3, <2>2, StillBox, StillFiles, FinishType DEF HostReturn
  <2> QED BY <2>1, <2>2
<1>4. ASSUME NEW c \in Containers, Run(p, c)
      PROVE  TypeOK'
  <2>1. BoxOK'
    BY <1>4, ConstantsAssumption DEF Run, BoxOK, CallersOK
  <2> QED BY <1>4, <2>1, StillFiles, FinishType DEF Run
<1>5. CASE Raise(p)
  BY <1>5, StillBox, StillFiles, FinishType DEF Raise
<1>6. CASE RaiseInSuspend(p)
  <2>1. job[p] \in Containers
    BY <1>6 DEF RaiseInSuspend, CallersOK, Steps, JobSteps
  <2> QED BY <1>6, <2>1, SuspendType, FinishType DEF RaiseInSuspend
<1>7. CASE RaiseInSave(p)
  <2>1. FilesOK'
    BY <1>7 DEF RaiseInSave, FilesOK
  <2> QED BY <1>7, <2>1, StillBox, FinishType DEF RaiseInSave
<1> QED BY <1>1, <1>2, <1>3, <1>4, <1>5, <1>6, <1>7

\* What the containers and the operator do keeps the types.
LEMMA OutsideType ==
    ASSUME TypeOK, NEW c \in Containers, Outside(c)
    PROVE  TypeOK'
<1> USE DEF TypeOK
<1>1. CASE Grow(c) \/ Shrink(c)
  BY <1>1, ConstantsAssumption, StillFiles, StillCallers DEF Grow, Shrink, BoxOK
<1>2. CASE Exit(c)
  BY <1>2, GoneType, StillFiles, StillCallers DEF Exit
<1>3. CASE Remove(c)
  BY <1>3, StillFiles, StillCallers DEF Remove, BoxOK
<1>4. CASE SuspendCommand(c)
  BY <1>4, StillCallers DEF SuspendCommand, SetThrottled, BoxOK, FilesOK, Running
<1>5. CASE ResumeCommand(c)
  BY <1>5, StillCallers DEF ResumeCommand, SetThrottled, BoxOK, FilesOK, Running
<1> QED BY <1>1, <1>2, <1>3, <1>4, <1>5 DEF Outside

\* Every reachable state of every instance is typed.
THEOREM TypeCorrect == Spec => []TypeOK
<1>1. Init => TypeOK
  BY ConstantsAssumption
     DEF Init, TypeOK, BoxOK, FilesOK, CallersOK, NoOrder, Programs, Steps, JobSteps
<1>2. TypeOK /\ [Next]_vars => TypeOK'
  <2> SUFFICES ASSUME TypeOK, [Next]_vars PROVE TypeOK'
    OBVIOUS
  <2>1. ASSUME NEW p \in Callers, Begin(p) PROVE TypeOK'
    BY <2>1, BeginType
  <2>2. ASSUME NEW p \in Callers, Step(p) PROVE TypeOK'
    BY <2>2, PuffType, ReclaimType, HostType DEF Step
  <2>3. ASSUME NEW c \in Containers, Outside(c) PROVE TypeOK'
    BY <2>3, OutsideType
  <2>4. CASE UNCHANGED vars
    BY <2>4, StillBox, StillFiles, StillCallers DEF vars, TypeOK
  <2> QED BY <2>1, <2>2, <2>3, <2>4 DEF Next
<1> QED BY <1>1, <1>2, PTL DEF Spec

(***************************************************************************)
(* FloorRespected, for any number of callers, when names are not reused.   *)
(* It is not inductive: what protects the floor is that every value a      *)
(* caller may still write, or may still save, is above it, however stale   *)
(* it is, and that a name never launched is in nobody's hands.             *)
(***************************************************************************)

PuffHolds    == {"puff_save", "puff_decide"}
ReclaimHolds == {"reclaim_limit", "reclaim_usage", "reclaim_suspend",
                 "reclaim_apply", "reclaim_unlink"}
WillWrite    == {"puff_apply", "reclaim_suspend", "reclaim_apply"}

BoxFloor ==
    \A c \in Containers :
        /\ limit[c] >= orig[c]
        /\ ~Running(c) => limit[c] = 0 /\ orig[c] = 0
        /\ Running(c) /\ c \notin Uncapped => created[c] > 0

FileFloor ==
    \A c \in Containers :
        memFile[c] # None => /\ created[c] > 0
                             /\ memFile[c] # Torn => memFile[c] >= orig[c]

Holds(p) ==
    /\ pc[p] \in PuffHolds \cup ReclaimHolds \cup WillWrite => created[job[p]] > 0
    /\ pc[p] \in PuffHolds => cur[p] >= orig[job[p]]
    /\ pc[p] \in ReclaimHolds => floor[p] >= orig[job[p]]
    /\ pc[p] \in WillWrite => new[p] >= orig[job[p]]

FloorInv == TypeOK /\ BoxFloor /\ FileFloor /\ \A p \in Callers : Holds(p)

\* A step that lowers no creation rank and raises no launch limit.
BoxKeeps ==
    /\ BoxFloor'
    /\ \A c \in Containers : orig'[c] <= orig[c] /\ created'[c] = created[c]

\* A step of p only: the locals of the other callers stay.
OnlyCaller(p) ==
    \A q \in Callers \ {p} :
        /\ pc'[q] = pc[q] /\ job'[q] = job[q]
        /\ cur'[q] = cur[q] /\ floor'[q] = floor[q] /\ new'[q] = new[q]

LEMMA GoneFloor ==
    ASSUME TypeOK, BoxFloor, NEW c \in Containers, CgroupGone(c)
    PROVE  BoxKeeps
BY DEF TypeOK, BoxOK, BoxFloor, CgroupGone, BoxKeeps, Running

LEMMA StillFloor ==
    ASSUME TypeOK, BoxFloor, UNCHANGED <<status, limit, orig, created>>
    PROVE  BoxKeeps
BY DEF TypeOK, BoxOK, BoxFloor, BoxKeeps, Running

\* docker update --memory with a limit not below the floor.
LEMMA UpdateFloor ==
    ASSUME TypeOK, BoxFloor, NEW c \in Containers, NEW mb \in Nat, mb >= orig[c],
           DockerUpdateMemory(c, mb)
    PROVE  BoxKeeps
<1>1. CASE Running(c) /\ mb < usage[c]
  BY <1>1, GoneFloor DEF DockerUpdateMemory
<1>2. CASE Running(c) /\ ~(mb < usage[c])
  BY <1>2 DEF DockerUpdateMemory, TypeOK, BoxOK, BoxFloor, BoxKeeps, Running
<1>3. CASE ~Running(c)
  BY <1>3, StillFloor DEF DockerUpdateMemory, box
<1> QED BY <1>1, <1>2, <1>3

LEMMA SuspendFloor ==
    ASSUME TypeOK, BoxFloor, NEW c \in Containers, SuspendOnce(c) \/ SuspendHalf(c)
    PROVE  BoxKeeps /\ UNCHANGED memFile
<1>1. UNCHANGED <<status, limit, orig, created, memFile>>
  BY DEF SuspendOnce, SuspendHalf, SetThrottled, box, files
<1> QED BY <1>1, StillFloor

LEMMA FilesFloor ==
    ASSUME TypeOK, TypeOK', FileFloor, BoxKeeps, UNCHANGED memFile
    PROVE  FileFloor'
BY ConstantsAssumption DEF TypeOK, BoxOK, FilesOK, FileFloor, BoxKeeps

\* The other callers' stale values stay above the floors.
LEMMA OthersFloor ==
    ASSUME TypeOK, TypeOK', BoxKeeps, NEW p \in Callers, OnlyCaller(p),
           NEW q \in Callers, q # p, Holds(q)
    PROVE  Holds(q)'
<1>1. CASE pc[q] \in PuffHolds \cup ReclaimHolds \cup WillWrite
  <2>1. job[q] \in Containers
    BY <1>1 DEF TypeOK, CallersOK, JobSteps, Steps, PuffHolds, ReclaimHolds, WillWrite
  <2>2. /\ orig[job[q]] \in Nat /\ orig'[job[q]] \in Nat
        /\ cur[q] \in Nat /\ floor[q] \in Nat /\ new[q] \in Nat
    BY <2>1 DEF TypeOK, BoxOK, CallersOK
  <2> QED BY <2>1, <2>2 DEF Holds, OnlyCaller, BoxKeeps
<1>2. CASE pc[q] \notin PuffHolds \cup ReclaimHolds \cup WillWrite
  BY <1>2 DEF Holds, OnlyCaller
<1> QED BY <1>1, <1>2

\* A caller at any other step holds nothing.
LEMMA HoldsNothing ==
    ASSUME NEW p, pc'[p] \notin PuffHolds \cup ReclaimHolds \cup WillWrite
    PROVE  Holds(p)'
BY DEF Holds

LEMMA FinishFloor ==
    ASSUME TypeOK, NEW p \in Callers, Finish(p)
    PROVE  OnlyCaller(p) /\ Holds(p)'
<1>1. OnlyCaller(p)
  BY DEF Finish, PopFrame, TypeOK, CallersOK, OnlyCaller
<1>2. pc'[p] = "idle"
  BY DEF Finish, TypeOK, CallersOK
<1> QED BY <1>1, <1>2, HoldsNothing DEF PuffHolds, ReclaimHolds, WillWrite

LEMMA ReturnFloor ==
    ASSUME TypeOK, NEW p \in Callers, PuffReturn(p) \/ ReclaimReturn(p)
    PROVE  OnlyCaller(p) /\ Holds(p)'
<1>1. CASE Finish(p)
  BY <1>1, FinishFloor
<1>2. CASE ~Finish(p)
  <2>1. OnlyCaller(p)
    BY <1>2 DEF PuffReturn, ReclaimReturn, Goto, PopFrame, frame, TypeOK, CallersOK,
                OnlyCaller
  <2>2. pc'[p] \in {"monitor_suspend", "host_next"}
    BY <1>2 DEF PuffReturn, ReclaimReturn, Goto, TypeOK, CallersOK
  <2> QED BY <2>1, <2>2, HoldsNothing DEF PuffHolds, ReclaimHolds, WillWrite
<1> QED BY <1>1, <1>2

\* What a step must show: the box, the files and the caller itself.
LEMMA FloorKept ==
    ASSUME FloorInv, TypeOK', BoxKeeps, FileFloor',
           NEW p \in Callers, OnlyCaller(p), Holds(p)'
    PROVE  FloorInv'
BY OthersFloor DEF FloorInv, BoxKeeps

LEMMA BeginFloor ==
    ASSUME FloorInv, TypeOK', NEW p \in Callers, Begin(p)
    PROVE  FloorInv'
<1> USE DEF FloorInv
<1>1. BoxKeeps /\ FileFloor'
  <2>1. UNCHANGED box /\ UNCHANGED files
    BY DEF Begin, PuffBegin, MonitorUncapped, ReclaimBegin, HostBegin, DaemonBegin,
           AdmissionBegin
  <2> QED BY <2>1, StillFloor, FilesFloor DEF FloorInv, box, files
<1>2. OnlyCaller(p)
  BY DEF Begin, PuffBegin, MonitorUncapped, ReclaimBegin, HostBegin, DaemonBegin,
         AdmissionBegin, Enter, FloorInv, TypeOK, CallersOK, OnlyCaller
<1>3. ASSUME \E c \in Containers, prog \in {"puff", "monitor"} : PuffBegin(p, c, prog)
      PROVE  Holds(p)'
  <2>1. PICK c \in Containers, prog \in {"puff", "monitor"} : PuffBegin(p, c, prog)
    BY <1>3
  <2>2. pc'[p] = "puff_save" /\ job'[p] = c /\ cur'[p] = limit[c]
    BY <2>1 DEF PuffBegin, Enter, TypeOK, CallersOK
  <2>3. created'[c] > 0 /\ limit[c] >= orig'[c]
    BY <2>1 DEF PuffBegin, BoxFloor, box
  <2> QED BY <2>2, <2>3 DEF Holds, PuffHolds, ReclaimHolds, WillWrite
<1>4. ASSUME \A c \in Containers, prog \in {"puff", "monitor"} : ~PuffBegin(p, c, prog)
      PROVE  Holds(p)'
  <2>1. pc'[p] \in {"monitor_suspend", "reclaim_file", "host_scan", "run"}
    BY <1>4 DEF Begin, MonitorUncapped, ReclaimBegin, HostBegin, DaemonBegin,
                AdmissionBegin, Enter, TypeOK, CallersOK
  <2> QED BY <2>1, HoldsNothing DEF PuffHolds, ReclaimHolds, WillWrite
<1>5. Holds(p)'
  BY <1>3, <1>4
<1> QED BY <1>1, <1>2, <1>5, FloorKept

LEMMA PuffFloor ==
    ASSUME FloorInv, TypeOK', NEW p \in Callers,
           \/ PuffSave(p) \/ PuffGrant(p) \/ PuffRefuse(p) \/ PuffApply(p)
           \/ MonitorSuspend(p)
    PROVE  FloorInv'
<1> USE DEF FloorInv
<1>0. /\ job[p] \in Containers
      /\ orig[job[p]] \in Nat /\ cur[p] \in Nat /\ new[p] \in Nat
  BY DEF PuffSave, PuffGrant, PuffRefuse, PuffApply, MonitorSuspend,
         TypeOK, BoxOK, CallersOK, Steps, JobSteps
<1>1. CASE PuffSave(p)
  <2>1. BoxKeeps
    BY <1>1, StillFloor DEF PuffSave, box
  <2>2. created[job[p]] > 0 /\ cur[p] >= orig[job[p]]
    BY <1>1 DEF PuffSave, Holds, PuffHolds
  <2>3. FileFloor'
    BY <1>0, <1>1, <2>2 DEF PuffSave, ValueToSave, FileFloor, TypeOK, FilesOK, box
  <2>4. OnlyCaller(p)
    BY <1>1 DEF PuffSave, Goto, frame, OnlyCaller, TypeOK, CallersOK
  <2>5. Holds(p)'
    BY <1>1, <2>2
       DEF PuffSave, Goto, frame, box, Holds, PuffHolds, ReclaimHolds, WillWrite,
           TypeOK, CallersOK
  <2> QED BY <2>1, <2>3, <2>4, <2>5, FloorKept
<1>2. CASE PuffGrant(p)
  <2>1. BoxKeeps /\ FileFloor'
    BY <1>2, StillFloor, FilesFloor DEF PuffGrant, box, files
  <2>2. created[job[p]] > 0 /\ cur[p] >= orig[job[p]]
    BY <1>2 DEF PuffGrant, Holds, PuffHolds
  <2>3. PICK mb \in Nat : mb >= cur[p] /\ new' = [new EXCEPT ![p] = mb]
    BY <1>2, GrantRaises
  <2>4. OnlyCaller(p)
    BY <1>2, <2>3 DEF PuffGrant, Goto, OnlyCaller, TypeOK, CallersOK
  <2>5. /\ pc'[p] = "puff_apply" /\ job'[p] = job[p] /\ new'[p] = mb
        /\ orig' = orig /\ created' = created /\ mb >= orig[job[p]]
    BY <1>0, <1>2, <2>2, <2>3 DEF PuffGrant, Goto, box, TypeOK, CallersOK
  <2>6. Holds(p)'
    BY <2>2, <2>5 DEF Holds, PuffHolds, ReclaimHolds, WillWrite
  <2> QED BY <2>1, <2>4, <2>6, FloorKept
<1>3. CASE PuffRefuse(p)
  <2>1. BoxKeeps /\ FileFloor'
    BY <1>3, StillFloor, FilesFloor DEF PuffRefuse, box, files
  <2> QED BY <1>3, <2>1, ReturnFloor, FloorKept DEF PuffRefuse
<1>4. CASE PuffApply(p)
  <2>1. new[p] >= orig[job[p]]
    BY <1>4 DEF PuffApply, Holds, WillWrite
  <2>2. BoxKeeps /\ FileFloor'
    BY <1>0, <1>4, <2>1, UpdateFloor, FilesFloor DEF PuffApply, files
  <2> QED BY <1>4, <2>2, ReturnFloor, FloorKept DEF PuffApply
<1>5. CASE MonitorSuspend(p)
  <2>1. BoxKeeps /\ FileFloor'
    BY <1>0, <1>5, SuspendFloor, FilesFloor DEF MonitorSuspend
  <2> QED BY <1>5, <2>1, FinishFloor, FloorKept DEF MonitorSuspend
<1> QED BY <1>1, <1>2, <1>3, <1>4, <1>5

LEMMA ReclaimFloor ==
    ASSUME FloorInv, TypeOK', NEW p \in Callers,
           \/ ReclaimFile(p) \/ ReclaimLimit(p) \/ ReclaimUsage(p)
           \/ ReclaimSuspend(p) \/ ReclaimApply(p) \/ ReclaimUnlink(p)
    PROVE  FloorInv'
<1> USE DEF FloorInv
<1>0. /\ job[p] \in Containers
      /\ orig[job[p]] \in Nat /\ usage[job[p]] \in Nat
      /\ floor[p] \in Nat /\ new[p] \in Nat /\ cur[p] \in Nat
      /\ amount[p] \in Nat \cup {None}
  BY DEF ReclaimFile, ReclaimLimit, ReclaimUsage, ReclaimSuspend, ReclaimApply,
         ReclaimUnlink, TypeOK, BoxOK, CallersOK, Steps, JobSteps
<1>1. CASE ReclaimReturn(p) /\ UNCHANGED <<box, files>>
  <2>1. BoxKeeps /\ FileFloor'
    BY <1>1, StillFloor, FilesFloor DEF box, files
  <2> QED BY <1>1, <2>1, ReturnFloor, FloorKept
<1>2. CASE ReclaimFile(p) /\ ~ReclaimReturn(p)
  <2>1. BoxKeeps /\ FileFloor'
    BY <1>2, StillFloor, FilesFloor DEF ReclaimFile, box, files
  <2>2. OnlyCaller(p)
    BY <1>2 DEF ReclaimFile, Goto, OnlyCaller, TypeOK, CallersOK
  <2>3. created[job[p]] > 0 /\ memFile[job[p]] >= orig[job[p]]
    BY <1>0, <1>2 DEF ReclaimFile, FileFloor
  <2>4. /\ pc'[p] = "reclaim_limit" /\ job'[p] = job[p]
        /\ floor'[p] = memFile[job[p]] /\ orig' = orig /\ created' = created
    BY <1>2 DEF ReclaimFile, Goto, box, TypeOK, CallersOK
  <2>5. Holds(p)'
    BY <2>3, <2>4 DEF Holds, PuffHolds, ReclaimHolds, WillWrite
  <2> QED BY <2>1, <2>2, <2>5, FloorKept
<1>3. CASE ReclaimLimit(p) /\ ~ReclaimReturn(p)
  <2>1. BoxKeeps /\ FileFloor'
    BY <1>3, StillFloor, FilesFloor DEF ReclaimLimit, box, files
  <2>2. OnlyCaller(p)
    BY <1>3 DEF ReclaimLimit, Goto, OnlyCaller, TypeOK, CallersOK
  <2>3. /\ pc[p] = "reclaim_limit" /\ pc'[p] = "reclaim_usage"
        /\ job'[p] = job[p] /\ floor'[p] = floor[p]
        /\ orig' = orig /\ created' = created
    BY <1>3 DEF ReclaimLimit, Goto, box, TypeOK, CallersOK
  <2>4. Holds(p)'
    BY <2>3 DEF Holds, PuffHolds, ReclaimHolds, WillWrite
  <2> QED BY <2>1, <2>2, <2>4, FloorKept
<1>4. CASE ReclaimUsage(p) /\ ~ReclaimReturn(p)
  <2>1. BoxKeeps /\ FileFloor'
    BY <1>4, StillFloor, FilesFloor DEF ReclaimUsage, box, files
  <2>2. OnlyCaller(p)
    BY <1>4 DEF ReclaimUsage, Goto, OnlyCaller, TypeOK, CallersOK
  <2>3. created[job[p]] > 0 /\ floor[p] >= orig[job[p]]
    BY <1>4 DEF ReclaimUsage, Holds, ReclaimHolds
  <2>4. ReclaimTo(p) >= floor[p]
    BY <1>0 DEF ReclaimTo, SafetyFloor, Larger, RECLAIM_SAFETY_MARGIN_MB
  <2>5. ReclaimTo(p) \in Nat
    BY <1>0 DEF ReclaimTo, SafetyFloor, Larger, RECLAIM_SAFETY_MARGIN_MB
  <2>6. ReclaimTo(p) >= orig[job[p]]
    BY <1>0, <2>3, <2>4, <2>5
  <2>7. /\ pc'[p] = "reclaim_suspend" /\ job'[p] = job[p]
        /\ floor'[p] = floor[p] /\ new'[p] = ReclaimTo(p)
        /\ orig' = orig /\ created' = created
    BY <1>4 DEF ReclaimUsage, Goto, box, TypeOK, CallersOK
  <2>8. Holds(p)'
    BY <2>3, <2>6, <2>7 DEF Holds, PuffHolds, ReclaimHolds, WillWrite
  <2> QED BY <2>1, <2>2, <2>8, FloorKept
<1>5. CASE ReclaimSuspend(p)
  <2>1. BoxKeeps /\ FileFloor'
    BY <1>0, <1>5, SuspendFloor, FilesFloor DEF ReclaimSuspend
  <2>2. OnlyCaller(p)
    BY <1>5 DEF ReclaimSuspend, Goto, frame, OnlyCaller, TypeOK, CallersOK
  <2>3. /\ pc[p] = "reclaim_suspend" /\ pc'[p] = "reclaim_apply"
        /\ job'[p] = job[p] /\ floor'[p] = floor[p] /\ new'[p] = new[p]
        /\ orig' = orig /\ created' = created
    BY <1>5 DEF ReclaimSuspend, SuspendOnce, SetThrottled, Goto, frame, box,
                TypeOK, CallersOK
  <2>4. Holds(p)'
    BY <2>3 DEF Holds, PuffHolds, ReclaimHolds, WillWrite
  <2> QED BY <2>1, <2>2, <2>4, FloorKept
<1>6. CASE ReclaimApply(p)
  <2>1. new[p] >= orig[job[p]]
    BY <1>6 DEF ReclaimApply, Holds, WillWrite
  <2>2. BoxKeeps /\ FileFloor'
    BY <1>0, <1>6, <2>1, UpdateFloor, FilesFloor DEF ReclaimApply, files
  <2>3. CASE ReclaimReturn(p)
    BY <2>2, <2>3, ReturnFloor, FloorKept
  <2>4. CASE ~ReclaimReturn(p)
    <3>1. OnlyCaller(p)
      BY <1>6, <2>4 DEF ReclaimApply, Goto, frame, OnlyCaller, TypeOK, CallersOK
    <3>2. /\ pc[p] = "reclaim_apply" /\ pc'[p] = "reclaim_unlink"
          /\ job'[p] = job[p] /\ floor'[p] = floor[p]
      BY <1>6, <2>4 DEF ReclaimApply, Goto, frame, TypeOK, CallersOK
    <3>3. orig'[job[p]] \in Nat /\ orig'[job[p]] <= orig[job[p]]
          /\ created'[job[p]] = created[job[p]]
      BY <1>0, <2>2 DEF BoxKeeps, TypeOK, BoxOK
    <3>4. Holds(p)'
      BY <1>0, <3>2, <3>3 DEF Holds, PuffHolds, ReclaimHolds, WillWrite
    <3> QED BY <2>2, <3>1, <3>4, FloorKept
  <2> QED BY <2>3, <2>4
<1>7. CASE ReclaimUnlink(p)
  <2>1. BoxKeeps
    BY <1>7, StillFloor DEF ReclaimUnlink, box
  <2>2. FileFloor'
    BY <1>0, <1>7 DEF ReclaimUnlink, FileFloor, TypeOK, FilesOK, box
  <2> QED BY <1>7, <2>1, <2>2, ReturnFloor, FloorKept DEF ReclaimUnlink
<1> QED BY <1>1, <1>2, <1>3, <1>4, <1>5, <1>6, <1>7
     DEF ReclaimFile, ReclaimLimit, ReclaimUsage

LEMMA HostFloor ==
    ASSUME FloorInv, TypeOK', NEW p \in Callers,
           \/ HostScan(p) \/ HostReturn(p) \/ \E c \in Containers : HostNext(p, c)
           \/ Raise(p) \/ RaiseInSuspend(p) \/ RaiseInSave(p)
    PROVE  FloorInv'
<1> USE DEF FloorInv
<1>1. CASE HostScan(p)
  <2>1. BoxKeeps
    BY <1>1, StillFloor DEF HostScan, box
  <2>2. FileFloor'
    BY <1>1 DEF HostScan, FileFloor, box
  <2>3. OnlyCaller(p)
    BY <1>1 DEF HostScan, Goto, frame, OnlyCaller, TypeOK, CallersOK
  <2>4. pc'[p] = "host_next"
    BY <1>1 DEF HostScan, Goto, TypeOK, CallersOK
  <2> QED BY <2>1, <2>2, <2>3, <2>4, HoldsNothing, FloorKept
          DEF PuffHolds, ReclaimHolds, WillWrite
<1>2. ASSUME NEW c \in Containers, HostNext(p, c)
      PROVE  FloorInv'
  <2>1. BoxKeeps /\ FileFloor'
    BY <1>2, StillFloor, FilesFloor DEF HostNext, box, files
  <2>2. OnlyCaller(p)
    BY <1>2 DEF HostNext, Goto, OnlyCaller, TypeOK, CallersOK
  <2>3. pc'[p] = "reclaim_file"
    BY <1>2 DEF HostNext, Goto, TypeOK, CallersOK
  <2> QED BY <2>1, <2>2, <2>3, HoldsNothing, FloorKept
          DEF PuffHolds, ReclaimHolds, WillWrite
<1>3. CASE HostReturn(p)
  <2>1. BoxKeeps /\ FileFloor'
    BY <1>3, StillFloor, FilesFloor DEF HostReturn, box, files
  <2>2. CASE call[p] = "admission"
    <3>1. OnlyCaller(p)
      BY <1>3, <2>2 DEF HostReturn, Goto, frame, OnlyCaller, TypeOK, CallersOK
    <3>2. pc'[p] = "run"
      BY <1>3, <2>2 DEF HostReturn, Goto, TypeOK, CallersOK
    <3> QED BY <2>1, <3>1, <3>2, HoldsNothing, FloorKept
            DEF PuffHolds, ReclaimHolds, WillWrite
  <2>3. CASE call[p] # "admission"
    BY <1>3, <2>1, <2>3, FinishFloor, FloorKept DEF HostReturn
  <2> QED BY <2>2, <2>3
<1>4. CASE Raise(p)
  <2>1. BoxKeeps /\ FileFloor'
    BY <1>4, StillFloor, FilesFloor DEF Raise, box, files
  <2> QED BY <1>4, <2>1, FinishFloor, FloorKept DEF Raise
<1>5. CASE RaiseInSuspend(p)
  <2>1. job[p] \in Containers
    BY <1>5 DEF RaiseInSuspend, TypeOK, CallersOK, Steps, JobSteps
  <2>2. BoxKeeps /\ FileFloor'
    BY <1>5, <2>1, SuspendFloor, FilesFloor DEF RaiseInSuspend
  <2> QED BY <1>5, <2>2, FinishFloor, FloorKept DEF RaiseInSuspend
<1>6. CASE RaiseInSave(p)
  <2>1. job[p] \in Containers
    BY <1>6 DEF RaiseInSave, TypeOK, CallersOK, Steps, JobSteps
  <2>2. BoxKeeps
    BY <1>6, StillFloor DEF RaiseInSave, box
  <2>3. created[job[p]] > 0
    BY <1>6 DEF RaiseInSave, Holds, PuffHolds
  <2>4. FileFloor'
    BY <1>6, <2>1, <2>3 DEF RaiseInSave, FileFloor, TypeOK, FilesOK, box
  <2> QED BY <1>6, <2>2, <2>4, FinishFloor, FloorKept DEF RaiseInSave
<1> QED BY <1>1, <1>2, <1>3, <1>4, <1>5, <1>6

\* A launch is the one step that raises orig: nobody holds a value for a
\* container that never existed.
LEMMA RunFloor ==
    ASSUME ~NameReuse, FloorInv, TypeOK', NEW p \in Callers, NEW c \in Containers,
           Run(p, c)
    PROVE  FloorInv'
<1> USE DEF FloorInv
<1>1. created[c] = 0 /\ memFile[c] = None /\ memFile' = memFile
  BY DEF Run, FileFloor, files, TypeOK, BoxOK
<1>2. \A d \in Containers : d # c => orig'[d] = orig[d] /\ created'[d] = created[d]
  BY DEF Run, TypeOK, BoxOK
<1>3. BoxFloor'
  BY <1>1 DEF Run, BoxFloor, TypeOK, BoxOK, CallersOK, Running
<1>4. FileFloor'
  BY <1>1, <1>2 DEF FileFloor
<1>5. OnlyCaller(p) /\ Holds(p)'
  BY FinishFloor DEF Run
<1>6. ASSUME NEW q \in Callers, q # p
      PROVE  Holds(q)'
  <2>1. CASE pc[q] \in PuffHolds \cup ReclaimHolds \cup WillWrite
    <3>1. job[q] \in Containers
      BY <2>1 DEF TypeOK, CallersOK, JobSteps, Steps, PuffHolds, ReclaimHolds, WillWrite
    <3>2. created[job[q]] > 0
      BY <2>1 DEF Holds
    <3>3. job[q] # c
      BY <1>1, <3>2
    <3> QED BY <1>2, <1>5, <1>6, <3>1, <3>3 DEF Holds, OnlyCaller
  <2>2. CASE pc[q] \notin PuffHolds \cup ReclaimHolds \cup WillWrite
    BY <1>5, <1>6, <2>2 DEF Holds, OnlyCaller
  <2> QED BY <2>1, <2>2
<1> QED BY <1>3, <1>4, <1>5, <1>6

LEMMA OutsideFloor ==
    ASSUME FloorInv, TypeOK', NEW c \in Containers, Outside(c)
    PROVE  FloorInv'
<1> USE DEF FloorInv
<1>1. BoxKeeps
  <2>1. CASE Exit(c)
    BY <2>1, GoneFloor DEF Exit
  <2>2. CASE Remove(c)
    BY <2>2 DEF Remove, BoxKeeps, BoxFloor, TypeOK, BoxOK, Running
  <2>3. CASE Grow(c) \/ Shrink(c) \/ SuspendCommand(c) \/ ResumeCommand(c)
    BY <2>3, StillFloor DEF Grow, Shrink, SuspendCommand, ResumeCommand, SetThrottled
  <2> QED BY <2>1, <2>2, <2>3 DEF Outside
<1>2. UNCHANGED memFile /\ UNCHANGED callers
  BY DEF Outside, Grow, Shrink, Exit, Remove, SuspendCommand, ResumeCommand, files
<1>3. FileFloor'
  BY <1>1, <1>2, FilesFloor
<1>4. ASSUME NEW p \in Callers PROVE Holds(p)'
  <2>1. CASE pc[p] \in PuffHolds \cup ReclaimHolds \cup WillWrite
    <3>1. job[p] \in Containers
      BY <2>1 DEF TypeOK, CallersOK, JobSteps, Steps, PuffHolds, ReclaimHolds, WillWrite
    <3>2. /\ orig[job[p]] \in Nat /\ orig'[job[p]] \in Nat
          /\ cur[p] \in Nat /\ floor[p] \in Nat /\ new[p] \in Nat
      BY <3>1 DEF TypeOK, BoxOK, CallersOK
    <3> QED BY <1>1, <1>2, <3>1, <3>2 DEF Holds, BoxKeeps, callers, frame
  <2>2. CASE pc[p] \notin PuffHolds \cup ReclaimHolds \cup WillWrite
    BY <1>2, <2>2 DEF Holds, callers, frame
  <2> QED BY <2>1, <2>2
<1> QED BY <1>1, <1>3, <1>4 DEF BoxKeeps

\* FloorInv holds from the first state on and every step keeps it.
LEMMA FloorInductive ==
    ASSUME ~NameReuse
    PROVE  Spec => []FloorInv
<1>1. Init => FloorInv
  BY ConstantsAssumption
     DEF Init, FloorInv, TypeOK, BoxOK, FilesOK, CallersOK, NoOrder, Programs, Steps,
         JobSteps, BoxFloor, FileFloor, Holds, PuffHolds, ReclaimHolds, WillWrite, Running
<1>2. TypeOK' /\ FloorInv /\ [Next]_vars => FloorInv'
  <2> SUFFICES ASSUME TypeOK', FloorInv, [Next]_vars PROVE FloorInv'
    OBVIOUS
  <2>1. ASSUME NEW p \in Callers, Begin(p) PROVE FloorInv'
    BY <2>1, BeginFloor
  <2>2. ASSUME NEW p \in Callers, Step(p) PROVE FloorInv'
    BY <2>2, PuffFloor, ReclaimFloor, HostFloor, RunFloor DEF Step
  <2>3. ASSUME NEW c \in Containers, Outside(c) PROVE FloorInv'
    BY <2>3, OutsideFloor
  <2>4. CASE UNCHANGED vars
    BY <2>4 DEF vars, box, files, callers, frame, FloorInv, BoxFloor, FileFloor, Holds,
                Running
  <2> QED BY <2>1, <2>2, <2>3, <2>4 DEF Next
<1> QED BY <1>1, <1>2, TypeCorrect, PTL DEF Spec

\* Without name reuse, whatever the interleaving of monitors, admissions,
\* daemon and commands, no container ends up below the limit it was
\* launched with (puff_manager.py:5-6, 190).
THEOREM FloorAlwaysRespected ==
    ASSUME ~NameReuse
    PROVE  Spec => []FloorRespected
<1>1. FloorInv => FloorRespected
  BY DEF FloorInv, BoxFloor, FloorRespected
<1> QED BY <1>1, FloorInductive, PTL

(***************************************************************************)
(* The refinement of NodeMemory.                                           *)
(***************************************************************************)

\* What a step that resizes, ends or leaves alone one container maps to.
LEMMA UpdateKeeps ==
    ASSUME TypeOK, FloorRespected', NEW c \in Containers, NEW mb \in Nat,
           DockerUpdateMemory(c, mb)
    PROVE  [Memory!Next]_Memory!vars
<1>1. CASE Running(c) /\ mb < usage[c]
  <2>1. Memory!End(c)
    BY <1>1 DEF DockerUpdateMemory, CgroupGone, Memory!End, Running, TypeOK, BoxOK
  <2> QED BY <2>1 DEF Memory!Next
<1>2. CASE Running(c) /\ ~(mb < usage[c])
  <2>1. limit' = [limit EXCEPT ![c] = mb] /\ UNCHANGED <<status, orig>>
    BY <1>2 DEF DockerUpdateMemory
  <2>2. limit'[c] >= orig[c]
    BY <2>1 DEF FloorRespected
  <2>3. Memory!Resize(c)
    BY <1>2, <2>1, <2>2 DEF Memory!Resize, Running, TypeOK, BoxOK
  <2> QED BY <2>3 DEF Memory!Next
<1>3. CASE ~Running(c)
  BY <1>3 DEF DockerUpdateMemory, box, Memory!vars, Running
<1> QED BY <1>1, <1>2, <1>3

\* A step that changes no status, limit or launch limit maps to a stutter.
LEMMA StillKeeps ==
    ASSUME UNCHANGED <<status, limit, orig>>
    PROVE  [Memory!Next]_Memory!vars
BY DEF Memory!vars, Running

LEMMA LaunchKeeps ==
    ASSUME TypeOK, NEW p \in Callers, NEW c \in Containers, Run(p, c),
           target[p] \in Requests
    PROVE  [Memory!Next]_Memory!vars
<1>1. Memory!Launch(c, target[p])
  BY DEF Run, Memory!Launch, Running, TypeOK, BoxOK
<1> QED BY <1>1 DEF Memory!Next

LEMMA OutsideKeeps ==
    ASSUME TypeOK, NEW c \in Containers, Outside(c)
    PROVE  [Memory!Next]_Memory!vars
<1>1. CASE Exit(c)
  <2>1. Memory!End(c)
    BY <1>1 DEF Exit, CgroupGone, Memory!End, Running, TypeOK, BoxOK
  <2> QED BY <2>1 DEF Memory!Next
<1>2. CASE Remove(c)
  BY <1>2 DEF Remove, Memory!vars, Running, TypeOK, BoxOK
<1>3. CASE Grow(c) \/ Shrink(c) \/ SuspendCommand(c) \/ ResumeCommand(c)
  BY <1>3, StillKeeps DEF Grow, Shrink, SuspendCommand, ResumeCommand, SetThrottled
<1> QED BY <1>1, <1>2, <1>3 DEF Outside

\* What admission launches is what it was asked for.
Asked(p) ==
    /\ pc[p] = "run" => call[p] = "admission"
    /\ call[p] = "admission" => target[p] \in Requests

\* A step of a program keeps its name and request, and does not begin to run
\* a container unless it is admission; or it ends the program.
Continues(p) ==
    /\ call'[p] = call[p] /\ target'[p] = target[p]
    /\ pc'[p] = "run" => pc[p] = "run" \/ call[p] = "admission"

LEMMA FinishAsked ==
    ASSUME TypeOK, NEW p \in Callers, Finish(p)
    PROVE  call'[p] = "none" /\ pc'[p] = "idle"
BY DEF Finish, TypeOK, CallersOK

LEMMA ReturnAsked ==
    ASSUME TypeOK, NEW p \in Callers, PuffReturn(p) \/ ReclaimReturn(p)
    PROVE  Continues(p) \/ (call'[p] = "none" /\ pc'[p] = "idle")
<1>1. CASE Finish(p)
  BY <1>1, FinishAsked
<1>2. CASE ~Finish(p)
  BY <1>2 DEF PuffReturn, ReclaimReturn, Goto, frame, sweep, Continues,
              TypeOK, CallersOK
<1> QED BY <1>1, <1>2

LEMMA StepAsked ==
    ASSUME TypeOK, NEW p \in Callers, Step(p)
    PROVE  Continues(p) \/ (call'[p] = "none" /\ pc'[p] = "idle")
<1>1. CASE Finish(p)
  BY <1>1, FinishAsked
<1>2. CASE PuffReturn(p) \/ ReclaimReturn(p)
  BY <1>2, ReturnAsked
<1>3. CASE ~Finish(p) /\ ~PuffReturn(p) /\ ~ReclaimReturn(p)
  <2>1. CASE PuffSave(p) \/ PuffGrant(p) \/ PuffRefuse(p) \/ PuffApply(p)
             \/ MonitorSuspend(p)
    BY <1>3, <2>1 DEF PuffSave, PuffGrant, PuffRefuse, PuffApply, MonitorSuspend,
                      Goto, frame, sweep, Continues, TypeOK, CallersOK
  <2>2. CASE ReclaimFile(p) \/ ReclaimLimit(p) \/ ReclaimUsage(p)
             \/ ReclaimSuspend(p) \/ ReclaimApply(p) \/ ReclaimUnlink(p)
    BY <1>3, <2>2 DEF ReclaimFile, ReclaimLimit, ReclaimUsage, ReclaimSuspend,
                      ReclaimApply, ReclaimUnlink, Goto, frame, sweep, Continues,
                      TypeOK, CallersOK
  <2>3. CASE HostScan(p) \/ HostReturn(p) \/ \E c \in Containers : HostNext(p, c)
    BY <1>3, <2>3 DEF HostScan, HostReturn, HostNext, Goto, frame, sweep, Continues,
                      TypeOK, CallersOK
  <2>4. CASE \/ \E c \in Containers : Run(p, c)
             \/ Raise(p) \/ RaiseInSuspend(p) \/ RaiseInSave(p)
    BY <1>3, <2>4 DEF Run, Raise, RaiseInSuspend, RaiseInSave
  <2> QED BY <2>1, <2>2, <2>3, <2>4 DEF Step
<1> QED BY <1>1, <1>2, <1>3

LEMMA BeginAsked ==
    ASSUME TypeOK, NEW p \in Callers, Begin(p)
    PROVE  Asked(p)'
<1>1. CASE \E r \in Requests : AdmissionBegin(p, r)
  BY <1>1 DEF AdmissionBegin, Enter, Asked, TypeOK, CallersOK
<1>2. CASE ~\E r \in Requests : AdmissionBegin(p, r)
  BY <1>2 DEF Begin, PuffBegin, MonitorUncapped, ReclaimBegin, HostBegin, DaemonBegin,
              Enter, Asked, TypeOK, CallersOK
<1> QED BY <1>1, <1>2

\* A step of p changes nothing of what the other callers are doing.
LEMMA OthersStill ==
    ASSUME TypeOK, NEW p \in Callers, Begin(p) \/ Step(p), NEW q \in Callers, q # p
    PROVE  /\ pc'[q] = pc[q] /\ job'[q] = job[q]
           /\ call'[q] = call[q] /\ target'[q] = target[q]
<1>1. CASE Begin(p)
  BY <1>1 DEF Begin, PuffBegin, MonitorUncapped, ReclaimBegin, HostBegin, DaemonBegin,
              AdmissionBegin, Enter, sweep, TypeOK, CallersOK
<1>2. CASE Finish(p) \/ PuffReturn(p) \/ ReclaimReturn(p)
  BY <1>2 DEF PuffReturn, ReclaimReturn, Finish, PopFrame, Goto, frame, sweep,
              TypeOK, CallersOK
<1>3. CASE Step(p) /\ ~Finish(p) /\ ~PuffReturn(p) /\ ~ReclaimReturn(p)
  <2>1. CASE PuffSave(p) \/ PuffGrant(p) \/ PuffRefuse(p) \/ PuffApply(p)
             \/ MonitorSuspend(p)
    BY <1>3, <2>1 DEF PuffSave, PuffGrant, PuffRefuse, PuffApply, MonitorSuspend,
                      Goto, frame, sweep, TypeOK, CallersOK
  <2>2. CASE ReclaimFile(p) \/ ReclaimLimit(p) \/ ReclaimUsage(p)
             \/ ReclaimSuspend(p) \/ ReclaimApply(p) \/ ReclaimUnlink(p)
    BY <1>3, <2>2 DEF ReclaimFile, ReclaimLimit, ReclaimUsage, ReclaimSuspend,
                      ReclaimApply, ReclaimUnlink, Goto, frame, sweep, TypeOK, CallersOK
  <2>3. CASE HostScan(p) \/ HostReturn(p) \/ \E c \in Containers : HostNext(p, c)
    BY <1>3, <2>3 DEF HostScan, HostReturn, HostNext, Goto, frame, sweep, TypeOK, CallersOK
  <2>4. CASE \/ \E c \in Containers : Run(p, c)
             \/ Raise(p) \/ RaiseInSuspend(p) \/ RaiseInSave(p)
    BY <1>3, <2>4 DEF Run, Raise, RaiseInSuspend, RaiseInSave
  <2> QED BY <1>3, <2>1, <2>2, <2>3, <2>4 DEF Step
<1> QED BY <1>1, <1>2, <1>3

LEMMA AskedInductive == Spec => [](\A p \in Callers : Asked(p))
<1>1. Init => \A p \in Callers : Asked(p)
  BY DEF Init, Asked
<1>2. TypeOK /\ (\A p \in Callers : Asked(p)) /\ [Next]_vars
        => (\A p \in Callers : Asked(p))'
  <2> SUFFICES ASSUME TypeOK, \A p \in Callers : Asked(p), [Next]_vars,
                      NEW q \in Callers
               PROVE  Asked(q)'
    OBVIOUS
  <2>1. ASSUME NEW p \in Callers, Begin(p) \/ Step(p), p # q PROVE Asked(q)'
    BY <2>1, OthersStill DEF Asked
  <2>2. CASE Begin(q)
    BY <2>2, BeginAsked
  <2>3. CASE Step(q)
    BY <2>3, StepAsked DEF Asked, Continues
  <2>4. ASSUME NEW c \in Containers, Outside(c) PROVE Asked(q)'
    BY <2>4 DEF Outside, Grow, Shrink, Exit, Remove, SuspendCommand, ResumeCommand, callers,
                sweep, Asked
  <2>5. CASE UNCHANGED vars
    BY <2>5 DEF vars, callers, sweep, Asked
  <2> QED BY <2>1, <2>2, <2>3, <2>4, <2>5 DEF Next
<1> QED BY <1>1, <1>2, TypeCorrect, PTL DEF Spec

\* Every step of a program maps to a step of NodeMemory or to a stutter.
LEMMA StepKeeps ==
    ASSUME TypeOK, FloorRespected', NEW p \in Callers, Asked(p), Step(p)
    PROVE  [Memory!Next]_Memory!vars
<1>1. CASE PuffApply(p) \/ ReclaimApply(p)
  <2>1. job[p] \in Containers /\ new[p] \in Nat
    BY <1>1 DEF PuffApply, ReclaimApply, TypeOK, CallersOK, JobSteps, Steps
  <2> QED BY <1>1, <2>1, UpdateKeeps DEF PuffApply, ReclaimApply
<1>2. CASE \E c \in Containers : Run(p, c)
  BY <1>2, LaunchKeeps DEF Asked, Run
<1>3. CASE MonitorSuspend(p) \/ ReclaimSuspend(p) \/ RaiseInSuspend(p)
  BY <1>3, StillKeeps DEF MonitorSuspend, ReclaimSuspend, RaiseInSuspend, SuspendOnce,
                          SuspendHalf, SetThrottled, box
<1>4. CASE \/ PuffSave(p) \/ PuffGrant(p) \/ PuffRefuse(p)
           \/ ReclaimFile(p) \/ ReclaimLimit(p) \/ ReclaimUsage(p) \/ ReclaimUnlink(p)
           \/ HostScan(p) \/ HostReturn(p) \/ Raise(p) \/ RaiseInSave(p)
           \/ \E c \in Containers : HostNext(p, c)
  BY <1>4, StillKeeps DEF PuffSave, PuffGrant, PuffRefuse, ReclaimFile, ReclaimLimit,
                          ReclaimUsage, ReclaimUnlink, HostScan, HostReturn, HostNext,
                          Raise, RaiseInSave, box
<1> QED BY <1>1, <1>2, <1>3, <1>4 DEF Step

\* Without name reuse, whatever the number of programs, their failures and
\* their interleaving, the limits behave as NodeMemory says: launched as
\* requested, resized one at a time and never below that, until the end
\* (puff_manager.py:5-6, 190).
THEOREM ImplementsNodeMemory ==
    ASSUME ~NameReuse
    PROVE  Spec => KeepsLaunchMemory
<1>1. Init => Memory!Init
  BY DEF Init, Memory!Init
<1>2. TypeOK /\ FloorRespected' /\ (\A p \in Callers : Asked(p)) /\ [Next]_vars
        => [Memory!Next]_Memory!vars
  <2> SUFFICES ASSUME TypeOK, FloorRespected', \A p \in Callers : Asked(p), [Next]_vars
               PROVE  [Memory!Next]_Memory!vars
    OBVIOUS
  <2>1. ASSUME NEW p \in Callers, Begin(p) PROVE [Memory!Next]_Memory!vars
    BY <2>1, StillKeeps DEF Begin, PuffBegin, MonitorUncapped, ReclaimBegin, HostBegin,
                            DaemonBegin, AdmissionBegin, box
  <2>2. ASSUME NEW p \in Callers, Step(p) PROVE [Memory!Next]_Memory!vars
    BY <2>2, StepKeeps
  <2>3. ASSUME NEW c \in Containers, Outside(c) PROVE [Memory!Next]_Memory!vars
    BY <2>3, OutsideKeeps
  <2>4. CASE UNCHANGED vars
    BY <2>4, StillKeeps DEF vars, box
  <2> QED BY <2>1, <2>2, <2>3, <2>4 DEF Next
<1> QED BY <1>1, <1>2, TypeCorrect, FloorAlwaysRespected, AskedInductive, PTL
        DEF Spec, KeepsLaunchMemory, Memory!Spec
=============================================================================
