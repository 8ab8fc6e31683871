-------------------------- MODULE PuffAloneProofs --------------------------
(***************************************************************************)
(* What PuffManager guarantees when the programs of the controller run one *)
(* at a time, wherever they fail or are killed, as long as the docker      *)
(* inspect of a sweep answers for every container that exists: what puff() *)
(* saves is the original limit, and an enlarged container always has its   *)
(* state file.  With a second caller neither holds, as a stale current_mb  *)
(* breaks both; nor with an inspect that fails, after which reclaim_host() *)
(* deletes the file of a live container (puff_manager.py:251-254,272-276). *)
(***************************************************************************)
EXTENDS PuffManagerProofs

Lone == \A p, q \in Callers : p = q

\* What the only caller knows at each step about the container it works on.
Knows(p) ==
    /\ pc[p] = "puff_save" /\ Running(job[p]) => cur[p] = limit[job[p]]
    /\ pc[p] \in {"puff_decide", "puff_apply"} => memFile[job[p]] # None
    /\ pc[p] \in ReclaimHolds => memFile[job[p]] = floor[p]
    /\ pc[p] = "reclaim_unlink" => limit[job[p]] <= floor[p]

FilesTrue == SavedIsOriginal /\ EnlargedHasFile

AloneInv == FilesTrue /\ \A p \in Callers : Knows(p)

\* No limit, launch limit or saved limit changes; no container starts.
Quiet ==
    /\ UNCHANGED <<limit, orig, memFile>>
    /\ \A c \in Containers : Running(c)' => Running(c)

LEMMA QuietFiles == ASSUME FilesTrue, Quiet PROVE FilesTrue'
BY DEF FilesTrue, SavedIsOriginal, EnlargedHasFile, Quiet

LEMMA BoxQuiet ==
    ASSUME UNCHANGED box, UNCHANGED memFile PROVE Quiet
BY DEF box, Quiet, Running

LEMMA SuspendQuiet ==
    ASSUME NEW c, SuspendOnce(c) \/ SuspendHalf(c)
    PROVE  Quiet
BY DEF SuspendOnce, SuspendHalf, SetThrottled, box, files, Quiet, Running

\* A caller at any other step need not know anything.
Ignorant == {"idle", "monitor_suspend", "reclaim_file", "host_scan", "host_next", "run"}

LEMMA KnowsNothing ==
    ASSUME NEW p, pc'[p] \in Ignorant
    PROVE  Knows(p)'
BY DEF Knows, Ignorant, ReclaimHolds

LEMMA ReturnKnows ==
    ASSUME TypeOK, NEW p \in Callers,
           Finish(p) \/ PuffReturn(p) \/ ReclaimReturn(p)
    PROVE  Knows(p)'
<1>1. pc'[p] \in Ignorant
  BY DEF Finish, PuffReturn, ReclaimReturn, Goto, TypeOK, CallersOK, Ignorant
<1> QED BY <1>1, KnowsNothing

\* docker update --memory of a container that has a state file.
LEMMA UpdateFiles ==
    ASSUME TypeOK, BoxFloor, FilesTrue, NEW c \in Containers, NEW mb \in Nat,
           memFile[c] # None, DockerUpdateMemory(c, mb), UNCHANGED memFile
    PROVE  FilesTrue' /\ (limit'[c] = mb \/ limit'[c] = 0)
<1>1. CASE Running(c) /\ mb < usage[c]
  BY <1>1 DEF DockerUpdateMemory, CgroupGone, TypeOK, BoxOK, FilesTrue, SavedIsOriginal,
              EnlargedHasFile, Running
<1>2. CASE Running(c) /\ ~(mb < usage[c])
  BY <1>2 DEF DockerUpdateMemory, TypeOK, BoxOK, FilesTrue, SavedIsOriginal,
              EnlargedHasFile, Running
<1>3. CASE ~Running(c)
  BY <1>3, BoxQuiet, QuietFiles DEF DockerUpdateMemory, box, BoxFloor
<1> QED BY <1>1, <1>2, <1>3

\* What a step must show.
LEMMA AloneKept ==
    ASSUME Lone, NEW p \in Callers, FilesTrue', Knows(p)'
    PROVE  AloneInv'
BY DEF Lone, AloneInv

LEMMA BeginAlone ==
    ASSUME Lone, FloorInv, AloneInv, NEW p \in Callers, Begin(p)
    PROVE  AloneInv'
<1> USE DEF FloorInv, AloneInv
<1>1. UNCHANGED box /\ UNCHANGED files
  BY DEF Begin, PuffBegin, MonitorUncapped, ReclaimBegin, HostBegin, DaemonBegin,
         AdmissionBegin
<1>2. FilesTrue'
  BY <1>1, BoxQuiet, QuietFiles DEF files
<1>3. ASSUME \E c \in Containers, prog \in {"puff", "monitor"} : PuffBegin(p, c, prog)
      PROVE  Knows(p)'
  <2>1. PICK c \in Containers, prog \in {"puff", "monitor"} : PuffBegin(p, c, prog)
    BY <1>3
  <2>2. /\ pc'[p] = "puff_save" /\ job'[p] = c /\ cur'[p] = limit[c]
        /\ limit' = limit
    BY <2>1 DEF PuffBegin, Enter, TypeOK, CallersOK, box
  <2> QED BY <2>2 DEF Knows, ReclaimHolds
<1>4. ASSUME \A c \in Containers, prog \in {"puff", "monitor"} : ~PuffBegin(p, c, prog)
      PROVE  Knows(p)'
  <2>1. pc'[p] \in Ignorant
    BY <1>4 DEF Begin, MonitorUncapped, ReclaimBegin, HostBegin, DaemonBegin,
                AdmissionBegin, Enter, TypeOK, CallersOK, Ignorant
  <2> QED BY <2>1, KnowsNothing
<1>5. Knows(p)'
  BY <1>3, <1>4
<1> QED BY <1>2, <1>5, AloneKept

LEMMA PuffAlone ==
    ASSUME Lone, FloorInv, AloneInv, NEW p \in Callers,
           \/ PuffSave(p) \/ PuffGrant(p) \/ PuffRefuse(p) \/ PuffApply(p)
           \/ MonitorSuspend(p)
    PROVE  AloneInv'
<1> USE DEF FloorInv, AloneInv
<1>0. job[p] \in Containers /\ cur[p] \in Nat /\ new[p] \in Nat
  BY DEF PuffSave, PuffGrant, PuffRefuse, PuffApply, MonitorSuspend,
         TypeOK, CallersOK, Steps, JobSteps
<1>1. CASE PuffSave(p)
  <2> DEFINE c == job[p]
  <2>1. /\ memFile' = [memFile EXCEPT ![c] = ValueToSave(p)]
        /\ UNCHANGED <<status, limit, orig, job>>
        /\ pc'[p] = "puff_decide"
    BY <1>1 DEF PuffSave, Goto, box, frame, TypeOK, CallersOK
  <2>2. /\ limit[c] \in Nat /\ orig[c] \in Nat /\ limit[c] >= orig[c]
        /\ memFile \in [Containers -> Nat \cup {None, Torn}]
    BY <1>0 DEF TypeOK, BoxOK, FilesOK, BoxFloor
  <2>3. ValueToSave(p) # None
    BY <1>0, ConstantsAssumption DEF ValueToSave
  <2>4. Running(c) /\ ValueToSave(p) # Torn => ValueToSave(p) = orig[c]
    <3>1. CASE memFile[c] # None
      BY <1>0, <3>1 DEF ValueToSave, FilesTrue, SavedIsOriginal
    <3>2. CASE memFile[c] = None /\ Running(c)
      <4>1. cur[p] = limit[c]
        BY <1>1, <3>2 DEF PuffSave, Knows
      <4>2. ~(limit[c] > orig[c])
        BY <1>0, <3>2 DEF FilesTrue, EnlargedHasFile
      <4> QED BY <2>2, <3>2, <4>1, <4>2 DEF ValueToSave
    <3> QED BY <3>1, <3>2
  <2>5. FilesTrue'
    <3>1. SavedIsOriginal'
      BY <1>0, <2>1, <2>2, <2>4 DEF FilesTrue, SavedIsOriginal, Running
    <3>2. EnlargedHasFile'
      BY <1>0, <2>1, <2>2, <2>3 DEF FilesTrue, EnlargedHasFile
    <3> QED BY <3>1, <3>2 DEF FilesTrue
  <2>6. memFile'[job'[p]] # None
    BY <1>0, <2>1, <2>2, <2>3
  <2>7. Knows(p)'
    BY <2>1, <2>6 DEF Knows, ReclaimHolds
  <2> QED BY <2>5, <2>7, AloneKept
<1>2. CASE PuffGrant(p)
  <2>1. FilesTrue'
    BY <1>2, BoxQuiet, QuietFiles DEF PuffGrant, files
  <2>2. memFile[job[p]] # None
    BY <1>2 DEF PuffGrant, Knows
  <2>3. pc'[p] = "puff_apply" /\ job' = job /\ memFile' = memFile
    BY <1>2 DEF PuffGrant, Goto, files, TypeOK, CallersOK
  <2>4. Knows(p)'
    BY <2>2, <2>3 DEF Knows, ReclaimHolds
  <2> QED BY <2>1, <2>4, AloneKept
<1>3. CASE PuffRefuse(p)
  <2>1. FilesTrue'
    BY <1>3, BoxQuiet, QuietFiles DEF PuffRefuse, files
  <2> QED BY <1>3, <2>1, ReturnKnows, AloneKept DEF PuffRefuse
<1>4. CASE PuffApply(p)
  <2>1. memFile[job[p]] # None
    BY <1>4 DEF PuffApply, Knows
  <2>2. FilesTrue'
    BY <1>0, <1>4, <2>1, UpdateFiles DEF PuffApply, files
  <2> QED BY <1>4, <2>2, ReturnKnows, AloneKept DEF PuffApply
<1>5. CASE MonitorSuspend(p)
  <2>1. FilesTrue'
    BY <1>5, SuspendQuiet, QuietFiles DEF MonitorSuspend
  <2> QED BY <1>5, <2>1, ReturnKnows, AloneKept DEF MonitorSuspend
<1> QED BY <1>1, <1>2, <1>3, <1>4, <1>5

LEMMA ReclaimAlone ==
    ASSUME Lone, FloorInv, AloneInv, NEW p \in Callers,
           \/ ReclaimFile(p) \/ ReclaimLimit(p) \/ ReclaimUsage(p)
           \/ ReclaimSuspend(p) \/ ReclaimApply(p) \/ ReclaimUnlink(p)
    PROVE  AloneInv'
<1> USE DEF FloorInv, AloneInv
<1>0. /\ job[p] \in Containers
      /\ floor[p] \in Nat /\ new[p] \in Nat
      /\ floor[p] \notin {None, Torn}
  BY ConstantsAssumption
     DEF ReclaimFile, ReclaimLimit, ReclaimUsage, ReclaimSuspend, ReclaimApply,
         ReclaimUnlink, TypeOK, CallersOK, Steps, JobSteps
<1>1. CASE ReclaimReturn(p) /\ UNCHANGED <<box, files>>
  <2>1. FilesTrue'
    BY <1>1, BoxQuiet, QuietFiles DEF files
  <2> QED BY <1>1, <2>1, ReturnKnows, AloneKept
<1>2. CASE ReclaimFile(p) /\ ~ReclaimReturn(p)
  <2>1. FilesTrue'
    BY <1>2, BoxQuiet, QuietFiles DEF ReclaimFile, files
  <2>2. /\ pc'[p] = "reclaim_limit" /\ job' = job /\ floor'[p] = memFile[job[p]]
        /\ memFile' = memFile
    BY <1>2 DEF ReclaimFile, Goto, files, TypeOK, CallersOK
  <2>3. Knows(p)'
    BY <2>2 DEF Knows
  <2> QED BY <2>1, <2>3, AloneKept
<1>3. CASE \/ ReclaimLimit(p) /\ ~ReclaimReturn(p)
           \/ ReclaimUsage(p) /\ ~ReclaimReturn(p)
           \/ ReclaimSuspend(p)
  <2>1. Quiet
    BY <1>3, BoxQuiet, SuspendQuiet
       DEF ReclaimLimit, ReclaimUsage, ReclaimSuspend, files
  <2>2. /\ pc'[p] \in {"reclaim_usage", "reclaim_suspend", "reclaim_apply"}
        /\ job' = job /\ floor' = floor
    BY <1>3 DEF ReclaimLimit, ReclaimUsage, ReclaimSuspend, Goto, frame, TypeOK, CallersOK
  <2>3. memFile[job[p]] = floor[p]
    BY <1>3 DEF ReclaimLimit, ReclaimUsage, ReclaimSuspend, Knows, ReclaimHolds
  <2>4. Knows(p)'
    BY <2>1, <2>2, <2>3 DEF Quiet, Knows
  <2> QED BY <2>1, <2>4, QuietFiles, AloneKept
<1>4. CASE ReclaimApply(p)
  <2>1. memFile[job[p]] = floor[p]
    BY <1>4 DEF ReclaimApply, Knows, ReclaimHolds
  <2>2. FilesTrue' /\ (limit'[job[p]] = new[p] \/ limit'[job[p]] = 0)
    BY <1>0, <1>4, <2>1, UpdateFiles DEF ReclaimApply, files
  <2>3. CASE Restored(p)
    <3>1. /\ pc'[p] = "reclaim_unlink" /\ job' = job /\ floor' = floor
          /\ memFile' = memFile
      BY <1>4, <2>3 DEF ReclaimApply, Goto, frame, files, TypeOK, CallersOK
    <3>2. limit'[job[p]] <= floor[p]
      BY <1>0, <2>2, <2>3 DEF Restored
    <3>3. Knows(p)'
      BY <2>1, <3>1, <3>2 DEF Knows
    <3> QED BY <2>2, <3>3, AloneKept
  <2>4. CASE ~Restored(p)
    BY <1>4, <2>2, <2>4, ReturnKnows, AloneKept DEF ReclaimApply
  <2> QED BY <2>3, <2>4
<1>5. CASE ReclaimUnlink(p)
  <2> DEFINE c == job[p]
  <2>1. limit[c] <= floor[p] /\ memFile[c] = floor[p]
    BY <1>5 DEF ReclaimUnlink, Knows, ReclaimHolds
  <2>2. limit[c] \in Nat /\ orig[c] \in Nat
    BY <1>0 DEF TypeOK, BoxOK
  <2>3. ~(limit[c] > orig[c])
    <3>1. CASE Running(c)
      <4>1. memFile[c] = orig[c]
        BY <1>0, <2>1, <3>1 DEF FilesTrue, SavedIsOriginal
      <4> QED BY <1>0, <2>1, <2>2, <4>1
    <3>2. CASE ~Running(c)
      BY <1>0, <2>2, <3>2 DEF BoxFloor
    <3> QED BY <3>1, <3>2
  <2>4. /\ memFile' = [memFile EXCEPT ![c] = None]
        /\ UNCHANGED <<status, limit, orig>>
    BY <1>5 DEF ReclaimUnlink, box
  <2>5. FilesTrue'
    BY <1>0, <2>3, <2>4 DEF FilesTrue, SavedIsOriginal, EnlargedHasFile, Running,
                            TypeOK, FilesOK
  <2> QED BY <1>5, <2>5, ReturnKnows, AloneKept DEF ReclaimUnlink
<1> QED
  BY <1>1, <1>2, <1>3, <1>4, <1>5 DEF ReclaimFile, ReclaimLimit, ReclaimUsage

LEMMA HostAlone ==
    ASSUME ~NameReuse, Lone, Unread = {}, FloorInv, AloneInv, NEW p \in Callers,
           \/ HostScan(p) \/ HostReturn(p)
           \/ \E c \in Containers : HostNext(p, c) \/ Run(p, c)
           \/ Raise(p) \/ RaiseInSuspend(p) \/ RaiseInSave(p)
    PROVE  AloneInv'
<1> USE DEF FloorInv, AloneInv
<1>1. CASE HostScan(p)
  <2>0. memFile' = [c \in Containers |-> IF status[c] = "absent" THEN None ELSE memFile[c]]
    BY <1>1 DEF HostScan, CreatedUnknown
  <2>1. FilesTrue'
    BY <1>1, <2>0 DEF HostScan, box, FilesTrue, SavedIsOriginal, EnlargedHasFile, Running,
                      BoxFloor, TypeOK, BoxOK
  <2>2. pc'[p] \in Ignorant
    BY <1>1 DEF HostScan, Goto, Ignorant, TypeOK, CallersOK
  <2> QED BY <2>1, <2>2, KnowsNothing, AloneKept
<1>2. ASSUME NEW c \in Containers, HostNext(p, c)
      PROVE  AloneInv'
  <2>1. FilesTrue'
    BY <1>2, BoxQuiet, QuietFiles DEF HostNext, files
  <2>2. pc'[p] \in Ignorant
    BY <1>2 DEF HostNext, Goto, Ignorant, TypeOK, CallersOK
  <2> QED BY <2>1, <2>2, KnowsNothing, AloneKept
<1>3. CASE HostReturn(p)
  <2>1. FilesTrue'
    BY <1>3, BoxQuiet, QuietFiles DEF HostReturn, files
  <2>2. pc'[p] \in Ignorant
    BY <1>3 DEF HostReturn, Goto, Finish, Ignorant, TypeOK, CallersOK
  <2> QED BY <2>1, <2>2, KnowsNothing, AloneKept
<1>4. ASSUME NEW c \in Containers, Run(p, c)
      PROVE  AloneInv'
  <2>1. memFile[c] = None
    BY <1>4 DEF Run, FileFloor
  <2>2. /\ limit' = [limit EXCEPT ![c] = target[p]]
        /\ orig' = [orig EXCEPT ![c] = target[p]]
        /\ status' = [status EXCEPT ![c] = "running"]
        /\ memFile' = memFile
        /\ target[p] \in Nat
    BY <1>4 DEF Run, files, TypeOK, CallersOK
  <2>3. FilesTrue'
    BY <2>1, <2>2 DEF FilesTrue, SavedIsOriginal, EnlargedHasFile, Running, TypeOK, BoxOK
  <2> QED BY <1>4, <2>3, ReturnKnows, AloneKept DEF Run
<1>5. CASE Raise(p) \/ RaiseInSuspend(p)
  <2>1. Quiet /\ Finish(p)
    BY <1>5, BoxQuiet, SuspendQuiet DEF Raise, RaiseInSuspend, files
  <2> QED BY <2>1, QuietFiles, ReturnKnows, AloneKept
<1>6. CASE RaiseInSave(p)
  <2>1. FilesTrue'
    BY <1>6, ConstantsAssumption
       DEF RaiseInSave, box, FilesTrue, SavedIsOriginal, EnlargedHasFile, Running,
           TypeOK, FilesOK
  <2> QED BY <1>6, <2>1, ReturnKnows, AloneKept DEF RaiseInSave
<1> QED BY <1>1, <1>2, <1>3, <1>4, <1>5, <1>6

LEMMA OutsideAlone ==
    ASSUME FloorInv, AloneInv, NEW c \in Containers, Outside(c)
    PROVE  AloneInv'
<1> USE DEF FloorInv, AloneInv
<1>1. /\ UNCHANGED memFile /\ UNCHANGED callers
      /\ \A d \in Containers :
            /\ Running(d)' => Running(d)
            /\ \/ limit'[d] = limit[d] /\ orig'[d] = orig[d]
               \/ limit'[d] = 0 /\ orig'[d] = 0 /\ ~Running(d)'
  <2>1. CASE Exit(c)
    BY <2>1 DEF Exit, CgroupGone, files, Running, TypeOK, BoxOK
  <2>2. CASE Remove(c)
    BY <2>2 DEF Remove, files, Running, TypeOK, BoxOK
  <2>3. CASE Grow(c) \/ Shrink(c) \/ SuspendCommand(c) \/ ResumeCommand(c)
    BY <2>3 DEF Grow, Shrink, SuspendCommand, ResumeCommand, SetThrottled, files, Running
  <2> QED BY <2>1, <2>2, <2>3 DEF Outside
<1>2. FilesTrue'
  BY <1>1 DEF FilesTrue, SavedIsOriginal, EnlargedHasFile
<1>3. ASSUME NEW p \in Callers PROVE Knows(p)'
  <2>1. CASE pc[p] \in Ignorant
    BY <1>1, <2>1, KnowsNothing DEF callers
  <2>2. CASE pc[p] \notin Ignorant
    <3>1. job[p] \in Containers /\ floor[p] \in Nat
      BY <2>2 DEF TypeOK, CallersOK, Steps, JobSteps, Ignorant
    <3> QED BY <1>1, <3>1 DEF Knows, callers, frame
  <2> QED BY <2>1, <2>2
<1> QED BY <1>2, <1>3

LEMMA AloneInductive ==
    ASSUME ~NameReuse, Lone, Unread = {}
    PROVE  Spec => []AloneInv
<1>1. Init => AloneInv
  BY ConstantsAssumption
     DEF Init, AloneInv, FilesTrue, SavedIsOriginal, EnlargedHasFile, Knows, ReclaimHolds
<1>2. FloorInv /\ AloneInv /\ [Next]_vars => AloneInv'
  <2> SUFFICES ASSUME FloorInv, AloneInv, [Next]_vars PROVE AloneInv'
    OBVIOUS
  <2>1. ASSUME NEW p \in Callers, Begin(p) PROVE AloneInv'
    BY <2>1, BeginAlone
  <2>2. ASSUME NEW p \in Callers, Step(p) PROVE AloneInv'
    BY <2>2, PuffAlone, ReclaimAlone, HostAlone DEF Step
  <2>3. ASSUME NEW c \in Containers, Outside(c) PROVE AloneInv'
    BY <2>3, OutsideAlone
  <2>4. CASE UNCHANGED vars
    BY <2>4 DEF vars, box, files, callers, frame, AloneInv, FilesTrue, SavedIsOriginal,
                EnlargedHasFile, Knows, Running
  <2> QED BY <2>1, <2>2, <2>3, <2>4 DEF Next
<1> QED BY <1>1, <1>2, FloorInductive, PTL DEF Spec

\* When one program runs at a time, names are not reused and no sweep fails to
\* inspect a container that exists, what is saved is the limit the container was
\* launched with, and a container with more memory than that can be found by
\* reclaim_host(), whatever error ends a program and wherever it is killed
\* (puff_manager.py:12-13, 159-163).
THEOREM FilesTrueWhenAlone ==
    ASSUME ~NameReuse, Lone, Unread = {}
    PROVE  Spec => [](SavedIsOriginal /\ EnlargedHasFile)
<1>1. AloneInv => SavedIsOriginal /\ EnlargedHasFile
  BY DEF AloneInv, FilesTrue
<1> QED BY <1>1, AloneInductive, PTL

\* In particular, and under the same conditions, no enlarged container is lost to
\* the sweeps (puff_manager.py:257-276).
THEOREM EnlargedHasFileWhenAlone ==
    ASSUME ~NameReuse, Lone, Unread = {}
    PROVE  Spec => []EnlargedHasFile
BY FilesTrueWhenAlone, PTL
=============================================================================
