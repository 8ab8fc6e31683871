------------------------ MODULE OcmExperimentProofs -------------------------
(***************************************************************************)
(* Theorems of OcmExperiment, for every size of the container and of its   *)
(* swap, every number of polls and every deadline.                         *)
(***************************************************************************)
EXTENDS OcmExperiment, TLAPS

\* The parts of the type invariant, after a step.
LEMMA MachineKept ==
    ASSUME CgroupTypeOK, UNCHANGED kernel
    PROVE  CgroupTypeOK'
BY DEF CgroupTypeOK, kernel, machine

LEMMA MonitorKept ==
    ASSUME MonitorTypeOK, UNCHANGED monitor
    PROVE  MonitorTypeOK'
BY DEF MonitorTypeOK, monitor, snapshot

LEMMA CountsKept ==
    ASSUME ObserversTypeOK, UNCHANGED counts
    PROVE  ObserversTypeOK'
BY DEF ObserversTypeOK, counts

LEMMA ChecksKept ==
    ASSUME ChecksTypeOK, UNCHANGED checks
    PROVE  ChecksTypeOK'
BY DEF ChecksTypeOK, checks, verdicts

ControlTypeOK ==
    /\ program \in Watchers \cup {"none", "preflight"}
    /\ pc \in Reading \cup {"idle", "baseline", "wait", "evaluate", "puff", "suspend", "ended"}

\* Whatever the container and the kernel do, the files keep their types.
LEMMA ContainerTyped ==
    ASSUME TypeOK, Container, UNCHANGED <<monitor, counts, checks>>
    PROVE  TypeOK'
<1> USE CgroupAssumption
<1>1. CgroupTypeOK'
  <2>1. CASE Allocate
    <3>1. UNCHANGED <<max, swap, moved, swapMax, hostSwap, hasPswp>>
      BY <2>1 DEF Allocate, machine
    <3>2. alive' \in BOOLEAN
      BY <2>1 DEF TypeOK, CgroupTypeOK, Allocate
    <3>3. current' \in 0 .. max
      <4>1. (current < max /\ current' = current + 1) \/ current' = current
        BY <2>1 DEF Allocate
      <4> QED BY <4>1 DEF TypeOK, CgroupTypeOK
    <3> QED BY <3>1, <3>2, <3>3 DEF TypeOK, CgroupTypeOK
  <2>2. CASE PageOut
    BY <2>2 DEF TypeOK, CgroupTypeOK, PageOut, SwapRoom, machine, control
  <2>3. CASE PageIn
    BY <2>3 DEF TypeOK, CgroupTypeOK, PageIn, machine, control
  <2>4. CASE Refault \/ Exit
    BY <2>4 DEF TypeOK, CgroupTypeOK, Refault, Exit, machine, control
  <2> QED BY <2>1, <2>2, <2>3, <2>4 DEF Container
<1>2. UNCHANGED control
  BY DEF Container, Allocate, PageOut, PageIn, Refault, Exit
<1> QED BY <1>1, <1>2, MonitorKept, CountsKept, ChecksKept DEF TypeOK, control

\* The checks leave the container alone.
LEMMA ChecksTyped ==
    ASSUME TypeOK, UNCHANGED <<monitor, counts>>,
           \/ \E named \in BOOLEAN, answer \in Answers : Precheck(named, answer)
           \/ StartPreflight \/ Preflight
    PROVE  TypeOK'
<1> USE TimeoutAssumption
<1>1. UNCHANGED kernel
  BY DEF Precheck, StartPreflight, Preflight, ReadBaseline, SwapGrew, Sleep, TimedOut,
         ContainerGone, Conclude
<1>2. ChecksTypeOK' /\ ControlTypeOK'
  <2>1. CASE \E named \in BOOLEAN, answer \in Answers : Precheck(named, answer)
    BY <2>1 DEF TypeOK, ChecksTypeOK, ControlTypeOK, Precheck, control
  <2>2. CASE StartPreflight
    BY <2>2 DEF TypeOK, ChecksTypeOK, ControlTypeOK, StartPreflight, checks, verdicts
  <2>3. CASE ReadBaseline
    BY <2>3 DEF TypeOK, CgroupTypeOK, ChecksTypeOK, ControlTypeOK, ReadBaseline, Goto, verdicts
  <2>4. CASE Sleep
    BY <2>4 DEF TypeOK, ChecksTypeOK, ControlTypeOK, Sleep, control, verdicts
  <2>5. CASE SwapGrew \/ TimedOut \/ ContainerGone
    BY <2>5 DEF TypeOK, ChecksTypeOK, ControlTypeOK, SwapGrew, TimedOut, ContainerGone, Conclude
  <2> QED BY <2>1, <2>2, <2>3, <2>4, <2>5 DEF Preflight
<1> QED BY <1>1, <1>2, MachineKept, MonitorKept, CountsKept DEF TypeOK, ControlTypeOK

\* A snapshot is read.
LEMMA ReadTyped ==
    ASSUME TypeOK, Read, UNCHANGED <<counts, checks>>
    PROVE  TypeOK'
<1>1. CgroupTypeOK'
  BY DEF TypeOK, CgroupTypeOK, Read, FirstSwap, FirstStat, ReadCurrent, ReadMax, ReadSwap,
         ReadStat, Lost, kernel, machine
<1>2. MonitorTypeOK'
  <2>1. current \in Nat /\ max \in Nat /\ swap \in Nat /\ moved \in BOOLEAN
    BY CgroupAssumption DEF TypeOK, CgroupTypeOK
  <2> QED BY <2>1 DEF TypeOK, MonitorTypeOK, Read, FirstSwap, FirstStat, ReadCurrent, ReadMax,
              ReadSwap, ReadStat, Lost, monitor, snapshot
<1>3. ControlTypeOK'
  BY DEF TypeOK, ControlTypeOK, Read, FirstSwap, FirstStat, ReadCurrent, ReadMax, ReadSwap,
         ReadStat, Lost, Goto, Reading
<1> QED BY <1>1, <1>2, <1>3, CountsKept, ChecksKept DEF TypeOK, ControlTypeOK

\* A snapshot is judged, and acted upon.
LEMMA MonitorTyped ==
    ASSUME TypeOK, Monitor, UNCHANGED <<counts, checks>>
    PROVE  TypeOK'
<1>1. CASE Evaluate
  <2>1. MonitorTypeOK' /\ ControlTypeOK'
    BY <1>1 DEF TypeOK, MonitorTypeOK, ControlTypeOK, Evaluate, NextPoll, Blank, Goto, Again, Reading
  <2> QED BY <1>1, <2>1, MachineKept, CountsKept, ChecksKept DEF Evaluate, TypeOK, ControlTypeOK
<1>2. CASE Puff
  <2>1. CgroupTypeOK'
    <3>1. UNCHANGED <<alive, current, swap, moved, hostSwap, hasPswp>>
      BY <1>2 DEF Puff
    <3>2. CASE UNCHANGED <<max, swapMax>>
      BY <3>1, <3>2 DEF TypeOK, CgroupTypeOK
    <3>3. CASE \E limit \in max + 1 .. MaxLimit : DockerUpdate(limit)
      <4>1. max' \in LaunchMax .. MaxLimit /\ max < max' /\ swapMax' = SwapHeadroom
        BY <3>3, CgroupAssumption DEF TypeOK, CgroupTypeOK, DockerUpdate
      <4>2. current \in 0 .. max'
        BY <4>1, CgroupAssumption DEF TypeOK, CgroupTypeOK
      <4> QED BY <3>1, <4>1, <4>2, CgroupAssumption DEF TypeOK, CgroupTypeOK
    <3> QED BY <1>2, <3>2, <3>3 DEF Puff
  <2>2. ControlTypeOK' /\ UNCHANGED monitor
    BY <1>2 DEF TypeOK, ControlTypeOK, Puff, Goto
  <2> QED BY <2>1, <2>2, MonitorKept, CountsKept, ChecksKept DEF TypeOK, ControlTypeOK
<1>3. CASE Suspend
  <2>1. MonitorTypeOK' /\ ControlTypeOK'
    BY <1>3 DEF TypeOK, MonitorTypeOK, ControlTypeOK, Suspend, snapshot, Goto, Again, Reading
  <2> QED BY <1>3, <2>1, MachineKept, CountsKept, ChecksKept DEF Suspend, TypeOK, ControlTypeOK
<1> QED BY <1>1, <1>2, <1>3 DEF Monitor

LEMMA ObserveTyped ==
    ASSUME TypeOK, Observe, UNCHANGED checks
    PROVE  TypeOK'
<1>1. UNCHANGED kernel
  BY DEF Observe, Judge, Sample
<1>2. MonitorTypeOK' /\ ControlTypeOK'
  <2>1. CASE Judge
    BY <2>1 DEF TypeOK, MonitorTypeOK, ControlTypeOK, Judge, NextPoll, Blank, Goto, Reading
  <2>2. CASE Sample
    BY <2>2 DEF TypeOK, MonitorTypeOK, ControlTypeOK, Sample, Blank, Goto, Reading
  <2> QED BY <2>1, <2>2 DEF Observe
<1>3. ObserversTypeOK'
  BY DEF TypeOK, ObserversTypeOK, Observe, Judge, Sample, Count, One, counts
<1> QED BY <1>1, <1>2, <1>3, MachineKept, ChecksKept DEF TypeOK, ControlTypeOK

\* The operator starts a watcher, or ends it.
LEMMA OperatorTyped ==
    ASSUME TypeOK,
           \/ \E watcher \in Watchers : Start(watcher)
           \/ Raise /\ UNCHANGED <<counts, checks>>
    PROVE  TypeOK'
<1>1. CASE \E watcher \in Watchers : Start(watcher)
  <2>1. PICK watcher \in Watchers : Start(watcher)
    BY <1>1
  <2>2. ControlTypeOK' /\ ChecksTypeOK'
    BY <2>1 DEF TypeOK, ControlTypeOK, ChecksTypeOK, Start, Reading
  <2> QED BY <2>1, <2>2, MachineKept, MonitorKept, CountsKept DEF Start, TypeOK, ControlTypeOK
<1>2. CASE Raise /\ UNCHANGED <<counts, checks>>
  <2>1. MonitorTypeOK' /\ ControlTypeOK'
    BY <1>2 DEF TypeOK, MonitorTypeOK, ControlTypeOK, Raise, snapshot, Goto
  <2> QED BY <1>2, <2>1, MachineKept, CountsKept, ChecksKept DEF Raise, TypeOK, ControlTypeOK
<1> QED BY <1>1, <1>2

LEMMA InitTyped == Init => TypeOK
<1> SUFFICES ASSUME Init PROVE TypeOK
  OBVIOUS
<1>1. CgroupTypeOK
  <2>2. max \in LaunchMax .. MaxLimit /\ current \in 0 .. max
    BY CgroupAssumption DEF Init, CgroupInit
  <2>3. swap \in Nat /\ ~(swap > 0)
    BY DEF Init, CgroupInit
  <2>4. alive \in BOOLEAN /\ moved \in BOOLEAN /\ hostSwap \in BOOLEAN /\ hasPswp \in BOOLEAN
    BY DEF Init, CgroupInit
  <2>5. swapMax \in SwapMaxes
    BY DEF Init, CgroupInit
  <2> QED BY <2>2, <2>3, <2>4, <2>5 DEF CgroupTypeOK
<1>2. MonitorTypeOK
  BY DEF Init, MonitorInit, MonitorTypeOK, Blank
<1>3. ObserversTypeOK /\ ChecksTypeOK
  BY TimeoutAssumption DEF Init, ObserversInit, ObserversTypeOK, ChecksInit, ChecksTypeOK
<1> QED BY <1>1, <1>2, <1>3 DEF Init, CgroupInit, TypeOK

LEMMA NextTyped == TypeOK /\ [Next]_vars => TypeOK'
<1> SUFFICES ASSUME TypeOK, [Next]_vars PROVE TypeOK'
  OBVIOUS
<1>1. CASE Operator
  BY <1>1, ChecksTyped, OperatorTyped DEF Operator
<1>2. CASE Program
  BY <1>2, ChecksTyped, ReadTyped, MonitorTyped, ObserveTyped DEF Program
<1>3. CASE Container /\ UNCHANGED <<monitor, counts, checks>>
  BY <1>3, ContainerTyped
<1>4. CASE UNCHANGED vars
  BY <1>4, MachineKept, MonitorKept, CountsKept, ChecksKept DEF vars, TypeOK, control
<1> QED BY <1>1, <1>2, <1>3, <1>4 DEF Next

\* Every variable of the experiment keeps its type; memory.current stays below
\* its limit, and there is swap only where the host and the limit allow some.
THEOREM OcmTypeCorrect == Spec => []TypeOK
<1>1. Init => TypeOK
  BY InitTyped
<1>2. TypeOK /\ [Next]_vars => TypeOK'
  BY NextTyped
<1> QED BY <1>1, <1>2, PTL DEF Spec

-----------------------------------------------------------------------------
\* Only a preflight that saw the swap grow passes, and only where there is room
\* for swap does it grow.
LEMMA NextProvesSwap ==
    ASSUME TypeOK, PreflightProvesSwap, [Next]_vars
    PROVE  PreflightProvesSwap'
<1>1. UNCHANGED hostSwap /\ (UNCHANGED swapMax \/ swapMax' = SwapHeadroom)
  BY DEF Next, Operator, Program, Precheck, StartPreflight, Start, Raise, Preflight,
         ReadBaseline, SwapGrew, Sleep, TimedOut, ContainerGone, Conclude, Read, FirstSwap,
         FirstStat, ReadCurrent, ReadMax, ReadSwap, ReadStat, Lost, Monitor, Evaluate, Puff,
         DockerUpdate, Suspend, Observe, Judge, Sample, Container, Allocate, PageOut, PageIn,
         Refault, Exit, kernel, machine, vars
<1>2. CASE SwapGrew
  <2>1. swap > 0 /\ UNCHANGED machine
    BY <1>2 DEF TypeOK, CgroupTypeOK, ChecksTypeOK, SwapGrew, Conclude, kernel
  <2>2. swapMax # Unlimited => swapMax > 0
    BY <2>1, CgroupAssumption DEF TypeOK, CgroupTypeOK
  <2> QED BY <2>1, <2>2 DEF TypeOK, CgroupTypeOK, PreflightProvesSwap, machine
<1>3. CASE ~SwapGrew
  <2>1. preflight' = "pass" => preflight = "pass"
    BY <1>3 DEF Next, Operator, Program, Precheck, StartPreflight, Start, Raise, Preflight,
         ReadBaseline, Sleep, TimedOut, ContainerGone, Conclude, checks, verdicts, vars
  <2> QED BY <1>1, <2>1, CgroupAssumption DEF PreflightProvesSwap
<1> QED BY <1>2, <1>3

\* A preflight that passes shows that the container can swap: the host has
\* swap, and memory.swap.max leaves some of it (swap_preflight.py:1-9).
THEOREM PreflightAlwaysProvesSwap == Spec => []PreflightProvesSwap
<1>1. Init => PreflightProvesSwap
  BY DEF Init, ChecksInit, PreflightProvesSwap
<1>2. TypeOK /\ PreflightProvesSwap /\ [Next]_vars => PreflightProvesSwap'
  BY NextProvesSwap
<1> QED BY <1>1, <1>2, OcmTypeCorrect, PTL DEF Spec

-----------------------------------------------------------------------------
\* The old logic never reports what the new one does not, so a disagreement is
\* always a poll that only the new one reports.
LEMMA CountAccounts ==
    ASSUME TypeOK, AbAccounts, Count
    PROVE  AbAccounts'
<1>1. Old => New
  BY DEF Old, New
<1>2. One(Old # New) = One(New) - One(Old) /\ One(New) <= 1
  <2>1. CASE Old /\ New
    BY <2>1 DEF One, Old, New
  <2>2. CASE ~Old /\ New
    <3>1. Old # New
      BY <2>2
    <3> QED BY <2>2, <3>1 DEF One
  <2>3. CASE ~Old /\ ~New
    <3>1. Old = New
      BY <2>3 DEF Old, New
    <3> QED BY <2>3, <3>1 DEF One
  <2> QED BY <1>1, <2>1, <2>2, <2>3
<1>3. One(Old) \in Nat /\ One(New) \in Nat
  BY DEF One
<1> QED BY <1>2, <1>3 DEF TypeOK, ObserversTypeOK, AbAccounts, Count

LEMMA NextAccounts ==
    ASSUME TypeOK, AbAccounts, [Next]_vars
    PROVE  AbAccounts'
<1>1. CASE Judge /\ Count
  BY <1>1, CountAccounts
<1>2. CASE UNCHANGED counts
  BY <1>2 DEF AbAccounts, counts
<1>3. UNCHANGED counts \/ (Judge /\ Count)
  BY DEF Next, Operator, Program, Start, Observe, Judge, Sample, vars
<1> QED BY <1>1, <1>2, <1>3

\* For any number of polls, the disagreements that the A/B script reports are
\* the polls that only the new logic reports (05-ab-test-script.py:85-88).
THEOREM AbAlwaysAccounts == Spec => []AbAccounts
<1>1. Init => AbAccounts
  BY DEF Init, ObserversInit, AbAccounts
<1>2. TypeOK /\ AbAccounts /\ [Next]_vars => AbAccounts'
  BY NextAccounts
<1> QED BY <1>1, <1>2, OcmTypeCorrect, PTL DEF Spec
=============================================================================
