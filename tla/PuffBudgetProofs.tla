-------------------------- MODULE PuffBudgetProofs --------------------------
(***************************************************************************)
(* The memory of the host, when the programs of the controller run one at  *)
(* a time and read the limit of every container they count (Unread = {}),  *)
(* whatever error ends a program, wherever it is killed and whenever       *)
(* containers end: puffs stay within the budget, a sweep takes no more     *)
(* than is missing and, if the workloads give no memory back between its   *)
(* steps (Release = {}), takes from the youngest container first, and      *)
(* admission goes above the budget only when nothing is left to take.      *)
(* With a read that get_host_assigned_mb() passes over                     *)
(* (puff_manager.py:126-129) all but the second of these fail.             *)
(*                                                                         *)
(* All of it is about HostAssigned, a sum over the running containers: it  *)
(* starts with what a step of one container does to that sum.              *)
(***************************************************************************)
EXTENDS PuffAloneProofs, FiniteFolds

(***************************************************************************)
(* The memory assigned on the host.                                        *)
(***************************************************************************)

Assigned == {c \in Containers \ Uncapped : Running(c)}

LEMMA HostAssignedIsTotal ==
    HostAssigned = Total(limit, Assigned) /\ HostAssigned' = Total(limit', Assigned')
<1>1. Uncapped \cup {} = Uncapped
  OBVIOUS
<1> QED BY <1>1 DEF HostAssigned, AssignedBut, MapThenSumSet, MapThenFoldSet, Total,
                    AddsUp, AnyOf, Assigned

\* When nothing is passed over, get_host_free_mb() returns what is free.
LEMMA FreeIsRead ==
    ASSUME Unread = {}
    PROVE  FreeReads = {HostFree}
<1>1. SUBSET Unread = {{}}
  OBVIOUS
<1> QED BY <1>1 DEF FreeReads, HostFree, HostAssigned

\* What c contributes to the sum.
Share(c) == IF c \in Assigned THEN limit[c] ELSE 0

LEMMA AssignedFinite ==
    /\ IsFiniteSet(Assigned) /\ IsFiniteSet(Assigned')
    /\ \A c : IsFiniteSet(Assigned \ {c}) /\ IsFiniteSet(Assigned' \ {c})
<1>1. Assigned \in SUBSET Containers /\ Assigned' \in SUBSET Containers
  BY DEF Assigned
<1> QED BY <1>1, FiniteAssumption, FS_Subset

LEMMA ShareOf ==
    ASSUME TypeOK, NEW c \in Containers
    PROVE  /\ HostAssigned = Share(c) + Total(limit, Assigned \ {c})
           /\ HostAssigned \in Nat /\ Share(c) \in Nat
           /\ Total(limit, Assigned \ {c}) \in Nat
<1>1. \A d \in Assigned : limit[d] \in Nat
  BY DEF TypeOK, BoxOK, Assigned
<1>2. /\ Total(limit, Assigned) \in Nat
      /\ Total(limit, Assigned \ {c}) \in Nat
  BY <1>1, AssignedFinite, TotalType
<1>3. CASE c \in Assigned
  BY <1>1, <1>2, <1>3, AssignedFinite, HostAssignedIsTotal, TotalRemove DEF Share
<1>4. CASE c \notin Assigned
  <2>1. Assigned \ {c} = Assigned
    BY <1>4
  <2> QED BY <1>2, <1>4, <2>1, HostAssignedIsTotal DEF Share
<1> QED BY <1>3, <1>4

LEMMA ShareOfNext ==
    ASSUME TypeOK', NEW c \in Containers
    PROVE  /\ HostAssigned' = Share(c)' + Total(limit', Assigned' \ {c})
           /\ HostAssigned' \in Nat /\ Share(c)' \in Nat
<1>1. \A d \in Assigned' : limit'[d] \in Nat
  BY DEF TypeOK, BoxOK, Assigned
<1>2. /\ Total(limit', Assigned') \in Nat
      /\ Total(limit', Assigned' \ {c}) \in Nat
  BY <1>1, AssignedFinite, TotalType
<1>3. CASE c \in Assigned'
  BY <1>1, <1>2, <1>3, AssignedFinite, HostAssignedIsTotal, TotalRemove DEF Share
<1>4. CASE c \notin Assigned'
  <2>1. Assigned' \ {c} = Assigned'
    BY <1>4
  <2> QED BY <1>2, <1>4, <2>1, HostAssignedIsTotal DEF Share
<1> QED BY <1>3, <1>4

\* A step that touches the cgroup of one container changes its share only.
LEMMA HostChange ==
    ASSUME TypeOK, TypeOK', NEW c \in Containers,
           \A d \in Containers \ {c} : status'[d] = status[d] /\ limit'[d] = limit[d]
    PROVE  /\ HostAssigned' = HostAssigned - Share(c) + Share(c)'
           /\ HostAssigned \in Nat /\ HostAssigned' \in Nat
           /\ Share(c) \in Nat /\ Share(c)' \in Nat
<1>1. Assigned' \ {c} = Assigned \ {c}
  BY DEF Assigned, Running
<1>2. \A d \in Assigned \ {c} : limit'[d] = limit[d]
  BY DEF Assigned
<1>3. Total(limit', Assigned' \ {c}) = Total(limit, Assigned \ {c})
  BY <1>1, <1>2, AssignedFinite, TotalAgree
<1> QED BY <1>3, ShareOf, ShareOfNext

LEMMA HostStill ==
    ASSUME UNCHANGED <<status, limit>>
    PROVE  HostAssigned' = HostAssigned
<1>1. Assigned' = Assigned
  BY DEF Assigned, Running
<1> QED BY <1>1, HostAssignedIsTotal

(***************************************************************************)
(* The inductive invariant.                                                *)
(***************************************************************************)

Names == \A c \in Uncapped : created[c] = 0

\* There is nothing left to take from d; it may come to have something again
\* only if workloads give memory back.
Spent(d) == Release = {} => Slack(d) <= 0

Exhausted == \A d \in Containers : Spent(d)

PuffSteps    == {"puff_save", "puff_decide", "puff_apply"}
TakeSteps    == {"reclaim_suspend", "reclaim_apply"}
ReclaimSteps == {"reclaim_file"} \cup ReclaimHolds

\* What the only caller still knows of the limit and the budget it has read.
Reads(p) ==
    /\ pc[p] \in PuffSteps \cup TakeSteps \cup {"reclaim_usage"} =>
          (Running(job[p]) => cur[p] = limit[job[p]])
    /\ pc[p] = "puff_apply" => cur[p] <= new[p] /\ new[p] - cur[p] <= HostFree
    /\ pc[p] \in TakeSteps => new[p] < cur[p]
    /\ pc[p] = "run" => HostFree >= target[p] \/ Exhausted

\* A sweep: whoever is not a candidate any more has nothing left, and what it
\* is about to take leaves its container with nothing, or is all that misses.
Sweeping(p) ==
    /\ pc[p] = "host_next" =>
          \/ HostFree >= target[p]
          \/ \A d \in Containers : order[p][d] = 0 => Spent(d)
    /\ pc[p] \in ReclaimSteps =>
          /\ amount[p] \in Nat \ {0} /\ amount[p] >= target[p] - HostFree
          /\ \A d \in Containers : order[p][d] = 0 /\ d # job[p] => Spent(d)
    /\ pc[p] \in TakeSteps =>
          /\ new[p] >= cur[p] - amount[p]
          /\ \/ ~Running(job[p])
             \/ new[p] = cur[p] - amount[p]
             \/ Release = {} => new[p] <= SafetyFloor(floor[p], job[p])

\* The candidates left are as old as the one at work, or older.
Ordered(p) ==
    /\ pc[p] \in {"host_next"} \cup ReclaimSteps =>
          \A d \in Containers : order[p][d] \in {0, created[d]}
    /\ pc[p] \in ReclaimSteps =>
          \A d \in Containers : created[d] > created[job[p]] => order[p][d] = 0

Local(p) == Reads(p) /\ (call[p] \in Sweeps => Sweeping(p) /\ Ordered(p))

\* Above the budget there is nothing left to take.
OverIsExhausted == HostAssigned > HostBudget => Exhausted

BudgetInv == Names /\ OverIsExhausted /\ \A p \in Callers : Local(p)

(***************************************************************************)
(* Steps that give memory back to the host, or leave it alone.             *)
(***************************************************************************)

Eases ==
    /\ HostAssigned' <= HostAssigned
    /\ Release = {} => \A d \in Containers : Slack(d)' <= 0 \/ Slack(d)' <= Slack(d)

LEMMA BudgetType ==
    ASSUME TypeOK
    PROVE  /\ HostBudget \in Nat /\ HostAssigned \in Nat /\ HostFree \in Int
           /\ \A d \in Containers : Slack(d) \in Int
<1>1. HostBudget \in Nat
  BY ConstantsAssumption DEF HostBudget
<1>2. HostAssigned \in Nat
  <2>1. CASE Containers = {}
    <3>1. \A d \in Assigned : limit[d] \in Nat
      BY <2>1 DEF Assigned
    <3> QED BY <3>1, AssignedFinite, HostAssignedIsTotal, TotalType
  <2>2. CASE Containers # {}
    BY <2>2, ShareOf
  <2> QED BY <2>1, <2>2
<1>3. \A d \in Containers : Slack(d) \in Int
  BY DEF Slack, SafetyFloor, Larger, RECLAIM_SAFETY_MARGIN_MB, TypeOK, BoxOK, FilesOK
<1> QED BY <1>1, <1>2, <1>3 DEF HostFree

LEMMA BudgetTypeNext ==
    ASSUME TypeOK'
    PROVE  /\ HostAssigned' \in Nat /\ HostFree' \in Int
           /\ HostFree' = HostBudget - HostAssigned'
           /\ \A d \in Containers : Slack(d)' \in Int
<1>1. HostBudget \in Nat
  BY ConstantsAssumption DEF HostBudget
<1>2. HostAssigned' \in Nat
  <2>1. CASE Containers = {}
    <3>1. \A d \in Assigned' : limit'[d] \in Nat
      BY <2>1 DEF Assigned
    <3> QED BY <3>1, AssignedFinite, HostAssignedIsTotal, TotalType
  <2>2. CASE Containers # {}
    BY <2>2, ShareOfNext
  <2> QED BY <2>1, <2>2
<1>3. \A d \in Containers : Slack(d)' \in Int
  BY DEF Slack, SafetyFloor, Larger, RECLAIM_SAFETY_MARGIN_MB, TypeOK, BoxOK, FilesOK
<1> QED BY <1>1, <1>2, <1>3 DEF HostFree

\* What easing keeps.
LEMMA EasesKeeps ==
    ASSUME TypeOK, TypeOK', Eases
    PROVE  /\ HostFree' >= HostFree
           /\ \A d \in Containers : Spent(d) => Spent(d)'
           /\ Exhausted => Exhausted'
           /\ OverIsExhausted => OverIsExhausted'
<1>1. HostFree' >= HostFree
  BY BudgetType, BudgetTypeNext DEF Eases, HostFree
<1>2. \A d \in Containers : Spent(d) => Spent(d)'
  BY BudgetType, BudgetTypeNext DEF Eases, Spent
<1>3. Exhausted => Exhausted'
  BY <1>2 DEF Exhausted
<1>4. OverIsExhausted => OverIsExhausted'
  <2>1. HostAssigned' > HostBudget => HostAssigned > HostBudget
    BY BudgetType, BudgetTypeNext DEF Eases
  <2> QED BY <1>3, <2>1 DEF OverIsExhausted
<1> QED BY <1>1, <1>2, <1>3, <1>4

\* A state file is removed, torn, or written with the limit as it is.
FileEased(c) ==
    \/ memFile'[c] = memFile[c]
    \/ memFile'[c] \in {None, Torn}
    \/ Running(c) => memFile'[c] = limit[c]

LEMMA StillEases ==
    ASSUME TypeOK, TypeOK', UNCHANGED <<status, limit, usage>>,
           \A c \in Containers : FileEased(c)
    PROVE  Eases
<1>1. HostAssigned' <= HostAssigned
  BY HostStill, BudgetType
<1>2. ASSUME NEW d \in Containers
      PROVE  Slack(d)' <= 0 \/ Slack(d)' <= Slack(d)
  <2>1. Running(d)' <=> Running(d)
    BY DEF Running
  <2>2. CASE memFile'[d] = memFile[d]
    <3>1. Slack(d)' = Slack(d)
      BY <2>1, <2>2 DEF Slack, SafetyFloor
    <3> QED BY <3>1, BudgetType
  <2>3. CASE ~Running(d) \/ memFile'[d] \in {None, Torn}
    BY <2>1, <2>3 DEF Slack
  <2>4. CASE Running(d) /\ memFile'[d] \notin {None, Torn} /\ memFile'[d] = limit[d]
    BY <2>1, <2>4 DEF Slack, SafetyFloor, Larger, RECLAIM_SAFETY_MARGIN_MB, TypeOK, BoxOK
  <2> QED BY <2>2, <2>3, <2>4, <1>2 DEF FileEased
<1> QED BY <1>1, <1>2 DEF Eases

LEMMA BoxEases ==
    ASSUME TypeOK, TypeOK', UNCHANGED box, UNCHANGED memFile
    PROVE  Eases
BY StillEases DEF box, FileEased

LEMMA SuspendEases ==
    ASSUME TypeOK, TypeOK', NEW c, SuspendOnce(c) \/ SuspendHalf(c)
    PROVE  Eases /\ UNCHANGED <<status, limit, usage, created, memFile>>
<1>1. UNCHANGED <<status, limit, usage, created, memFile>>
  BY DEF SuspendOnce, SuspendHalf, SetThrottled, box, files
<1> QED BY <1>1, StillEases DEF FileEased

LEMMA GoneEases ==
    ASSUME TypeOK, TypeOK', NEW c \in Containers, CgroupGone(c), UNCHANGED memFile
    PROVE  Eases
<1>1. /\ \A d \in Containers \ {c} :
            status'[d] = status[d] /\ limit'[d] = limit[d] /\ usage'[d] = usage[d]
      /\ ~Running(c)'
  BY DEF CgroupGone, Running, TypeOK, BoxOK
<1>2. HostAssigned' = HostAssigned - Share(c) + Share(c)' /\ Share(c) \in Nat
      /\ HostAssigned \in Nat
  BY <1>1, HostChange
<1>3. Share(c)' = 0
  BY <1>1 DEF Share, Assigned
<1>4. ASSUME NEW d \in Containers
      PROVE  Slack(d)' <= 0 \/ Slack(d)' <= Slack(d)
  <2>1. CASE d = c
    BY <1>1, <2>1 DEF Slack
  <2>2. CASE d # c
    <3>1. Slack(d)' = Slack(d)
      BY <1>1, <2>2 DEF Slack, SafetyFloor, Running
    <3> QED BY <3>1, BudgetType
  <2> QED BY <2>1, <2>2
<1> QED BY <1>2, <1>3, <1>4 DEF Eases

\* docker update --memory of a container that admission launched.
LEMMA UpdateAssigned ==
    ASSUME TypeOK, TypeOK', NEW c \in Containers \ Uncapped, NEW mb \in Nat,
           DockerUpdateMemory(c, mb), UNCHANGED memFile
    PROVE  /\ Running(c)' => HostAssigned' = HostAssigned - limit[c] + mb
           /\ ~Running(c)' => HostAssigned' <= HostAssigned
           /\ \A d \in Containers \ {c} : Slack(d)' = Slack(d)
           /\ Running(c)' => Running(c) /\ limit'[c] = mb /\ usage'[c] = usage[c]
<1>1. CASE Running(c) /\ mb < usage[c]
  <2>1. CgroupGone(c) /\ ~Running(c)'
    BY <1>1 DEF DockerUpdateMemory, CgroupGone, Running, TypeOK, BoxOK
  <2>2. \A d \in Containers \ {c} : Slack(d)' = Slack(d)
    BY <2>1 DEF CgroupGone, Slack, SafetyFloor, Running, TypeOK, BoxOK
  <2> QED BY <2>1, <2>2, GoneEases DEF Eases
<1>2. CASE Running(c) /\ ~(mb < usage[c])
  <2>1. limit' = [limit EXCEPT ![c] = mb] /\ UNCHANGED <<status, usage>>
    BY <1>2 DEF DockerUpdateMemory
  <2>2. HostAssigned' = HostAssigned - Share(c) + Share(c)'
    BY <2>1, HostChange DEF TypeOK, BoxOK
  <2>3. Share(c) = limit[c] /\ Share(c)' = mb
    BY <1>2, <2>1 DEF Share, Assigned, Running, TypeOK, BoxOK
  <2>4. \A d \in Containers \ {c} : Slack(d)' = Slack(d)
    BY <2>1 DEF Slack, SafetyFloor, Running, TypeOK, BoxOK
  <2> QED BY <1>2, <2>1, <2>2, <2>3, <2>4 DEF Running, TypeOK, BoxOK
<1>3. CASE ~Running(c)
  <2>1. UNCHANGED <<status, limit, usage>>
    BY <1>3 DEF DockerUpdateMemory, box
  <2>2. HostAssigned' = HostAssigned /\ ~Running(c)'
    BY <1>3, <2>1, HostStill DEF Running
  <2>3. \A d \in Containers \ {c} : Slack(d)' = Slack(d)
    BY <2>1 DEF Slack, SafetyFloor, Running
  <2> QED BY <2>2, <2>3, BudgetType
<1> QED BY <1>1, <1>2, <1>3

\* It eases when it lowers the limit.
LEMMA UpdateEases ==
    ASSUME TypeOK, TypeOK', NEW c \in Containers \ Uncapped, NEW mb \in Nat,
           DockerUpdateMemory(c, mb), UNCHANGED memFile, Running(c) => mb <= limit[c]
    PROVE  Eases
<1>1. limit[c] \in Nat /\ HostAssigned \in Nat
  BY BudgetType DEF TypeOK, BoxOK
<1>2. HostAssigned' <= HostAssigned
  BY <1>1, UpdateAssigned
<1>3. ASSUME NEW d \in Containers
      PROVE  Slack(d)' <= 0 \/ Slack(d)' <= Slack(d)
  <2>1. CASE d # c
    BY <2>1, UpdateAssigned, BudgetType
  <2>2. CASE d = c /\ ~Running(c)'
    BY <2>2 DEF Slack
  <2>3. CASE d = c /\ Running(c)'
    <3>1. Running(c) /\ limit'[c] = mb /\ usage'[c] = usage[c] /\ memFile'[c] = memFile[c]
      BY <2>3, UpdateAssigned
    <3>2. CASE memFile[c] \in {None, Torn}
      BY <2>3, <3>1, <3>2 DEF Slack
    <3>3. CASE memFile[c] \notin {None, Torn}
      <4>1. SafetyFloor(memFile[c], c)' = SafetyFloor(memFile[c], c)
            /\ SafetyFloor(memFile[c], c) \in Int
        BY <3>1, <3>3 DEF SafetyFloor, Larger, RECLAIM_SAFETY_MARGIN_MB, TypeOK, BoxOK, FilesOK
      <4> QED BY <1>1, <2>3, <3>1, <3>3, <4>1 DEF Slack
    <3> QED BY <3>2, <3>3
  <2> QED BY <2>1, <2>2, <2>3
<1> QED BY <1>2, <1>3 DEF Eases

(***************************************************************************)
(* Every step keeps the invariant.                                         *)
(***************************************************************************)

\* What a step of the only caller must show.
LEMMA BudgetKept ==
    ASSUME Lone, BudgetInv, NEW p \in Callers, UNCHANGED created, OverIsExhausted',
           Local(p)'
    PROVE  BudgetInv'
BY DEF Lone, BudgetInv, Names

\* At any other step the caller has nothing to keep.
LEMMA NothingToKeep ==
    ASSUME NEW p, pc'[p] \in {"idle", "monitor_suspend", "host_scan"}
    PROVE  Local(p)'
BY DEF Local, Reads, Sweeping, Ordered, PuffSteps, TakeSteps, ReclaimSteps, ReclaimHolds

LEMMA FinishKeeps ==
    ASSUME TypeOK, NEW p \in Callers, Finish(p) \/ PuffReturn(p)
    PROVE  Local(p)'
<1>1. pc'[p] \in {"idle", "monitor_suspend"}
  BY DEF Finish, PuffReturn, Goto, TypeOK, CallersOK
<1> QED BY <1>1, NothingToKeep

\* Containers that have a state file, or were launched, are not uncapped.
LEMMA CappedJob ==
    ASSUME FloorInv, Names, NEW p \in Callers, job[p] \in Containers,
           pc[p] \in PuffHolds \cup ReclaimHolds \cup WillWrite
    PROVE  job[p] \in Containers \ Uncapped
BY DEF FloorInv, Holds, Names

\* reclaim() returns to a sweep, which goes on to its next candidate.
LEMMA ReclaimReturnKeeps ==
    ASSUME TypeOK, TypeOK', BudgetInv, NEW p \in Callers, pc[p] \in ReclaimSteps,
           ReclaimReturn(p), Eases, UNCHANGED created,
           NEW c \in Containers, c = job[p],
           call[p] \in Sweeps => HostFree' >= target[p] \/ Spent(c)'
    PROVE  Local(p)'
<1>1. CASE call[p] \notin Sweeps
  BY <1>1, FinishKeeps DEF ReclaimReturn
<1>2. CASE call[p] \in Sweeps
  <2>1. pc'[p] = "host_next" /\ UNCHANGED <<target, order>>
    BY <1>2 DEF ReclaimReturn, Goto, sweep, TypeOK, CallersOK
  <2>2. Sweeping(p) /\ Ordered(p)
    BY <1>2 DEF BudgetInv, Local
  <2>3. Reads(p)'
    BY <2>1 DEF Reads, PuffSteps, TakeSteps
  <2>4. Sweeping(p)'
    <3>1. ASSUME ~(HostFree' >= target[p]), NEW d \in Containers, order[p][d] = 0
          PROVE  Spent(d)'
      <4>1. CASE d = c
        BY <1>2, <3>1, <4>1
      <4>2. CASE d # c
        BY <2>2, <3>1, <4>2, EasesKeeps DEF Sweeping
      <4> QED BY <4>1, <4>2
    <3> QED BY <2>1, <3>1 DEF Sweeping, ReclaimSteps, ReclaimHolds, TakeSteps
  <2>5. Ordered(p)'
    BY <2>1, <2>2 DEF Ordered, ReclaimSteps, ReclaimHolds
  <2> QED BY <2>3, <2>4, <2>5 DEF Local
<1> QED BY <1>1, <1>2

\* reclaim() goes on: the sweep it belongs to keeps what it knows.
LEMMA ReclaimGoesOn ==
    ASSUME TypeOK, TypeOK', BudgetInv, NEW p \in Callers,
           pc[p] \in ReclaimSteps, pc'[p] \in ReclaimSteps, Eases,
           UNCHANGED <<created, job, amount, sweep, call>>, Reads(p)',
           call[p] \in Sweeps /\ pc'[p] \in TakeSteps =>
              (/\ new[p] >= cur[p] - amount[p]
               /\ \/ ~Running(job[p])
                  \/ new[p] = cur[p] - amount[p]
                  \/ Release = {} => new[p] <= SafetyFloor(floor[p], job[p]))'
    PROVE  Local(p)'
<1> SUFFICES ASSUME call[p] \in Sweeps PROVE Sweeping(p)' /\ Ordered(p)'
  BY DEF Local
<1>1. Sweeping(p) /\ Ordered(p)
  BY DEF BudgetInv, Local
<1>2. UNCHANGED <<target, order>> /\ pc'[p] # "host_next"
  BY DEF sweep, ReclaimSteps, ReclaimHolds
<1>3. Sweeping(p)'
  <2>1. amount[p] \in Nat \ {0} /\ amount[p] >= target[p] - HostFree'
    BY <1>1, EasesKeeps, BudgetType, BudgetTypeNext DEF Sweeping, TypeOK, CallersOK
  <2>2. \A d \in Containers : order[p][d] = 0 /\ d # job[p] => Spent(d)'
    BY <1>1, EasesKeeps DEF Sweeping
  <2> QED BY <1>2, <2>1, <2>2 DEF Sweeping
<1>4. Ordered(p)'
  BY <1>1, <1>2 DEF Ordered
<1> QED BY <1>3, <1>4

LEMMA BeginBudget ==
    ASSUME Unread = {}, Lone, TypeOK, TypeOK', BudgetInv, NEW p \in Callers, Begin(p)
    PROVE  BudgetInv'
<1>1. UNCHANGED box /\ UNCHANGED files
  BY DEF Begin, PuffBegin, MonitorUncapped, ReclaimBegin, HostBegin, DaemonBegin,
         AdmissionBegin
<1>2. Eases /\ UNCHANGED created
  BY <1>1, BoxEases DEF files, box
<1>3. OverIsExhausted'
  BY <1>2, EasesKeeps DEF BudgetInv
<1>4. ASSUME NEW c \in Containers, NEW prog \in {"puff", "monitor"},
             PuffBegin(p, c, prog)
      PROVE  Local(p)'
  <2>1. /\ pc'[p] = "puff_save" /\ call'[p] = prog
        /\ cur'[p] = limit[c] /\ job'[p] = c /\ limit' = limit
    BY <1>1, <1>4 DEF PuffBegin, Enter, TypeOK, CallersOK, box
  <2> QED BY <2>1 DEF Local, Reads, Sweeps, PuffSteps, TakeSteps
<1>5. ASSUME NEW c \in Containers, MonitorUncapped(p, c)
      PROVE  Local(p)'
  BY <1>5, NothingToKeep DEF MonitorUncapped, Enter, TypeOK, CallersOK
<1>6. ASSUME NEW c \in Containers, NEW mb \in Amounts, ReclaimBegin(p, c, mb)
      PROVE  Local(p)'
  <2>1. pc'[p] = "reclaim_file" /\ call'[p] = "reclaim"
    BY <1>6 DEF ReclaimBegin, Enter, TypeOK, CallersOK
  <2> QED BY <2>1 DEF Local, Reads, Sweeps, PuffSteps, TakeSteps
<1>7. ASSUME (\E t \in Targets : HostBegin(p, t)) \/ DaemonBegin(p)
      PROVE  Local(p)'
  BY <1>7, NothingToKeep DEF HostBegin, DaemonBegin, Enter, TypeOK, CallersOK
<1>8. ASSUME NEW r \in Requests, AdmissionBegin(p, r)
      PROVE  Local(p)'
  <2>1. target'[p] = r
    BY <1>8 DEF AdmissionBegin, TypeOK, CallersOK
  <2>0. Enter(p, "admission", IF Fits(r, HostFree) THEN "run" ELSE "host_scan", None)
    BY <1>8, FreeIsRead DEF AdmissionBegin
  <2>2. CASE Fits(r, HostFree)
    <3>1. pc'[p] = "run"
      BY <2>0, <2>2 DEF Enter, TypeOK, CallersOK
    <3>2. HostFree' >= r
      <4>1. HostAssigned' = HostAssigned
        BY <1>1, HostStill DEF box
      <4> QED BY <2>2, <4>1 DEF Fits, HostFree
    <3> QED BY <2>1, <3>1, <3>2
            DEF Local, Reads, Sweeping, Ordered, PuffSteps, TakeSteps, ReclaimSteps,
                ReclaimHolds
  <2>3. CASE ~Fits(r, HostFree)
    BY <2>0, <2>3, NothingToKeep DEF Enter, TypeOK, CallersOK
  <2> QED BY <2>2, <2>3
<1>9. Local(p)'
  BY <1>4, <1>5, <1>6, <1>7, <1>8 DEF Begin
<1> QED BY <1>2, <1>3, <1>9, BudgetKept

\* docker update --memory by puff(): the sum stays within the budget.
LEMMA PuffFits ==
    ASSUME TypeOK, TypeOK', FloorInv, BudgetInv, NEW p \in Callers, PuffApply(p)
    PROVE  HostAssigned' <= HostBudget
<1>1. PICK c \in Containers \ Uncapped : c = job[p]
  BY CappedJob DEF PuffApply, TypeOK, CallersOK, JobSteps, Steps, WillWrite, BudgetInv
<1>2. new[p] \in Nat /\ cur[p] \in Nat /\ limit[c] \in Nat
  BY <1>1 DEF TypeOK, CallersOK, BoxOK
<1>3. /\ cur[p] <= new[p] /\ new[p] - cur[p] <= HostFree
      /\ Running(c) => cur[p] = limit[c]
  BY <1>1 DEF PuffApply, BudgetInv, Local, Reads, PuffSteps
<1>4. DockerUpdateMemory(c, new[p]) /\ UNCHANGED memFile
  BY <1>1 DEF PuffApply, files
<1>5. /\ Running(c)' => Running(c) /\ HostAssigned' = HostAssigned - limit[c] + new[p]
      /\ ~Running(c)' => HostAssigned' <= HostAssigned
  BY <1>1, <1>2, <1>4, UpdateAssigned
<1>6. HostAssigned \in Nat /\ HostBudget \in Nat /\ HostFree = HostBudget - HostAssigned
      /\ HostAssigned' \in Nat
  BY BudgetType, BudgetTypeNext DEF HostFree
<1> QED BY <1>2, <1>3, <1>5, <1>6

LEMMA PuffBudget ==
    ASSUME Unread = {}, Lone, TypeOK, TypeOK', FloorInv, BudgetInv, NEW p \in Callers,
           \/ PuffSave(p) \/ PuffGrant(p) \/ PuffRefuse(p) \/ PuffApply(p)
           \/ MonitorSuspend(p)
    PROVE  BudgetInv'
<1>0. Reads(p) /\ OverIsExhausted
  BY DEF BudgetInv, Local
<1>1. CASE PuffSave(p)
  <2>1. /\ UNCHANGED box /\ UNCHANGED <<cur, job, created>>
        /\ pc'[p] = "puff_decide"
        /\ memFile' = [memFile EXCEPT ![job[p]] = ValueToSave(p)]
    BY <1>1 DEF PuffSave, Goto, box, frame, TypeOK, CallersOK
  <2>2. Running(job[p]) => cur[p] = limit[job[p]]
    BY <1>0, <1>1 DEF PuffSave, Reads, PuffSteps
  <2>3. \A d \in Containers : FileEased(d)
    BY <2>1, <2>2 DEF FileEased, ValueToSave, TypeOK, FilesOK
  <2>4. Eases
    BY <2>1, <2>3, StillEases DEF box
  <2>5. Local(p)'
    BY <2>1, <2>2 DEF Local, Reads, Sweeping, Ordered, PuffSteps, TakeSteps, ReclaimSteps,
                      ReclaimHolds, Running, box
  <2> QED BY <1>0, <2>1, <2>4, <2>5, EasesKeeps, BudgetKept
<1>2. CASE PuffGrant(p)
  <2>1. /\ UNCHANGED box /\ UNCHANGED <<cur, job, created, memFile, status, limit>>
        /\ pc'[p] = "puff_apply" /\ new'[p] = cur[p] + Grant(p, HostFree)
        /\ HostFree \in MIN_PUFF_STEP_MB .. HostBudget
    BY <1>2, FreeIsRead DEF PuffGrant, Goto, box, files, TypeOK, CallersOK
  <2>2. Running(job[p]) => cur[p] = limit[job[p]]
    BY <1>0, <1>2 DEF PuffGrant, Reads, PuffSteps
  <2>3. cur[p] <= new'[p] /\ new'[p] - cur[p] <= HostFree'
    <3>1. cur[p] \in Nat /\ PuffStep(cur[p]) \in Int /\ PuffStep(cur[p]) >= 16
          /\ HostFree \in Int /\ HostFree >= 16
      BY <1>2, <2>1, BudgetType DEF PuffGrant, PuffStep, MIN_PUFF_STEP_MB, TypeOK, CallersOK
    <3>2. HostFree' = HostFree
      BY <2>1, HostStill DEF HostFree
    <3> QED BY <2>1, <3>1, <3>2 DEF Grant, Smaller
  <2>4. Eases
    BY <2>1, BoxEases
  <2>5. Local(p)'
    BY <2>1, <2>2, <2>3 DEF Local, Reads, Sweeping, Ordered, PuffSteps, TakeSteps,
                            ReclaimSteps, ReclaimHolds, Running
  <2> QED BY <1>0, <2>1, <2>4, <2>5, EasesKeeps, BudgetKept
<1>3. CASE PuffRefuse(p)
  <2>1. Eases /\ UNCHANGED created
    BY <1>3, BoxEases DEF PuffRefuse, box, files
  <2> QED BY <1>0, <1>3, <2>1, EasesKeeps, FinishKeeps, BudgetKept DEF PuffRefuse
<1>4. CASE PuffApply(p)
  <2>1. UNCHANGED created
    BY <1>4 DEF PuffApply, DockerUpdateMemory, CgroupGone, box
  <2>2. OverIsExhausted'
    BY <1>4, PuffFits, BudgetType, BudgetTypeNext DEF OverIsExhausted
  <2> QED BY <1>4, <2>1, <2>2, FinishKeeps, BudgetKept DEF PuffApply
<1>5. CASE MonitorSuspend(p)
  <2>1. Eases /\ UNCHANGED created
    BY <1>5, SuspendEases DEF MonitorSuspend
  <2> QED BY <1>0, <1>5, <2>1, EasesKeeps, FinishKeeps, BudgetKept DEF MonitorSuspend
<1> QED BY <1>1, <1>2, <1>3, <1>4, <1>5

\* Nothing is left of a container whose file is gone, or that has ended.
LEMMA NoSlack ==
    ASSUME NEW c \in Containers, memFile[c] \in {None, Torn} \/ ~Running(c)
    PROVE  Slack(c) <= 0 /\ Spent(c)
BY DEF Slack, Spent

\* Nor of one whose limit is no more than what reclaim() may not go below.
LEMMA AtFloor ==
    ASSUME TypeOK, NEW c \in Containers,
           \/ limit[c] <= memFile[c] /\ memFile[c] \in Nat
           \/ limit[c] <= SafetyFloor(memFile[c], c)
    PROVE  Slack(c) <= 0 /\ Spent(c)
<1>1. CASE Running(c) /\ memFile[c] \notin {None, Torn}
  <2>1. limit[c] \in Nat /\ usage[c] \in Nat /\ memFile[c] \in Nat
    BY <1>1 DEF TypeOK, BoxOK, FilesOK
  <2> QED BY <1>1, <2>1 DEF Slack, Spent, SafetyFloor, Larger, RECLAIM_SAFETY_MARGIN_MB
<1>2. CASE ~(Running(c) /\ memFile[c] \notin {None, Torn})
  BY <1>2, NoSlack
<1> QED BY <1>1, <1>2

\* The first three steps of reclaim(), which only read.
LEMMA ReclaimReads ==
    ASSUME Lone, TypeOK, TypeOK', AloneInv, BudgetInv, NEW p \in Callers,
           ReclaimFile(p) \/ ReclaimLimit(p) \/ ReclaimUsage(p)
    PROVE  BudgetInv'
<1>0. PICK c \in Containers : c = job[p]
  BY DEF ReclaimFile, ReclaimLimit, ReclaimUsage, TypeOK, CallersOK, JobSteps, Steps
<1>1. Reads(p) /\ OverIsExhausted /\ (call[p] \in Sweeps => Sweeping(p)) /\ Knows(p)
  BY DEF BudgetInv, Local, AloneInv
<1>2. /\ UNCHANGED <<status, limit, usage, created, memFile>>
      /\ pc[p] \in ReclaimSteps
  BY DEF ReclaimFile, ReclaimLimit, ReclaimUsage, box, files, ReclaimSteps, ReclaimHolds
<1>3. Eases
  BY <1>2, StillEases DEF FileEased
<1>4. Spent(c)' = Spent(c)
  BY <1>2 DEF Spent, Slack, SafetyFloor, Running
<1>5. /\ limit[c] \in Nat /\ usage[c] \in Nat /\ cur[p] \in Nat /\ floor[p] \in Nat
      /\ floor[p] \notin {None, Torn}
      /\ amount[p] \in Nat \cup {None}
  BY ConstantsAssumption DEF TypeOK, BoxOK, CallersOK
<1>6. CASE ReclaimFile(p)
  <2>1. CASE memFile[c] = None
    <3>1. Spent(c)'
      BY <1>4, <2>1, NoSlack
    <3>2. Local(p)'
      BY <1>0, <1>2, <1>3, <1>6, <2>1, <3>1, ReclaimReturnKeeps DEF ReclaimFile
    <3> QED BY <1>1, <1>2, <1>3, <3>2, EasesKeeps, BudgetKept
  <2>2. CASE memFile[c] # None
    <3>1. /\ UNCHANGED <<created, job, amount, sweep, call>>
          /\ pc'[p] = "reclaim_limit"
      BY <1>0, <1>2, <1>6, <2>2 DEF ReclaimFile, Goto, TypeOK, CallersOK
    <3>2. Reads(p)'
      BY <3>1 DEF Reads, PuffSteps, TakeSteps
    <3>3. Local(p)'
      BY <1>2, <1>3, <3>1, <3>2, ReclaimGoesOn DEF ReclaimSteps, ReclaimHolds, TakeSteps
    <3> QED BY <1>1, <1>2, <1>3, <3>3, EasesKeeps, BudgetKept
  <2> QED BY <2>1, <2>2
<1>7. CASE ReclaimLimit(p)
  <2>0. memFile[c] = floor[p]
    BY <1>0, <1>1, <1>7 DEF ReclaimLimit, Knows, ReclaimHolds
  <2>1. CASE limit[c] <= floor[p]
    <3>1. Spent(c)'
      BY <1>4, <1>5, <2>0, <2>1, AtFloor
    <3>2. Local(p)'
      BY <1>0, <1>2, <1>3, <1>7, <2>1, <3>1, ReclaimReturnKeeps DEF ReclaimLimit
    <3> QED BY <1>1, <1>2, <1>3, <3>2, EasesKeeps, BudgetKept
  <2>2. CASE ~(limit[c] <= floor[p])
    <3>1. /\ UNCHANGED <<created, job, amount, sweep, call>>
          /\ pc'[p] = "reclaim_usage" /\ cur'[p] = limit[c]
      BY <1>0, <1>2, <1>7, <2>2 DEF ReclaimLimit, Goto, TypeOK, CallersOK
    <3>2. Reads(p)'
      BY <1>0, <1>2, <3>1 DEF Reads, PuffSteps, TakeSteps
    <3>3. Local(p)'
      BY <1>2, <1>3, <3>1, <3>2, ReclaimGoesOn DEF ReclaimSteps, ReclaimHolds, TakeSteps
    <3> QED BY <1>1, <1>2, <1>3, <3>3, EasesKeeps, BudgetKept
  <2> QED BY <2>1, <2>2
<1>8. CASE ReclaimUsage(p)
  <2> DEFINE safe == SafetyFloor(floor[p], c)
  <2>0. /\ memFile[c] = floor[p] /\ cur[p] = limit[c] /\ Running(c)
        /\ safe \in Nat
        /\ call[p] \in Sweeps => amount[p] \in Nat \ {0}
        /\ ReclaimTo(p) = IF amount[p] = None THEN safe
                          ELSE Larger(safe, cur[p] - amount[p])
    BY <1>0, <1>1, <1>2, <1>5, <1>8
       DEF ReclaimUsage, Knows, ReclaimHolds, Reads, Sweeping, ReclaimTo, SafetyFloor,
           Larger, RECLAIM_SAFETY_MARGIN_MB
  <2> HIDE DEF safe
  <2>1. CASE ReclaimTo(p) >= cur[p]
    <3>1. ASSUME call[p] \in Sweeps PROVE limit[c] <= safe
      <4>1. amount[p] # None /\ amount[p] \in Nat \ {0}
        BY <2>0, <3>1, ConstantsAssumption
      <4> QED BY <1>5, <2>0, <2>1, <4>1 DEF Larger
    <3>2. call[p] \in Sweeps => Spent(c)'
      BY <1>4, <2>0, <3>1, AtFloor DEF safe
    <3>3. Local(p)'
      BY <1>0, <1>2, <1>3, <1>8, <2>1, <3>2, ReclaimReturnKeeps DEF ReclaimUsage
    <3> QED BY <1>1, <1>2, <1>3, <3>3, EasesKeeps, BudgetKept
  <2>2. CASE ~(ReclaimTo(p) >= cur[p])
    <3>1. /\ UNCHANGED <<created, job, amount, sweep, call, cur, floor>>
          /\ pc'[p] = "reclaim_suspend" /\ new'[p] = ReclaimTo(p)
      BY <1>0, <1>2, <1>8, <2>2 DEF ReclaimUsage, Goto, TypeOK, CallersOK
    <3>2. new'[p] < cur[p]
      BY <1>5, <2>0, <2>2, <3>1 DEF Larger
    <3>3. Reads(p)'
      BY <1>0, <1>2, <2>0, <3>1, <3>2 DEF Reads, PuffSteps, TakeSteps
    <3>4. ASSUME call[p] \in Sweeps
          PROVE  /\ new'[p] >= cur[p] - amount[p]
                 /\ new'[p] = cur[p] - amount[p] \/ new'[p] <= safe
      <4>1. amount[p] # None /\ amount[p] \in Nat \ {0}
        BY <2>0, <3>4, ConstantsAssumption
      <4> QED BY <1>5, <2>0, <3>1, <4>1 DEF Larger
    <3>5. SafetyFloor(floor[p], job[p])' = safe
      BY <1>0, <1>2, <3>1 DEF SafetyFloor, safe
    <3>6. Local(p)'
      BY <1>2, <1>3, <3>1, <3>3, <3>4, <3>5, ReclaimGoesOn
         DEF ReclaimSteps, ReclaimHolds
    <3> QED BY <1>1, <1>2, <1>3, <3>6, EasesKeeps, BudgetKept
  <2> QED BY <2>1, <2>2
<1> QED BY <1>6, <1>7, <1>8

LEMMA ReclaimSuspendBudget ==
    ASSUME Lone, TypeOK, TypeOK', BudgetInv, NEW p \in Callers, ReclaimSuspend(p)
    PROVE  BudgetInv'
<1>1. Reads(p) /\ OverIsExhausted /\ (call[p] \in Sweeps => Sweeping(p))
  BY DEF BudgetInv, Local
<1>2. Eases /\ UNCHANGED <<status, limit, usage, created, memFile>>
  BY SuspendEases DEF ReclaimSuspend
<1>3. /\ UNCHANGED <<job, cur, floor, new, amount, sweep, call>>
      /\ pc[p] = "reclaim_suspend" /\ pc'[p] = "reclaim_apply"
  BY DEF ReclaimSuspend, Goto, frame, TypeOK, CallersOK
<1>4. Reads(p)'
  BY <1>1, <1>2, <1>3 DEF Reads, PuffSteps, TakeSteps, Running
<1>5. SafetyFloor(floor[p], job[p])' = SafetyFloor(floor[p], job[p])
  BY <1>2, <1>3 DEF SafetyFloor
<1>6. call[p] \in Sweeps =>
        /\ new[p] >= cur[p] - amount[p]
        /\ \/ ~Running(job[p])
           \/ new[p] = cur[p] - amount[p]
           \/ Release = {} => new[p] <= SafetyFloor(floor[p], job[p])
  BY <1>1, <1>3 DEF Sweeping, TakeSteps
<1>7. Local(p)'
  BY <1>2, <1>3, <1>4, <1>5, <1>6, ReclaimGoesOn DEF ReclaimSteps, ReclaimHolds, Running
<1> QED BY <1>1, <1>2, <1>7, EasesKeeps, BudgetKept

\* reclaim() lowers the limit: a sweep has then all that was missing, or has
\* left the container with nothing to give.
LEMMA ReclaimTakes ==
    ASSUME TypeOK, TypeOK', FloorInv, AloneInv, BudgetInv, NEW p \in Callers,
           NEW c \in Containers, c = job[p], ReclaimApply(p)
    PROVE  /\ Eases
           /\ call[p] \in Sweeps => HostFree' >= target[p] \/ Spent(c)'
<1>1. c \in Containers \ Uncapped
  BY CappedJob DEF ReclaimApply, ReclaimHolds, BudgetInv
<1>2. /\ Reads(p) /\ (call[p] \in Sweeps => Sweeping(p)) /\ Knows(p)
      /\ pc[p] = "reclaim_apply" /\ memFile' = memFile
      /\ DockerUpdateMemory(c, new[p])
  BY DEF BudgetInv, Local, AloneInv, ReclaimApply, files
<1>3. /\ new[p] \in Nat /\ cur[p] \in Nat /\ limit[c] \in Nat /\ target[p] \in Nat
      /\ floor[p] \in Nat /\ floor[p] \notin {None, Torn}
      /\ usage[c] \in Nat
  BY ConstantsAssumption DEF TypeOK, BoxOK, CallersOK
<1>4. new[p] < cur[p] /\ (Running(c) => cur[p] = limit[c]) /\ memFile[c] = floor[p]
  BY <1>2 DEF Reads, TakeSteps, Knows, ReclaimHolds
<1>5. Eases
  BY <1>1, <1>2, <1>3, <1>4, UpdateEases
<1>6. CASE ~Running(c)'
  BY <1>5, <1>6 DEF Spent, Slack
<1>7. ASSUME Running(c)', call[p] \in Sweeps
      PROVE  HostFree' >= target[p] \/ Spent(c)'
  <2>1. /\ Running(c) /\ limit'[c] = new[p] /\ usage'[c] = usage[c]
        /\ HostAssigned' = HostAssigned - limit[c] + new[p]
    BY <1>1, <1>2, <1>3, <1>7, UpdateAssigned
  <2>2. /\ amount[p] \in Nat \ {0} /\ amount[p] >= target[p] - HostFree
        /\ \/ new[p] = cur[p] - amount[p]
           \/ Release = {} => new[p] <= SafetyFloor(floor[p], c)
    BY <1>2, <1>7, <2>1 DEF Sweeping, TakeSteps, ReclaimSteps, ReclaimHolds
  <2>3. CASE new[p] = cur[p] - amount[p]
    <3>1. HostFree' = HostFree + amount[p]
      BY <1>3, <1>4, <2>1, <2>2, <2>3, BudgetType, BudgetTypeNext DEF HostFree
    <3> QED BY <1>3, <2>2, <3>1, BudgetType
  <2>4. CASE Release = {} => new[p] <= SafetyFloor(floor[p], c)
    BY <1>2, <1>3, <1>4, <1>7, <2>1, <2>4
       DEF Spent, Slack, SafetyFloor, Larger, RECLAIM_SAFETY_MARGIN_MB
  <2> QED BY <2>2, <2>3, <2>4
<1> QED BY <1>5, <1>6, <1>7

LEMMA ReclaimApplyBudget ==
    ASSUME Lone, TypeOK, TypeOK', FloorInv, AloneInv, BudgetInv, NEW p \in Callers,
           ReclaimApply(p)
    PROVE  BudgetInv'
<1>0. PICK c \in Containers : c = job[p]
  BY DEF ReclaimApply, TypeOK, CallersOK, JobSteps, Steps
<1>1. Eases /\ (call[p] \in Sweeps => HostFree' >= target[p] \/ Spent(c)')
  BY <1>0, ReclaimTakes
<1>2. UNCHANGED created /\ pc[p] \in ReclaimSteps
  BY DEF ReclaimApply, DockerUpdateMemory, CgroupGone, box, ReclaimSteps, ReclaimHolds
<1>3. Local(p)'
  <2>1. CASE Restored(p)
    <3>1. /\ UNCHANGED <<job, amount, sweep, call>>
          /\ pc'[p] = "reclaim_unlink"
      BY <2>1 DEF ReclaimApply, Goto, frame, TypeOK, CallersOK
    <3>2. Reads(p)'
      BY <3>1 DEF Reads, PuffSteps, TakeSteps
    <3> QED BY <1>1, <1>2, <3>1, <3>2, ReclaimGoesOn
            DEF ReclaimSteps, ReclaimHolds, TakeSteps
  <2>2. CASE ~Restored(p)
    BY <1>0, <1>1, <1>2, <2>2, ReclaimReturnKeeps DEF ReclaimApply
  <2> QED BY <2>1, <2>2
<1> QED BY <1>1, <1>2, <1>3, EasesKeeps, BudgetKept DEF BudgetInv

LEMMA ReclaimUnlinkBudget ==
    ASSUME Lone, TypeOK, TypeOK', BudgetInv, NEW p \in Callers, ReclaimUnlink(p)
    PROVE  BudgetInv'
<1>0. PICK c \in Containers : c = job[p]
  BY DEF ReclaimUnlink, TypeOK, CallersOK, JobSteps, Steps
<1>1. /\ UNCHANGED <<status, limit, usage, created>>
      /\ memFile' = [memFile EXCEPT ![c] = None] /\ pc[p] \in ReclaimSteps
  BY <1>0 DEF ReclaimUnlink, box, ReclaimSteps, ReclaimHolds
<1>2. \A d \in Containers : FileEased(d)
  BY <1>1 DEF FileEased, TypeOK, FilesOK
<1>3. Eases
  BY <1>1, <1>2, StillEases
<1>4. Spent(c)'
  BY <1>1 DEF Spent, Slack, TypeOK, FilesOK
<1>5. Local(p)'
  BY <1>0, <1>1, <1>3, <1>4, ReclaimReturnKeeps DEF ReclaimUnlink
<1> QED BY <1>1, <1>3, <1>5, EasesKeeps, BudgetKept DEF BudgetInv

\* The steps of a sweep between two reclaims.
LEMMA HostBudgetKept ==
    ASSUME Unread = {}, Lone, TypeOK, TypeOK', FloorInv, BudgetInv, NEW p \in Callers,
           HostScan(p) \/ HostReturn(p) \/ \E c \in Containers : HostNext(p, c)
    PROVE  BudgetInv'
<1>1. (call[p] \in Sweeps => Sweeping(p) /\ Ordered(p)) /\ OverIsExhausted
  BY DEF BudgetInv, Local
<1>2. UNCHANGED <<status, limit, usage, created>>
  BY DEF HostScan, HostReturn, HostNext, box
<1>3. CASE HostScan(p)
  <2>1. /\ memFile' = [c \in Containers |-> IF status[c] = "absent" THEN None ELSE memFile[c]]
        /\ pc'[p] = "host_next"
        /\ order'[p] = [c \in Containers |->
              IF memFile[c] # None /\ status[c] # "absent" THEN created[c] ELSE 0]
    BY <1>3 DEF HostScan, CreatedUnknown, Goto, TypeOK, CallersOK
  <2>2. \A d \in Containers : FileEased(d)
    BY <2>1 DEF FileEased
  <2>3. Eases
    BY <1>2, <2>2, StillEases
  <2>4. ASSUME NEW d \in Containers, order'[p][d] = 0
        PROVE  Spent(d)'
    <3>1. created[d] > 0 \/ memFile[d] = None
      BY DEF FloorInv, FileFloor
    <3>2. status[d] = "absent" \/ memFile'[d] = None
      BY <2>1, <2>4, <3>1 DEF TypeOK, BoxOK
    <3> QED BY <1>2, <3>2 DEF Spent, Slack, Running
  <2>5. Local(p)'
    BY <1>2, <2>1, <2>4 DEF Local, Reads, Sweeping, Ordered, PuffSteps, TakeSteps,
                            ReclaimSteps, ReclaimHolds
  <2> QED BY <1>1, <1>2, <2>3, <2>5, EasesKeeps, BudgetKept
<1>4. CASE HostReturn(p)
  <2>1. Eases
    BY <1>4, BoxEases DEF HostReturn, files
  <2>2. Local(p)'
    <3>1. CASE call[p] = "admission"
      <4>1. pc'[p] = "run" /\ target' = target
        BY <1>4, <3>1 DEF HostReturn, Goto, sweep, TypeOK, CallersOK
      <4>2. HostFree >= target[p] \/ Exhausted
        <5>1. CASE order[p] = NoOrder
          BY <1>1, <1>4, <3>1, <5>1 DEF HostReturn, Sweeping, Sweeps, NoOrder, Exhausted
        <5> QED BY <1>4, <5>1, FreeIsRead DEF HostReturn
      <4>3. HostFree' >= target[p] \/ Exhausted'
        BY <2>1, <4>2, EasesKeeps, BudgetType, BudgetTypeNext DEF TypeOK, CallersOK
      <4> QED BY <4>1, <4>3 DEF Local, Reads, Sweeping, Ordered, PuffSteps, TakeSteps,
                                ReclaimSteps, ReclaimHolds
    <3>2. CASE call[p] # "admission"
      BY <1>4, <3>2, FinishKeeps DEF HostReturn
    <3> QED BY <3>1, <3>2
  <2> QED BY <1>1, <1>2, <2>1, <2>2, EasesKeeps, BudgetKept
<1>5. ASSUME NEW c \in Containers, HostNext(p, c)
      PROVE  BudgetInv'
  <2>1. Eases
    BY <1>5, BoxEases DEF HostNext, files
  <2>2. /\ pc[p] = "host_next" /\ pc'[p] = "reclaim_file"
        /\ call' = call /\ target' = target
        /\ job'[p] = c /\ amount'[p] = target[p] - HostFree
        /\ order'[p] = [order[p] EXCEPT ![c] = 0]
        /\ target[p] - HostFree \in Nat \ {0}
        /\ \A d \in Containers : order[p][d] <= order[p][c]
        /\ order[p][c] > 0
    BY <1>5, FreeIsRead DEF HostNext, IsNext, Goto, TypeOK, CallersOK
  <2>3. order[p] \in [Containers -> Nat] /\ target[p] \in Nat
    BY DEF TypeOK, CallersOK
  <2>4. HostFree' = HostFree /\ HostFree \in Int
    BY <1>2, HostStill, BudgetType DEF HostFree
  <2>5. ASSUME call[p] \in Sweeps
        PROVE  Sweeping(p)' /\ Ordered(p)'
    <3>1. Sweeping(p) /\ Ordered(p)
      BY <1>1, <2>5
    <3>2. \A d \in Containers : order[p][d] = 0 => Spent(d)'
      BY <2>1, <2>2, <2>3, <2>4, <3>1, EasesKeeps DEF Sweeping
    <3>3. Sweeping(p)'
      <4>1. \A d \in Containers : order'[p][d] = 0 /\ d # c => Spent(d)'
        BY <2>2, <2>3, <3>2
      <4> QED BY <2>2, <2>3, <2>4, <4>1 DEF Sweeping, TakeSteps
    <3>4. \A d \in Containers : order[p][d] \in {0, created[d]}
      BY <2>2, <3>1 DEF Ordered
    <3>5. \A d \in Containers : created[d] \in Nat
      BY DEF TypeOK, BoxOK
    <3>6. \A d \in Containers : created[d] > created[c] => order'[p][d] = 0
      <4> SUFFICES ASSUME NEW d \in Containers, created[d] > created[c], order'[p][d] # 0
                   PROVE  FALSE
        OBVIOUS
      <4>1. d # c
        BY <2>2, <2>3
      <4>2. order[p][d] = created[d] /\ order[p][c] = created[c]
        BY <2>2, <2>3, <3>4, <4>1
      <4> QED BY <2>2, <3>5, <4>2
    <3>7. Ordered(p)'
      BY <1>2, <2>2, <2>3, <3>4, <3>6 DEF Ordered
    <3> QED BY <3>3, <3>7
  <2>6. Reads(p)'
    BY <2>2 DEF Reads, PuffSteps, TakeSteps
  <2>7. Local(p)'
    BY <2>2, <2>5, <2>6 DEF Local
  <2> QED BY <1>1, <1>2, <2>1, <2>7, EasesKeeps, BudgetKept
<1> QED BY <1>3, <1>4, <1>5

\* docker run of admission: all that the new limit adds is in the sum.
LEMMA RunAdds ==
    ASSUME ~NameReuse, TypeOK, TypeOK', FloorInv, NEW p \in Callers, NEW c \in Containers,
           Run(p, c)
    PROVE  /\ HostAssigned' = HostAssigned + target[p]
           /\ \A d \in Containers : Slack(d)' <= 0 \/ Slack(d)' = Slack(d)
<1>1. /\ ~Running(c) /\ Running(c)' /\ c \notin Uncapped
      /\ limit'[c] = target[p] /\ memFile' = memFile
      /\ \A d \in Containers \ {c} :
            status'[d] = status[d] /\ limit'[d] = limit[d] /\ usage'[d] = usage[d]
  BY DEF Run, Running, files, TypeOK, BoxOK
<1>2. Share(c) = 0 /\ Share(c)' = target[p] /\ target[p] \in Nat
  BY <1>1 DEF Share, Assigned, TypeOK, CallersOK
<1>3. HostAssigned' = HostAssigned + target[p]
  BY <1>1, <1>2, HostChange
<1>4. ASSUME NEW d \in Containers
      PROVE  Slack(d)' <= 0 \/ Slack(d)' = Slack(d)
  <2>1. CASE d = c
    <3>1. memFile[c] = None
      BY DEF Run, FloorInv, FileFloor
    <3> QED BY <1>1, <2>1, <3>1 DEF Slack
  <2>2. CASE d # c
    BY <1>1, <2>2 DEF Slack, SafetyFloor, Running
  <2> QED BY <2>1, <2>2
<1> QED BY <1>3, <1>4

LEMMA RunBudget ==
    ASSUME ~NameReuse, Lone, TypeOK, TypeOK', FloorInv, BudgetInv, NEW p \in Callers,
           NEW c \in Containers, Run(p, c)
    PROVE  BudgetInv'
<1>1. HostFree >= target[p] \/ Exhausted
  BY DEF Run, BudgetInv, Local, Reads
<1>2. OverIsExhausted'
  <2>1. CASE HostFree >= target[p]
    <3>1. HostAssigned' <= HostBudget
      BY <2>1, RunAdds, BudgetType DEF HostFree, TypeOK, CallersOK
    <3> QED BY <3>1, BudgetType, BudgetTypeNext DEF OverIsExhausted
  <2>2. CASE Exhausted
    BY <2>2, RunAdds DEF Exhausted, Spent, OverIsExhausted
  <2> QED BY <1>1, <2>1, <2>2
<1>3. Local(p)'
  BY FinishKeeps DEF Run
<1>4. Names'
  BY DEF Run, BudgetInv, Names, TypeOK, BoxOK
<1> QED BY <1>2, <1>3, <1>4 DEF Lone, BudgetInv

LEMMA RaiseBudget ==
    ASSUME Lone, TypeOK, TypeOK', BudgetInv, NEW p \in Callers,
           Raise(p) \/ RaiseInSuspend(p) \/ RaiseInSave(p)
    PROVE  BudgetInv'
<1>1. CASE Raise(p)
  BY <1>1, BoxEases, EasesKeeps, FinishKeeps, BudgetKept DEF Raise, files, box, BudgetInv
<1>2. CASE RaiseInSuspend(p)
  BY <1>2, SuspendEases, EasesKeeps, FinishKeeps, BudgetKept
     DEF RaiseInSuspend, BudgetInv
<1>3. CASE RaiseInSave(p)
  <2>1. UNCHANGED <<status, limit, usage, created>> /\ \A d \in Containers : FileEased(d)
    BY <1>3 DEF RaiseInSave, box, FileEased, TypeOK, FilesOK
  <2> QED BY <1>3, <2>1, StillEases, EasesKeeps, FinishKeeps, BudgetKept
          DEF RaiseInSave, BudgetInv
<1> QED BY <1>1, <1>2, <1>3

\* The workloads and the operator only ever ease, if no workload gives memory
\* back, and no limit is raised, or a container started, behind the caller's back.
LEMMA OutsideEases ==
    ASSUME TypeOK, TypeOK', NEW c \in Containers, Outside(c)
    PROVE  /\ Eases /\ UNCHANGED callers /\ UNCHANGED created
           /\ \A d \in Containers : Running(d)' =>
                 /\ Running(d) /\ limit'[d] = limit[d]
                 /\ Release = {} => usage'[d] >= usage[d]
<1>0. CASE Shrink(c)
  <2>1. /\ UNCHANGED <<status, limit, created>> /\ UNCHANGED callers
        /\ Release # {}
    BY <1>0 DEF Shrink
  <2>2. HostAssigned' <= HostAssigned
    BY <2>1, HostStill, BudgetType
  <2> QED BY <2>1, <2>2 DEF Eases, Running
<1>1. CASE Grow(c)
  <2>1. /\ UNCHANGED <<status, limit, created, memFile>> /\ UNCHANGED callers
        /\ \A d \in Containers : usage'[d] >= usage[d]
    BY <1>1, ConstantsAssumption DEF Grow, files, TypeOK, BoxOK
  <2>2. HostAssigned' <= HostAssigned
    BY <2>1, HostStill, BudgetType
  <2>3. ASSUME NEW d \in Containers
        PROVE  Slack(d)' <= 0 \/ Slack(d)' <= Slack(d)
    <3>1. CASE Running(d) /\ memFile[d] \notin {None, Torn}
      <4>1. limit[d] \in Nat /\ usage[d] \in Nat /\ usage'[d] \in Nat /\ memFile[d] \in Nat
        BY <3>1 DEF TypeOK, BoxOK, FilesOK
      <4> QED BY <2>1, <3>1, <4>1
              DEF Slack, Running, SafetyFloor, Larger, RECLAIM_SAFETY_MARGIN_MB
    <3>2. CASE ~(Running(d) /\ memFile[d] \notin {None, Torn})
      BY <2>1, <3>2 DEF Slack, Running
    <3> QED BY <3>1, <3>2
  <2> QED BY <2>1, <2>2, <2>3 DEF Eases, Running
<1>2. CASE Exit(c)
  <2>1. CgroupGone(c) /\ UNCHANGED memFile /\ UNCHANGED callers
    BY <1>2 DEF Exit, files
  <2>2. \A d \in Containers : Running(d)' =>
          Running(d) /\ limit'[d] = limit[d] /\ usage'[d] = usage[d]
    BY <2>1 DEF CgroupGone, Running, TypeOK, BoxOK
  <2>3. \A d \in Containers : Running(d)' => usage'[d] >= usage[d]
    BY <2>2 DEF TypeOK, BoxOK
  <2> QED BY <2>1, <2>2, <2>3, GoneEases DEF CgroupGone
<1>3. CASE Remove(c)
  <2>1. /\ UNCHANGED <<limit, usage, created, memFile>> /\ UNCHANGED callers
        /\ \A d \in Containers : Running(d)' <=> Running(d)
    BY <1>3 DEF Remove, files, Running, TypeOK, BoxOK
  <2>2. HostAssigned' = HostAssigned
    <3>1. Assigned' = Assigned
      BY <2>1 DEF Assigned
    <3> QED BY <2>1, <3>1, HostAssignedIsTotal
  <2>3. \A d \in Containers : Slack(d)' = Slack(d)
    BY <2>1 DEF Slack, SafetyFloor
  <2>4. \A d \in Containers : usage[d] >= usage[d]
    BY DEF TypeOK, BoxOK
  <2> QED BY <2>1, <2>2, <2>3, <2>4, BudgetType DEF Eases
<1>4. CASE SuspendCommand(c) \/ ResumeCommand(c)
  <2>1. UNCHANGED <<status, limit, usage, created, memFile>> /\ UNCHANGED callers
    BY <1>4 DEF SuspendCommand, ResumeCommand, SetThrottled
  <2>2. \A d \in Containers : usage[d] >= usage[d]
    BY DEF TypeOK, BoxOK
  <2> QED BY <2>1, <2>2, StillEases DEF FileEased, Running
<1> QED BY <1>0, <1>1, <1>2, <1>3, <1>4 DEF Outside

LEMMA OutsideBudget ==
    ASSUME TypeOK, TypeOK', BudgetInv, NEW c \in Containers, Outside(c)
    PROVE  BudgetInv'
<1>1. /\ Eases
      /\ UNCHANGED <<created, call, pc, job, cur, floor, new, amount, target, order>>
      /\ \A d \in Containers : Running(d)' =>
            /\ Running(d) /\ limit'[d] = limit[d]
            /\ Release = {} => usage'[d] >= usage[d]
  BY OutsideEases DEF callers, frame, sweep
<1>2. /\ HostFree' >= HostFree /\ HostFree \in Int /\ HostFree' \in Int
      /\ \A d \in Containers : Spent(d) => Spent(d)'
      /\ Exhausted => Exhausted'
      /\ OverIsExhausted'
  BY <1>1, EasesKeeps, BudgetType, BudgetTypeNext DEF BudgetInv
<1>3. ASSUME NEW p \in Callers PROVE Local(p)'
  <2>1. Reads(p) /\ (call[p] \in Sweeps => Sweeping(p) /\ Ordered(p))
    BY DEF BudgetInv, Local
  <2>2. /\ cur[p] \in Nat /\ new[p] \in Nat /\ target[p] \in Nat /\ floor[p] \in Nat
        /\ pc[p] \in JobSteps => job[p] \in Containers
    BY DEF TypeOK, CallersOK
  <2>3. Reads(p)'
    BY <1>1, <1>2, <2>1, <2>2 DEF Reads, PuffSteps, TakeSteps, JobSteps, Steps
  <2>4. ASSUME call[p] \in Sweeps PROVE Sweeping(p)'
    <3>1. pc[p] = "host_next" =>
            \/ HostFree' >= target[p]
            \/ \A d \in Containers : order[p][d] = 0 => Spent(d)'
      BY <1>2, <2>1, <2>2, <2>4 DEF Sweeping
    <3>2. pc[p] \in ReclaimSteps =>
            /\ amount[p] \in Nat \ {0} /\ amount[p] >= target[p] - HostFree'
            /\ \A d \in Containers : order[p][d] = 0 /\ d # job[p] => Spent(d)'
      BY <1>2, <2>1, <2>2, <2>4 DEF Sweeping
    <3>3. pc[p] \in TakeSteps /\ Running(job[p])' =>
            \/ new[p] = cur[p] - amount[p]
            \/ Release = {} => new[p] <= SafetyFloor(floor[p], job[p])'
      <4> SUFFICES ASSUME pc[p] \in TakeSteps, Running(job[p])', Release = {},
                          new[p] # cur[p] - amount[p]
                   PROVE  new[p] <= SafetyFloor(floor[p], job[p])'
        OBVIOUS
      <4>1. job[p] \in Containers
        BY <2>2 DEF TakeSteps, JobSteps, Steps
      <4>2. new[p] <= SafetyFloor(floor[p], job[p])
        BY <1>1, <2>1, <2>4, <4>1 DEF Sweeping
      <4>3. usage'[job[p]] >= usage[job[p]] /\ usage[job[p]] \in Nat
            /\ usage'[job[p]] \in Nat
        BY <1>1, <4>1 DEF TypeOK, BoxOK
      <4> QED BY <1>1, <2>2, <4>2, <4>3 DEF SafetyFloor, Larger, RECLAIM_SAFETY_MARGIN_MB
    <3>4. pc[p] \in TakeSteps => new[p] >= cur[p] - amount[p]
      BY <2>1, <2>4 DEF Sweeping
    <3> QED BY <1>1, <3>1, <3>2, <3>3, <3>4 DEF Sweeping
  <2>5. ASSUME call[p] \in Sweeps PROVE Ordered(p)'
    BY <1>1, <2>1, <2>5 DEF Ordered
  <2> QED BY <1>1, <2>3, <2>4, <2>5 DEF Local
<1>4. Names'
  BY <1>1 DEF BudgetInv, Names
<1> QED BY <1>2, <1>3, <1>4 DEF BudgetInv

LEMMA StillBudget ==
    ASSUME TypeOK, BudgetInv, UNCHANGED vars
    PROVE  BudgetInv'
<1>1. /\ UNCHANGED <<status, limit, usage, created, memFile>>
      /\ UNCHANGED <<call, pc, job, cur, floor, new, amount, target, order>>
  BY DEF vars, box, files, callers, frame, sweep
<1>2. HostAssigned' = HostAssigned
  BY <1>1, HostStill
<1>3. HostFree' = HostFree
  BY <1>2 DEF HostFree
<1>4. \A d \in Containers : Spent(d)' = Spent(d)
  BY <1>1 DEF Spent, Slack, SafetyFloor, Running
<1>5. Exhausted' = Exhausted
  BY <1>4 DEF Exhausted
<1>6. ASSUME NEW p \in Callers PROVE Local(p)'
  <2>1. Local(p)
    BY DEF BudgetInv
  <2>2. Reads(p)'
    BY <1>1, <1>3, <1>5, <2>1 DEF Local, Reads, Running
  <2>3. call[p] \in Sweeps => Sweeping(p)'
    BY <1>1, <1>3, <1>4, <2>1 DEF Local, Sweeping, SafetyFloor, Running
  <2>4. call[p] \in Sweeps => Ordered(p)'
    BY <1>1, <2>1 DEF Local, Ordered
  <2> QED BY <1>1, <2>2, <2>3, <2>4 DEF Local
<1> QED BY <1>1, <1>2, <1>5, <1>6 DEF BudgetInv, Names, OverIsExhausted

LEMMA BudgetInductive ==
    ASSUME ~NameReuse, Lone, Unread = {}
    PROVE  Spec => []BudgetInv
<1>1. Init => BudgetInv
  <2> SUFFICES ASSUME Init PROVE BudgetInv
    OBVIOUS
  <2>1. Names /\ \A p \in Callers : Local(p)
    BY ConstantsAssumption
       DEF Init, Names, Local, Reads, Sweeping, Ordered, PuffSteps, TakeSteps,
           ReclaimSteps, ReclaimHolds
  <2>2. OverIsExhausted
    BY DEF Init, OverIsExhausted, Exhausted, Spent, Slack
  <2> QED BY <2>1, <2>2 DEF BudgetInv
<1>2. /\ FloorInv /\ FloorInv' /\ AloneInv /\ BudgetInv /\ [Next]_vars
      => BudgetInv'
  <2> SUFFICES ASSUME FloorInv, FloorInv', AloneInv, BudgetInv, [Next]_vars
               PROVE  BudgetInv'
    OBVIOUS
  <2>0. TypeOK /\ TypeOK'
    BY DEF FloorInv
  <2>1. ASSUME NEW p \in Callers, Begin(p) PROVE BudgetInv'
    BY <2>0, <2>1, BeginBudget
  <2>2. ASSUME NEW p \in Callers, Step(p) PROVE BudgetInv'
    BY <2>0, <2>2, PuffBudget, ReclaimReads, ReclaimSuspendBudget, ReclaimApplyBudget,
       ReclaimUnlinkBudget, HostBudgetKept, RunBudget, RaiseBudget DEF Step
  <2>3. ASSUME NEW c \in Containers, Outside(c) PROVE BudgetInv'
    BY <2>0, <2>3, OutsideBudget
  <2>4. CASE UNCHANGED vars
    BY <2>0, <2>4, StillBudget
  <2> QED BY <2>1, <2>2, <2>3, <2>4 DEF Next
<1> QED BY <1>1, <1>2, FloorInductive, AloneInductive, PTL DEF Spec

(***************************************************************************)
(* What follows.                                                           *)
(***************************************************************************)

\* A puff never brings the sum of the limits above the budget, whatever error
\* ended the programs before it, whichever containers end and whatever memory
\* workloads take or give back (puff_manager.py:104, 111).  Two callers that have
\* read the same sum break it, and so does one whose sum passes over a container
\* (puff_manager.py:126-129), which Unread = {} excludes.
THEOREM PuffWithinBudgetWhenAlone ==
    ASSUME ~NameReuse, Lone, Unread = {}
    PROVE  Spec => PuffWithinBudget
<1>1. FloorInv /\ FloorInv' /\ BudgetInv /\ [Next]_vars =>
        [\A p \in Callers : PuffApply(p) => HostAssigned' <= HostBudget]_vars
  BY PuffFits DEF FloorInv
<1> QED BY <1>1, FloorInductive, BudgetInductive, PTL DEF Spec, PuffWithinBudget

\* Admission goes above the budget only when no puffed container has anything
\* left to give back (admission.py:56-85), if it reads every limit and no workload
\* gives memory back: what it read before docker run still holds when it runs,
\* however containers grow and end meanwhile.
THEOREM OvercommitWhenAlone ==
    ASSUME ~NameReuse, Lone, Unread = {}, Release = {}
    PROVE  Spec => OvercommitOnlyWhenExhausted
<1>1. FloorInv /\ FloorInv' /\ BudgetInv /\ [Next]_vars =>
        [\A p \in Callers, c \in Containers :
            Run(p, c) /\ HostAssigned' > HostBudget
                => \A d \in Containers : Slack(d) <= 0]_vars
  <2> SUFFICES ASSUME FloorInv, FloorInv', BudgetInv, NEW p \in Callers,
                      NEW c \in Containers, Run(p, c), HostAssigned' > HostBudget
               PROVE  Exhausted
    BY DEF Exhausted, Spent
  <2>1. HostFree >= target[p] \/ Exhausted
    BY DEF Run, BudgetInv, Local, Reads
  <2>2. ~(HostFree >= target[p])
    BY RunAdds, BudgetType DEF HostFree, FloorInv, TypeOK, CallersOK
  <2> QED BY <2>1, <2>2
<1> QED BY <1>1, FloorInductive, BudgetInductive, PTL DEF Spec, OvercommitOnlyWhenExhausted

\* A sweep takes nothing from a container while one that was created later
\* still has something to give (puff_manager.py:257-266), although it read the
\* candidates once, before the first of its updates, if it reads every limit and
\* no workload gives memory back behind it.
THEOREM EarliestJobFirstWhenAlone ==
    ASSUME ~NameReuse, Lone, Unread = {}, Release = {}
    PROVE  Spec => EarliestJobFirst
<1>1. BudgetInv /\ FloorInv =>
        \A p \in Callers : ReclaimApply(p) /\ call[p] \in Sweeps =>
            \A d \in Containers : created[d] > created[job[p]] => Slack(d) <= 0
  <2> SUFFICES ASSUME BudgetInv, FloorInv, NEW p \in Callers, ReclaimApply(p),
                      call[p] \in Sweeps, NEW d \in Containers,
                      created[d] > created[job[p]]
               PROVE  Slack(d) <= 0
    OBVIOUS
  <2>1. Sweeping(p) /\ Ordered(p) /\ pc[p] \in ReclaimSteps
    BY DEF BudgetInv, Local, ReclaimApply, ReclaimSteps, ReclaimHolds
  <2>2. d # job[p]
    BY DEF FloorInv, TypeOK, BoxOK
  <2> QED BY <2>1, <2>2 DEF Sweeping, Ordered, Spent
<1>2. BudgetInv /\ FloorInv =>
        [\A p \in Callers : ReclaimApply(p) /\ call[p] \in Sweeps =>
            \A d \in Containers : created[d] > created[job[p]] => Slack(d) <= 0]_vars
  BY <1>1
<1> QED BY <1>2, FloorInductive, BudgetInductive, PTL DEF Spec, EarliestJobFirst

\* When the daemon triggers, at nine tenths of the host, there is nothing left
\* to take (host_reclaim_daemon.py:12-14, 41): also when programs end half-way and
\* containers end, as long as the programs do not overlap and read every limit, no
\* workload gives memory back and, as in every behaviour of this model, each
\* limited container comes from admission.
THEOREM NothingLeftWhenAlone ==
    ASSUME ~NameReuse, Lone, Unread = {}, Release = {}
    PROVE  Spec => []NothingLeftAtTrigger
<1>1. FloorInv /\ BudgetInv => NothingLeftAtTrigger
  <2> SUFFICES ASSUME FloorInv, BudgetInv, 10 * HostAssigned >= 9 * HostTotal,
                      NEW c \in Containers
               PROVE  Slack(c) <= 0
    BY DEF NothingLeftAtTrigger
  <2>0. TypeOK /\ HostAssigned \in Nat /\ HostTotal \in Nat /\ HostBudget \in Nat
    BY ConstantsAssumption, BudgetType DEF FloorInv
  <2>1. CASE HostAssigned > HostBudget
    BY <2>1 DEF BudgetInv, OverIsExhausted, Exhausted, Spent
  <2>2. CASE ~(HostAssigned > HostBudget)
    <3>1. HostAssigned = 0
      <4>1. 10 * HostBudget <= 8 * HostTotal
        BY <2>0 DEF HostBudget
      <4> QED BY <2>0, <2>2, <4>1
    <3>2. CASE c \in Assigned
      <4>1. limit[c] = 0
        <5>1. HostAssigned = Share(c) + Total(limit, Assigned \ {c})
              /\ Share(c) \in Nat /\ Total(limit, Assigned \ {c}) \in Nat
          BY <2>0, ShareOf
        <5>2. Share(c) = 0
          BY <3>1, <5>1
        <5> QED BY <3>2, <5>2 DEF Share
      <4> QED BY <2>0, <4>1, AtFloor
              DEF Slack, SafetyFloor, Larger, RECLAIM_SAFETY_MARGIN_MB, TypeOK, BoxOK, FilesOK
    <3>3. CASE c \notin Assigned
      <4>1. memFile[c] = None \/ ~Running(c)
        BY <3>3 DEF Assigned, FloorInv, FileFloor, BudgetInv, Names
      <4> QED BY <4>1, NoSlack
    <3> QED BY <3>2, <3>3
  <2> QED BY <2>1, <2>2
<1> QED BY <1>1, FloorInductive, BudgetInductive, PTL

\* While a sweep is at a container nothing else changes what the host has
\* assigned, unless a container ends.
Measured ==
    \A p \in Callers :
        call[p] \in Sweeps /\ pc[p] \in ReclaimSteps \ {"reclaim_unlink"} =>
            amount[p] = target[p] - HostFree

LEMMA MeasuredInductive ==
    ASSUME ~NameReuse, Lone, Unread = {}, Mortal = {}
    PROVE  Spec => []Measured
<1>1. Init => Measured
  BY DEF Init, Measured, ReclaimSteps, ReclaimHolds
<1>2. TypeOK /\ TypeOK' /\ Measured /\ [Next]_vars => Measured'
  <2> SUFFICES ASSUME TypeOK, TypeOK', Measured, [Next]_vars PROVE Measured'
    OBVIOUS
  <2>1. ASSUME NEW p \in Callers, Begin(p)
        PROVE  Measured'
    <3>1. call'[p] \notin Sweeps \/ pc'[p] \in {"host_scan", "run"}
      BY <2>1 DEF Begin, PuffBegin, MonitorUncapped, ReclaimBegin, HostBegin, DaemonBegin,
                  AdmissionBegin, Enter, Sweeps, TypeOK, CallersOK
    <3> QED BY <3>1 DEF Lone, Measured, ReclaimSteps, ReclaimHolds
  <2>2. ASSUME NEW p \in Callers,
               \/ PuffSave(p) \/ PuffGrant(p) \/ PuffRefuse(p) \/ PuffApply(p)
               \/ MonitorSuspend(p) \/ ReclaimApply(p) \/ ReclaimUnlink(p)
               \/ HostScan(p) \/ HostReturn(p) \/ (\E c \in Containers : Run(p, c))
               \/ Raise(p) \/ RaiseInSuspend(p) \/ RaiseInSave(p)
        PROVE  Measured'
    <3>1. pc'[p] \notin ReclaimSteps \ {"reclaim_unlink"}
      BY <2>2 DEF PuffSave, PuffGrant, PuffRefuse, PuffApply, MonitorSuspend, ReclaimApply,
                  ReclaimUnlink, HostScan, HostReturn, Run, Raise, RaiseInSuspend,
                  RaiseInSave, Finish, PuffReturn, ReclaimReturn, Goto, ReclaimSteps,
                  ReclaimHolds, TypeOK, CallersOK
    <3> QED BY <3>1 DEF Lone, Measured
  <2>3. ASSUME NEW p \in Callers,
               ReclaimFile(p) \/ ReclaimLimit(p) \/ ReclaimUsage(p) \/ ReclaimSuspend(p)
        PROVE  Measured'
    <3>1. UNCHANGED <<status, limit>>
      BY <2>3, SuspendEases DEF ReclaimFile, ReclaimLimit, ReclaimUsage, ReclaimSuspend, box
    <3>2. HostFree' = HostFree
      BY <3>1, HostStill DEF HostFree
    <3>3. \/ pc'[p] \in {"idle", "host_next"}
          \/ /\ pc[p] \in ReclaimSteps \ {"reclaim_unlink"}
             /\ UNCHANGED <<call, amount, target>>
      BY <2>3 DEF ReclaimFile, ReclaimLimit, ReclaimUsage, ReclaimSuspend, ReclaimReturn,
                  Finish, Goto, frame, sweep, ReclaimSteps, ReclaimHolds, TypeOK, CallersOK
    <3> QED BY <3>2, <3>3 DEF Lone, Measured, ReclaimSteps, ReclaimHolds
  <2>4. ASSUME NEW p \in Callers, NEW c \in Containers, HostNext(p, c)
        PROVE  Measured'
    <3>1. /\ amount'[p] = target[p] - HostFree /\ UNCHANGED <<target, status, limit>>
      BY <2>4, FreeIsRead DEF HostNext, box, TypeOK, CallersOK
    <3>2. HostFree' = HostFree
      BY <3>1, HostStill DEF HostFree
    <3> QED BY <3>1, <3>2 DEF Lone, Measured
  <2>5. ASSUME NEW c \in Containers, Outside(c)
        PROVE  Measured'
    <3>1. UNCHANGED callers /\ limit' = limit /\ \A d \in Containers : Running(d)' <=> Running(d)
      BY <2>5 DEF Outside, Grow, Shrink, Exit, Remove, SuspendCommand, ResumeCommand, SetThrottled,
                  Running, TypeOK, BoxOK
    <3>2. HostFree' = HostFree
      <4>1. Assigned' = Assigned
        BY <3>1 DEF Assigned
      <4> QED BY <3>1, <4>1, HostAssignedIsTotal DEF HostFree
    <3> QED BY <3>1, <3>2 DEF Measured, callers, frame, sweep
  <2>6. CASE UNCHANGED vars
    <3>1. HostFree' = HostFree
      BY <2>6, HostStill DEF vars, box, HostFree
    <3> QED BY <2>6, <3>1 DEF Measured, vars, callers, frame, sweep
  <2> QED BY <2>1, <2>2, <2>3, <2>4, <2>5, <2>6 DEF Next, Step
<1> QED BY <1>1, <1>2, TypeCorrect, PTL DEF Spec

\* A sweep acts only while room is missing and, unless its update makes the
\* kernel kill the container, never frees more than was asked for
\* (puff_manager.py:304-308).  A container that ends between the sum and the
\* update frees memory the sweep does not see, so none does here, and every limit
\* is read; workloads may give memory back at any time.
THEOREM SweepTakesWhatIsMissingWhenAlone ==
    ASSUME ~NameReuse, Lone, Unread = {}, Mortal = {}
    PROVE  Spec => SweepTakesWhatIsMissing
<1>1. FloorInv /\ FloorInv' /\ BudgetInv /\ Measured =>
        \A p \in Callers : ReclaimApply(p) /\ call[p] \in Sweeps =>
            /\ HostFree < target[p]
            /\ UNCHANGED status => HostFree' <= target[p]
  <2> SUFFICES ASSUME FloorInv, FloorInv', BudgetInv, Measured, NEW p \in Callers,
                      ReclaimApply(p), call[p] \in Sweeps
               PROVE  /\ HostFree < target[p]
                      /\ UNCHANGED status => HostFree' <= target[p]
    OBVIOUS
  <2>0. TypeOK /\ TypeOK'
    BY DEF FloorInv
  <2>1. PICK c \in Containers \ Uncapped : c = job[p]
    BY <2>0, CappedJob DEF ReclaimApply, ReclaimHolds, BudgetInv, TypeOK, CallersOK,
                           JobSteps, Steps
  <2>2. /\ pc[p] = "reclaim_apply" /\ DockerUpdateMemory(c, new[p]) /\ memFile' = memFile
        /\ Reads(p) /\ Sweeping(p)
    BY <2>1 DEF ReclaimApply, files, BudgetInv, Local
  <2>3. /\ amount[p] \in Nat \ {0} /\ amount[p] = target[p] - HostFree
        /\ new[p] >= cur[p] - amount[p]
        /\ Running(c) => cur[p] = limit[c]
    BY <2>1, <2>2 DEF Measured, Sweeping, Reads, TakeSteps, ReclaimSteps, ReclaimHolds
  <2>4. /\ HostFree \in Int /\ HostFree = HostBudget - HostAssigned
        /\ HostFree' = HostBudget - HostAssigned'
        /\ HostBudget \in Nat /\ HostAssigned \in Nat /\ HostAssigned' \in Nat
        /\ target[p] \in Nat /\ new[p] \in Nat /\ cur[p] \in Nat /\ limit[c] \in Nat
    BY <2>0, BudgetType, BudgetTypeNext DEF HostFree, TypeOK, BoxOK, CallersOK
  <2>5. HostFree < target[p]
    BY <2>3, <2>4
  <2>6. ASSUME UNCHANGED status PROVE HostFree' <= target[p]
    <3>1. CASE Running(c)
      <4>1. HostAssigned' = HostAssigned - limit[c] + new[p]
        BY <2>0, <2>1, <2>2, <2>4, <2>6, <3>1, UpdateAssigned DEF Running
      <4> QED BY <2>3, <2>4, <3>1, <4>1
    <3>2. CASE ~Running(c)
      <4>1. HostAssigned' = HostAssigned
        BY <2>2, <3>2, HostStill DEF DockerUpdateMemory, box
      <4> QED BY <2>4, <2>5, <4>1
    <3> QED BY <3>1, <3>2
  <2> QED BY <2>5, <2>6
<1>2. FloorInv /\ FloorInv' /\ BudgetInv /\ Measured =>
        [\A p \in Callers : ReclaimApply(p) /\ call[p] \in Sweeps =>
            /\ HostFree < target[p]
            /\ UNCHANGED status => HostFree' <= target[p]]_vars
  BY <1>1
<1> QED BY <1>2, FloorInductive, BudgetInductive, MeasuredInductive, PTL
        DEF Spec, SweepTakesWhatIsMissing
=============================================================================
