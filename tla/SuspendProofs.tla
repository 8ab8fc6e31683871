--------------------------- MODULE SuspendProofs ---------------------------
(***************************************************************************)
(* What suspend_manager.py guarantees for every number of containers: with *)
(* any number of processes, that no container gets a CPU that is neither   *)
(* its own nor a suspended one's; with one process at a time, that it      *)
(* implements CpuThrottle; and, unless that process is killed half-way     *)
(* through a write_text(), that a suspend can always be undone.            *)
(***************************************************************************)
EXTENDS SuspendManager, TLAPS

(***************************************************************************)
(* Configurations.                                                         *)
(***************************************************************************)

LEMMA ConfigType ==
    /\ Throttled \in Config /\ NoConfig \in Config
    /\ \A k, s \in Config : ResumeUpdate(k, s) \in Config
BY SuspendAssumption DEF Config, Throttled, NoConfig, ResumeUpdate

\* docker update with the arguments of resume gives the CPU that was saved.
LEMMA ResumeUpdateCpu ==
    ASSUME NEW k \in Config, NEW s \in Config
    PROVE  CpuOf(ResumeUpdate(k, s)) = CpuOf(s)
BY DEF Config, CpuOf, ResumeUpdate

\* The cores that are read are the effective ones.
LEMMA EffectiveTwice ==
    ASSUME NEW cs \in SUBSET Cores
    PROVE  Effective(cs) \in SUBSET Cores /\ Effective(Effective(cs)) = Effective(cs)
BY SuspendAssumption DEF Effective

(***************************************************************************)
(* Type correctness.                                                       *)
(***************************************************************************)

LEMMA DoneType ==
    ASSUME TypeOK, NEW a \in Actors, Done(a)
    PROVE  /\ pc' \in [Actors -> Steps]
           /\ job' \in [Actors -> Containers \cup {None}]
           /\ held' \in [Actors -> Config]
           /\ linked' \in [Actors -> BOOLEAN]
           /\ \A b \in Actors : pc'[b] # "idle" => job'[b] \in Containers
BY ConfigType DEF TypeOK, Done, Steps, Entries

LEMMA UpdateType ==
    ASSUME TypeOK, NEW c \in Containers, NEW k \in Config, DockerUpdateCpu(c, k)
    PROVE  /\ status' \in [Containers -> {"absent", "running", "exited", "removed"}]
           /\ orig' \in [Containers -> Config]
           /\ cpu' \in [Containers -> Config]
BY DEF TypeOK, DockerUpdateCpu

LEMMA SuspendStepType ==
    ASSUME TypeOK, NEW a \in Actors,
           \/ IsSuspended(a) \/ Exists(a) \/ ReadCpuMax(a) \/ ReadCpuset(a)
           \/ Truncate(a) \/ Fill(a) \/ Throttle(a)
    PROVE  TypeOK'
<1>0. job[a] \in Containers /\ held[a] \in Config
  BY DEF IsSuspended, Exists, ReadCpuMax, ReadCpuset, Truncate, Fill, Throttle, At, TypeOK
<1>1. CASE IsSuspended(a)
  <2>1. CASE saved[job[a]] # None
    BY <1>1, <2>1, DoneType DEF IsSuspended, TypeOK, box
  <2>2. CASE saved[job[a]] = None
    BY <1>0, <1>1, <2>2 DEF IsSuspended, Goto, TypeOK, box, Steps, Entries
  <2> QED BY <2>1, <2>2
<1>2. CASE Exists(a)
  BY <1>0, <1>2 DEF Exists, Goto, TypeOK, box, Steps
<1>3. CASE ReadCpuMax(a)
  <2>1. cpu[job[a]] \in Config
    BY <1>0 DEF TypeOK
  <2>2. [held[a] EXCEPT !.quota = cpu[job[a]].quota, !.period = cpu[job[a]].period]
          \in Config
    BY <1>0, <2>1 DEF Config
  <2>3. held' \in [Actors -> Config]
    BY <1>3, <2>2 DEF ReadCpuMax, TypeOK
  <2> QED BY <1>0, <1>3, <2>3 DEF ReadCpuMax, Goto, TypeOK, box, Steps
<1>4. CASE ReadCpuset(a)
  <2>1. cpu[job[a]].cpuset \in SUBSET Cores
    BY <1>0 DEF TypeOK, Config
  <2>2. [held[a] EXCEPT !.cpuset = Effective(cpu[job[a]].cpuset)] \in Config
    BY <1>0, <2>1, EffectiveTwice DEF Config
  <2>3. held' \in [Actors -> Config]
    BY <1>4, <2>2 DEF ReadCpuset, TypeOK
  <2> QED BY <1>0, <1>4, <2>3 DEF ReadCpuset, Goto, TypeOK, box, Steps
<1>5. CASE Truncate(a)
  BY <1>0, <1>5 DEF Truncate, Goto, TypeOK, box, Steps
<1>6. CASE Fill(a)
  BY <1>0, <1>6 DEF Fill, Goto, TypeOK, box, Steps
<1>7. CASE Throttle(a)
  BY <1>0, <1>7, ConfigType, UpdateType, DoneType DEF Throttle, TypeOK
<1> QED BY <1>1, <1>2, <1>3, <1>4, <1>5, <1>6, <1>7

LEMMA ResumeStepType ==
    ASSUME TypeOK, NEW a \in Actors,
           ResumeExists(a) \/ Load(a) \/ Restore(a) \/ Unlink(a) \/ Raise(a)
    PROVE  TypeOK'
<1>0. job[a] \in Containers /\ held[a] \in Config
  BY DEF ResumeExists, Load, Restore, Unlink, Raise, At, TypeOK
<1>1. CASE ResumeExists(a)
  <2>1. CASE saved[job[a]] = None
    BY <1>1, <2>1, DoneType DEF ResumeExists, TypeOK, box
  <2>2. CASE saved[job[a]] # None
    BY <1>0, <1>1, <2>2 DEF ResumeExists, Goto, TypeOK, box, Steps
  <2> QED BY <2>1, <2>2
<1>2. CASE Load(a)
  BY <1>0, <1>2 DEF Load, Goto, TypeOK, box, Steps
<1>3. CASE Restore(a)
  <2>1. ResumeUpdate(cpu[job[a]], held[a]) \in Config
    BY <1>0, ConfigType DEF TypeOK
  <2> QED BY <1>0, <1>3, <2>1, UpdateType DEF Restore, Goto, TypeOK, Steps
<1>4. CASE Unlink(a)
  BY <1>0, <1>4, ConfigType DEF Unlink, TypeOK, box, Steps, Entries
<1>5. CASE Raise(a)
  BY <1>5, DoneType DEF Raise, TypeOK, box
<1> QED BY <1>1, <1>2, <1>3, <1>4, <1>5

\* Every reachable state of every instance is typed.
THEOREM SuspendTypeCorrect == Spec => []TypeOK
<1>1. Init => TypeOK
  BY ConfigType DEF Init, TypeOK, Steps, Entries
<1>2. TypeOK /\ [Next]_vars => TypeOK'
  <2> SUFFICES ASSUME TypeOK, [Next]_vars PROVE TypeOK'
    OBVIOUS
  <2>1. ASSUME NEW a \in Actors, Step(a) PROVE TypeOK'
    <3>1. ASSUME NEW c \in Containers, NEW at \in Entries, Begin(a, c, at)
          PROVE  TypeOK'
      BY <3>1 DEF Begin, TypeOK, box, Steps
    <3> QED BY <2>1, <3>1, SuspendStepType, ResumeStepType DEF Step
  <2>2. ASSUME NEW c \in Containers, NEW k \in Configs, Launch(c, k) PROVE TypeOK'
    BY <2>2, SuspendAssumption DEF Launch, TypeOK, actors
  <2>3. ASSUME NEW c \in Containers, End(c) PROVE TypeOK'
    BY <2>3 DEF End, TypeOK, actors
  <2>4. CASE UNCHANGED vars
    BY <2>4 DEF vars, box, actors, TypeOK
  <2> QED BY <2>1, <2>2, <2>3, <2>4 DEF Next
<1> QED BY <1>1, <1>2, PTL DEF Spec

(***************************************************************************)
(* NoForeignCpu, for any number of processes: every configuration that is  *)
(* saved, or that a process holds and may still save or apply, mixes the   *)
(* container's own and a suspended one's, however stale it is.             *)
(***************************************************************************)

OwnBandwidth(k, c) ==
    \/ k.quota = orig[c].quota /\ CpuOf(k).period = CpuOf(orig[c]).period
    \/ k.quota = Throttled.quota /\ CpuOf(k).period = CpuOf(Throttled).period

OwnCores(k, c) ==
    Effective(k.cpuset) \in {Effective(orig[c].cpuset), Effective(Throttled.cpuset)}

Own(k, c) == OwnBandwidth(k, c) /\ OwnCores(k, c)

\* The steps after which a process knows that the container was launched.
Launched == {"read_cpuset", "truncate", "fill", "restore"}

BoxOwn ==
    \A c \in Containers :
        /\ Own(cpu[c], c)
        /\ saved[c] \in Config => Own(saved[c], c) /\ status[c] # "absent"

HoldsOwn(a) ==
    /\ pc[a] \in Launched => status[job[a]] # "absent"
    /\ pc[a] \in Launched => OwnBandwidth(held[a], job[a])
    /\ pc[a] \in Launched \ {"read_cpuset"} => OwnCores(held[a], job[a])

OwnInv == BoxOwn /\ \A a \in Actors : HoldsOwn(a)

\* A step of a leaves the other processes alone.
OnlyActor(a) ==
    \A b \in Actors \ {a} : pc'[b] = pc[b] /\ job'[b] = job[b] /\ held'[b] = held[b]

LEMMA OwnKept ==
    ASSUME OwnInv, UNCHANGED <<status, orig>>, BoxOwn',
           NEW a \in Actors, OnlyActor(a), HoldsOwn(a)'
    PROVE  OwnInv'
BY DEF OwnInv, HoldsOwn, OnlyActor, OwnBandwidth, OwnCores

LEMMA DoneOwn ==
    ASSUME TypeOK, NEW a \in Actors, Done(a)
    PROVE  OnlyActor(a) /\ HoldsOwn(a)'
BY DEF Done, TypeOK, OnlyActor, HoldsOwn, Launched

LEMMA BoxOwnStill ==
    ASSUME BoxOwn, UNCHANGED box, UNCHANGED saved
    PROVE  BoxOwn'
BY DEF BoxOwn, box, Own, OwnBandwidth, OwnCores

\* docker update to a configuration that is own.
LEMMA UpdateOwn ==
    ASSUME TypeOK, BoxOwn, NEW c \in Containers, NEW k \in Config, Own(k, c),
           DockerUpdateCpu(c, k), UNCHANGED saved
    PROVE  BoxOwn' /\ UNCHANGED <<status, orig>>
<1>1. UNCHANGED <<status, orig>>
  BY DEF DockerUpdateCpu
<1>2. ASSUME NEW d \in Containers PROVE Own(cpu[d], d)'
  <2>1. cpu'[d] = cpu[d] \/ (d = c /\ cpu'[d] = k)
    BY DEF DockerUpdateCpu, TypeOK
  <2> QED BY <1>1, <2>1 DEF BoxOwn, Own, OwnBandwidth, OwnCores
<1> QED BY <1>1, <1>2 DEF BoxOwn, Own, OwnBandwidth, OwnCores

LEMMA SuspendStepOwn ==
    ASSUME TypeOK, OwnInv, NEW a \in Actors,
           \/ IsSuspended(a) \/ Exists(a) \/ ReadCpuMax(a) \/ ReadCpuset(a)
           \/ Truncate(a) \/ Fill(a) \/ Throttle(a)
    PROVE  OwnInv'
<1> USE DEF OwnInv
<1>0. job[a] \in Containers /\ held[a] \in Config /\ cpu[job[a]] \in Config
  BY DEF IsSuspended, Exists, ReadCpuMax, ReadCpuset, Truncate, Fill, Throttle, At, TypeOK
<1>1. CASE IsSuspended(a) \/ Exists(a)
  <2>1. BoxOwn' /\ UNCHANGED <<status, orig>>
    BY <1>1, BoxOwnStill DEF IsSuspended, Exists, box
  <2>2. OnlyActor(a) /\ HoldsOwn(a)'
    <3>1. CASE Done(a)
      BY <3>1, DoneOwn
    <3>2. CASE ~Done(a)
      BY <1>1, <3>2
         DEF IsSuspended, Exists, Goto, TypeOK, OnlyActor, HoldsOwn, Launched
    <3> QED BY <3>1, <3>2
  <2> QED BY <2>1, <2>2, OwnKept
<1>2. CASE ReadCpuMax(a)
  <2>1. BoxOwn' /\ UNCHANGED <<status, orig>>
    BY <1>2, BoxOwnStill DEF ReadCpuMax, box
  <2>2. OnlyActor(a)
    BY <1>2 DEF ReadCpuMax, Goto, TypeOK, OnlyActor
  <2>3. /\ pc'[a] = "read_cpuset" /\ job'[a] = job[a]
        /\ held'[a].quota = cpu[job[a]].quota
        /\ held'[a].period = cpu[job[a]].period
    BY <1>0, <1>2 DEF ReadCpuMax, Goto, TypeOK, Config
  <2>4. OwnBandwidth(cpu[job[a]], job[a]) /\ status[job[a]] # "absent"
    BY <1>0, <1>2 DEF ReadCpuMax, BoxOwn, Own, Running
  <2>5. HoldsOwn(a)'
    BY <2>1, <2>3, <2>4 DEF HoldsOwn, Launched, OwnBandwidth, CpuOf
  <2> QED BY <2>1, <2>2, <2>5, OwnKept
<1>3. CASE ReadCpuset(a)
  <2>1. BoxOwn' /\ UNCHANGED <<status, orig>>
    BY <1>3, BoxOwnStill DEF ReadCpuset, box
  <2>2. OnlyActor(a)
    BY <1>3 DEF ReadCpuset, Goto, TypeOK, OnlyActor
  <2>3. /\ pc'[a] = "truncate" /\ job'[a] = job[a]
        /\ held'[a].quota = held[a].quota
        /\ held'[a].period = held[a].period
        /\ held'[a].cpuset = Effective(cpu[job[a]].cpuset)
    BY <1>0, <1>3 DEF ReadCpuset, Goto, TypeOK, Config
  <2>4. OwnBandwidth(held[a], job[a]) /\ status[job[a]] # "absent"
    BY <1>3 DEF ReadCpuset, At, HoldsOwn, Launched
  <2>5. OwnCores(held'[a], job[a])
    <3>1. cpu[job[a]].cpuset \in SUBSET Cores
      BY <1>0 DEF Config
    <3> QED BY <1>0, <2>3, <3>1, EffectiveTwice DEF BoxOwn, Own, OwnCores
  <2>6. OwnBandwidth(held'[a], job[a])
    BY <2>3, <2>4 DEF OwnBandwidth, CpuOf
  <2>7. HoldsOwn(a)'
    BY <2>1, <2>3, <2>4, <2>5, <2>6 DEF HoldsOwn, OwnBandwidth, OwnCores
  <2> QED BY <2>1, <2>2, <2>7, OwnKept
<1>4. CASE Truncate(a)
  <2>1. BoxOwn' /\ UNCHANGED <<status, orig>>
    BY <1>0, <1>4, SuspendAssumption
       DEF Truncate, box, TypeOK, BoxOwn, Own, OwnBandwidth, OwnCores
  <2>2. OnlyActor(a)
    BY <1>4 DEF Truncate, Goto, TypeOK, OnlyActor
  <2>3. pc'[a] = "fill" /\ job'[a] = job[a] /\ held'[a] = held[a]
    BY <1>4 DEF Truncate, Goto, TypeOK
  <2>4. HoldsOwn(a)'
    BY <1>4, <2>1, <2>3
       DEF Truncate, At, HoldsOwn, Launched, OwnBandwidth, OwnCores
  <2> QED BY <2>1, <2>2, <2>4, OwnKept
<1>5. CASE Fill(a)
  <2>1. Own(held[a], job[a]) /\ status[job[a]] # "absent"
    BY <1>5 DEF Fill, At, HoldsOwn, Launched, Own
  <2>2. BoxOwn' /\ UNCHANGED <<status, orig>>
    BY <1>0, <1>5, <2>1 DEF Fill, box, TypeOK, BoxOwn, Own, OwnBandwidth, OwnCores
  <2>3. OnlyActor(a)
    BY <1>5 DEF Fill, Goto, TypeOK, OnlyActor
  <2>4. HoldsOwn(a)'
    BY <1>5 DEF Fill, Goto, TypeOK, HoldsOwn, Launched
  <2> QED BY <2>2, <2>3, <2>4, OwnKept
<1>6. CASE Throttle(a)
  <2>1. Own(Throttled, job[a])
    BY DEF Own, OwnBandwidth, OwnCores
  <2>2. BoxOwn' /\ UNCHANGED <<status, orig>>
    BY <1>0, <1>6, <2>1, ConfigType, UpdateOwn DEF Throttle
  <2> QED BY <1>6, <2>2, DoneOwn, OwnKept DEF Throttle
<1> QED BY <1>1, <1>2, <1>3, <1>4, <1>5, <1>6

LEMMA ResumeStepOwn ==
    ASSUME TypeOK, OwnInv, NEW a \in Actors,
           ResumeExists(a) \/ Load(a) \/ Restore(a) \/ Unlink(a) \/ Raise(a)
    PROVE  OwnInv'
<1> USE DEF OwnInv
<1>0. job[a] \in Containers /\ held[a] \in Config /\ cpu[job[a]] \in Config
  BY DEF ResumeExists, Load, Restore, Unlink, Raise, At, TypeOK
<1>1. CASE ResumeExists(a) \/ Raise(a)
  <2>1. BoxOwn' /\ UNCHANGED <<status, orig>>
    BY <1>1, BoxOwnStill DEF ResumeExists, Raise, box
  <2>2. OnlyActor(a) /\ HoldsOwn(a)'
    <3>1. CASE Done(a)
      BY <3>1, DoneOwn
    <3>2. CASE ~Done(a)
      BY <1>1, <3>2
         DEF ResumeExists, Raise, Goto, TypeOK, OnlyActor, HoldsOwn, Launched
    <3> QED BY <3>1, <3>2
  <2> QED BY <2>1, <2>2, OwnKept
<1>2. CASE Load(a)
  <2>1. BoxOwn' /\ UNCHANGED <<status, orig>>
    BY <1>2, BoxOwnStill DEF Load, box
  <2>2. OnlyActor(a)
    BY <1>2 DEF Load, Goto, TypeOK, OnlyActor
  <2>3. Own(saved[job[a]], job[a]) /\ status[job[a]] # "absent"
    BY <1>0, <1>2 DEF Load, BoxOwn, TypeOK
  <2>4. job'[a] = job[a] /\ held'[a] = saved[job[a]]
    BY <1>2 DEF Load, Goto, TypeOK
  <2>5. HoldsOwn(a)'
    BY <2>1, <2>3, <2>4 DEF HoldsOwn, Own, OwnBandwidth, OwnCores
  <2> QED BY <2>1, <2>2, <2>5, OwnKept
<1>3. CASE Restore(a)
  <2> DEFINE k == ResumeUpdate(cpu[job[a]], held[a])
  <2>1. k \in Config /\ CpuOf(k) = CpuOf(held[a])
    BY <1>0, ConfigType, ResumeUpdateCpu
  <2>2. k.quota = held[a].quota /\ k.cpuset = held[a].cpuset
    BY DEF ResumeUpdate
  <2>3. Own(held[a], job[a])
    BY <1>3 DEF Restore, At, HoldsOwn, Launched, Own
  <2>4. Own(k, job[a])
    BY <2>1, <2>2, <2>3 DEF Own, OwnBandwidth, OwnCores
  <2>5. BoxOwn' /\ UNCHANGED <<status, orig>>
    BY <1>0, <1>3, <2>1, <2>4, UpdateOwn DEF Restore
  <2>6. OnlyActor(a) /\ HoldsOwn(a)'
    BY <1>3 DEF Restore, Goto, TypeOK, OnlyActor, HoldsOwn, Launched
  <2> QED BY <2>5, <2>6, OwnKept
<1>4. CASE Unlink(a)
  <2>1. BoxOwn' /\ UNCHANGED <<status, orig>>
    BY <1>0, <1>4, SuspendAssumption
       DEF Unlink, box, TypeOK, BoxOwn, Own, OwnBandwidth, OwnCores
  <2>2. OnlyActor(a) /\ HoldsOwn(a)'
    BY <1>4 DEF Unlink, TypeOK, OnlyActor, HoldsOwn, Launched
  <2> QED BY <2>1, <2>2, OwnKept
<1> QED BY <1>1, <1>2, <1>3, <1>4

LEMMA OutsideOwn ==
    ASSUME TypeOK, OwnInv, NEW c \in Containers,
           (\E k \in Configs : Launch(c, k)) \/ End(c)
    PROVE  OwnInv'
<1> USE DEF OwnInv
<1>1. ASSUME NEW k \in Configs, Launch(c, k) PROVE OwnInv'
  <2>1. /\ status[c] = "absent"
        /\ \A d \in Containers \ {c} :
              orig'[d] = orig[d] /\ cpu'[d] = cpu[d] /\ status'[d] = status[d]
        /\ orig'[c] = k /\ cpu'[c] = k
        /\ UNCHANGED <<saved, pc, job, held>>
    BY <1>1 DEF Launch, actors, TypeOK
  <2>2. BoxOwn'
    BY <2>1 DEF BoxOwn, Own, OwnBandwidth, OwnCores
  <2>3. ASSUME NEW a \in Actors PROVE HoldsOwn(a)'
    <3>1. CASE pc[a] \in Launched
      <4>1. job[a] \in Containers \ {c}
        BY <2>1, <3>1 DEF HoldsOwn, TypeOK, Launched
      <4> QED BY <2>1, <4>1 DEF HoldsOwn, OwnBandwidth, OwnCores
    <3>2. CASE pc[a] \notin Launched
      BY <2>1, <3>2 DEF HoldsOwn
    <3> QED BY <3>1, <3>2
  <2> QED BY <2>2, <2>3
<1>2. CASE End(c)
  <2>1. /\ UNCHANGED <<orig, cpu, saved, pc, job, held>>
        /\ \A d \in Containers : status[d] # "absent" => status'[d] # "absent"
    BY <1>2 DEF End, actors, TypeOK
  <2>2. BoxOwn'
    BY <2>1 DEF BoxOwn, Own, OwnBandwidth, OwnCores
  <2>3. ASSUME NEW a \in Actors PROVE HoldsOwn(a)'
    BY <2>1 DEF HoldsOwn, OwnBandwidth, OwnCores, TypeOK, Launched
  <2> QED BY <2>2, <2>3
<1> QED BY <1>1, <1>2

\* Whatever the interleaving of suspends and resumes, and whatever fails, no
\* container runs with CPU that is neither its own nor a suspended one's
\* (suspend_manager.py:7-8).
THEOREM NoForeignCpuEver == Spec => []NoForeignCpu
<1>1. Init => OwnInv
  BY SuspendAssumption
     DEF Init, OwnInv, BoxOwn, HoldsOwn, Launched, Own, OwnBandwidth, OwnCores
<1>2. TypeOK /\ OwnInv /\ [Next]_vars => OwnInv'
  <2> SUFFICES ASSUME TypeOK, OwnInv, [Next]_vars PROVE OwnInv'
    OBVIOUS
  <2>1. ASSUME NEW a \in Actors, Step(a) PROVE OwnInv'
    <3>1. ASSUME NEW c \in Containers, NEW at \in Entries, Begin(a, c, at)
          PROVE  OwnInv'
      <4>1. BoxOwn' /\ UNCHANGED <<status, orig>>
        BY <3>1, BoxOwnStill DEF Begin, OwnInv, box
      <4>2. OnlyActor(a) /\ HoldsOwn(a)'
        BY <3>1 DEF Begin, TypeOK, OnlyActor, HoldsOwn, Launched, Entries
      <4> QED BY <4>1, <4>2, OwnKept
    <3> QED BY <2>1, <3>1, SuspendStepOwn, ResumeStepOwn DEF Step
  <2>2. ASSUME NEW c \in Containers, NEW k \in Configs, Launch(c, k) PROVE OwnInv'
    BY <2>2, OutsideOwn
  <2>3. ASSUME NEW c \in Containers, End(c) PROVE OwnInv'
    BY <2>3, OutsideOwn
  <2>4. CASE UNCHANGED vars
    BY <2>4 DEF vars, box, actors, OwnInv, BoxOwn, HoldsOwn, Own, OwnBandwidth, OwnCores
  <2> QED BY <2>1, <2>2, <2>3, <2>4 DEF Next
<1>3. OwnInv => NoForeignCpu
  BY DEF OwnInv, BoxOwn, Own, OwnBandwidth, OwnCores, NoForeignCpu, CpuOf
<1> QED BY <1>1, <1>2, <1>3, SuspendTypeCorrect, PTL DEF Spec

(***************************************************************************)
(* One process at a time, suspend_manager.py implements CpuThrottle,       *)
(* whatever fails and wherever the process is killed, and a suspend can be *)
(* undone unless it was killed in the middle of writing its file.          *)
(***************************************************************************)

Lone == \A a, b \in Actors : a = b

\* The saved configuration is the original one, and a running container is
\* at its own CPU or at a suspended one's with its file in place.
BoxTrue ==
    \A c \in Containers :
        /\ status[c] = "absent" => saved[c] = None
        /\ saved[c] \in Config => CpuOf(saved[c]) = CpuOf(orig[c])
        /\ Running(c) => \/ CpuOf(cpu[c]) = CpuOf(orig[c])
                         \/ CpuOf(cpu[c]) = CpuOf(Throttled) /\ saved[c] # None

\* What the only process knows at each step about the container it works on.
Knows(a) ==
    LET c == job[a]
        h == CpuOf(held[a])
        o == CpuOf(orig[c])
    IN  /\ pc[a] \in {"read_cpu_max", "read_cpuset", "truncate"} => saved[c] = None
        /\ pc[a] \in {"read_cpuset", "truncate", "fill"} => status[c] # "absent"
        /\ pc[a] = "read_cpuset" => h.quota = o.quota /\ h.period = o.period
        /\ pc[a] \in {"truncate", "fill"} => h = o
        /\ pc[a] = "fill" => saved[c] = Torn
        /\ pc[a] \in {"throttle", "load"} => saved[c] # None
        /\ pc[a] \in {"restore", "unlink"} => saved[c] = held[a]
        /\ pc[a] = "unlink" /\ Running(c) => CpuOf(cpu[c]) = o

AloneInv == BoxTrue /\ \A a \in Actors : Knows(a)

LEMMA AloneKept ==
    ASSUME Lone, NEW a \in Actors, BoxTrue', Knows(a)'
    PROVE  AloneInv'
BY DEF Lone, AloneInv

LEMMA BoxTrueStill ==
    ASSUME BoxTrue, UNCHANGED box, UNCHANGED saved
    PROVE  BoxTrue'
BY DEF BoxTrue, box, Running

LEMMA DoneKnows ==
    ASSUME TypeOK, NEW a \in Actors, Done(a)
    PROVE  Knows(a)'
BY DEF Done, TypeOK, Knows

\* A file was opened, filled or deleted, and the container stays as it is.
LEMMA SavedTrue ==
    ASSUME TypeOK, BoxTrue, NEW c \in Containers, UNCHANGED box,
           NEW f \in Config \cup {None, Torn}, saved' = [saved EXCEPT ![c] = f],
           f # None => status[c] # "absent",
           f \in Config => CpuOf(f) = CpuOf(orig[c]),
           f = None /\ Running(c) => CpuOf(cpu[c]) = CpuOf(orig[c])
    PROVE  BoxTrue'
BY DEF TypeOK, BoxTrue, box, Running

\* docker update to the original CPU, or to 1% with a file in place.
LEMMA UpdateTrue ==
    ASSUME TypeOK, BoxTrue, NEW c \in Containers, NEW k \in Config,
           DockerUpdateCpu(c, k), UNCHANGED saved,
           \/ CpuOf(k) = CpuOf(orig[c])
           \/ CpuOf(k) = CpuOf(Throttled) /\ saved[c] # None
    PROVE  BoxTrue'
<1>1. /\ UNCHANGED <<status, orig, saved>>
      /\ \A d \in Containers : cpu'[d] = cpu[d] \/ (d = c /\ cpu'[d] = k)
  BY DEF DockerUpdateCpu, TypeOK
<1> QED BY <1>1 DEF BoxTrue, Running

LEMMA SuspendStepAlone ==
    ASSUME Lone, TypeOK, AloneInv, NEW a \in Actors,
           \/ IsSuspended(a) \/ Exists(a) \/ ReadCpuMax(a) \/ ReadCpuset(a)
           \/ Truncate(a) \/ Fill(a) \/ Throttle(a)
    PROVE  AloneInv'
<1> USE DEF AloneInv
<1>0. job[a] \in Containers /\ held[a] \in Config /\ cpu[job[a]] \in Config
  BY DEF IsSuspended, Exists, ReadCpuMax, ReadCpuset, Truncate, Fill, Throttle, At, TypeOK
<1>1. CASE IsSuspended(a) \/ Exists(a)
  <2>1. BoxTrue'
    BY <1>1, BoxTrueStill DEF IsSuspended, Exists
  <2>2. Knows(a)'
    <3>1. CASE Done(a)
      BY <3>1, DoneKnows
    <3>2. CASE ~Done(a)
      BY <1>1, <3>2 DEF IsSuspended, Exists, Goto, TypeOK, Knows
    <3> QED BY <3>1, <3>2
  <2> QED BY <2>1, <2>2, AloneKept
<1>2. CASE ReadCpuMax(a)
  <2>1. BoxTrue'
    BY <1>2, BoxTrueStill DEF ReadCpuMax
  <2>2. /\ pc'[a] = "read_cpuset" /\ job'[a] = job[a]
        /\ held'[a].quota = cpu[job[a]].quota
        /\ held'[a].period = cpu[job[a]].period
        /\ UNCHANGED <<box, saved>>
    BY <1>0, <1>2 DEF ReadCpuMax, Goto, TypeOK, Config
  <2>3. saved[job[a]] = None /\ Running(job[a])
    BY <1>2 DEF ReadCpuMax, At, Knows
  <2>4. CpuOf(cpu[job[a]]) = CpuOf(orig[job[a]])
    BY <1>0, <2>3 DEF BoxTrue
  <2>5. Knows(a)'
    BY <2>2, <2>3, <2>4 DEF Knows, CpuOf, box, Running
  <2> QED BY <2>1, <2>5, AloneKept
<1>3. CASE ReadCpuset(a)
  <2>1. BoxTrue'
    BY <1>3, BoxTrueStill DEF ReadCpuset
  <2>2. /\ pc'[a] = "truncate" /\ job'[a] = job[a]
        /\ held'[a].quota = held[a].quota
        /\ held'[a].period = held[a].period
        /\ held'[a].cpuset = Effective(cpu[job[a]].cpuset)
        /\ UNCHANGED <<box, saved>>
    BY <1>0, <1>3 DEF ReadCpuset, Goto, TypeOK, Config
  <2>3. /\ saved[job[a]] = None /\ Running(job[a])
        /\ CpuOf(held[a]).quota = CpuOf(orig[job[a]]).quota
        /\ CpuOf(held[a]).period = CpuOf(orig[job[a]]).period
    BY <1>3 DEF ReadCpuset, At, Knows
  <2>4. CpuOf(cpu[job[a]]) = CpuOf(orig[job[a]])
    BY <1>0, <2>3 DEF BoxTrue
  <2>5. CpuOf(held'[a]) = CpuOf(orig[job[a]])
    <3>1. Effective(held'[a].cpuset) = Effective(cpu[job[a]].cpuset)
      BY <1>0, <2>2, EffectiveTwice DEF Config
    <3> QED BY <2>2, <2>3, <2>4, <3>1 DEF CpuOf
  <2>6. Knows(a)'
    BY <2>2, <2>3, <2>5 DEF Knows, box, Running
  <2> QED BY <2>1, <2>6, AloneKept
<1>4. CASE Truncate(a)
  <2>1. saved[job[a]] = None /\ status[job[a]] # "absent"
        /\ CpuOf(held[a]) = CpuOf(orig[job[a]])
    BY <1>4 DEF Truncate, At, Knows
  <2>2. BoxTrue'
    BY <1>0, <1>4, <2>1, SavedTrue, SuspendAssumption DEF Truncate
  <2>3. /\ pc'[a] = "fill" /\ job'[a] = job[a] /\ held'[a] = held[a]
        /\ saved'[job[a]] = Torn /\ UNCHANGED box
    BY <1>0, <1>4 DEF Truncate, Goto, TypeOK
  <2>4. Knows(a)'
    BY <2>1, <2>3 DEF Knows, box
  <2> QED BY <2>2, <2>4, AloneKept
<1>5. CASE Fill(a)
  <2>1. saved[job[a]] = Torn /\ status[job[a]] # "absent"
        /\ CpuOf(held[a]) = CpuOf(orig[job[a]])
    BY <1>5 DEF Fill, At, Knows
  <2>2. BoxTrue'
    <3>1. CASE linked[a]
      BY <1>0, <1>5, <2>1, <3>1, SavedTrue, SuspendAssumption DEF Fill
    <3>2. CASE ~linked[a]
      BY <1>5, <3>2, BoxTrueStill DEF Fill
    <3> QED BY <3>1, <3>2
  <2>3. saved'[job[a]] # None
    BY <1>0, <1>5, <2>1, SuspendAssumption DEF Fill, TypeOK
  <2>4. pc'[a] = "throttle" /\ job'[a] = job[a]
    BY <1>5 DEF Fill, Goto, TypeOK
  <2>5. Knows(a)'
    BY <2>3, <2>4 DEF Knows
  <2> QED BY <2>2, <2>5, AloneKept
<1>6. CASE Throttle(a)
  <2>1. saved[job[a]] # None
    BY <1>6 DEF Throttle, At, Knows
  <2>2. BoxTrue'
    BY <1>0, <1>6, <2>1, ConfigType, UpdateTrue DEF Throttle
  <2> QED BY <1>6, <2>2, DoneKnows, AloneKept DEF Throttle
<1> QED BY <1>1, <1>2, <1>3, <1>4, <1>5, <1>6

\* What resume() applies is the container's own CPU.
LEMMA RestoredCpu ==
    ASSUME TypeOK, AloneInv, NEW a \in Actors, Restore(a)
    PROVE  /\ job[a] \in Containers
           /\ ResumeUpdate(cpu[job[a]], held[a]) \in Config
           /\ CpuOf(ResumeUpdate(cpu[job[a]], held[a])) = CpuOf(orig[job[a]])
           /\ saved[job[a]] = held[a]
<1>1. job[a] \in Containers /\ held[a] \in Config /\ cpu[job[a]] \in Config
  BY DEF Restore, At, TypeOK
<1>2. saved[job[a]] = held[a]
  BY DEF Restore, At, AloneInv, Knows
<1>3. CpuOf(held[a]) = CpuOf(orig[job[a]])
  BY <1>1, <1>2 DEF AloneInv, BoxTrue
<1> QED BY <1>1, <1>2, <1>3, ConfigType, ResumeUpdateCpu

LEMMA ResumeStepAlone ==
    ASSUME Lone, TypeOK, AloneInv, NEW a \in Actors,
           ResumeExists(a) \/ Load(a) \/ Restore(a) \/ Unlink(a) \/ Raise(a)
    PROVE  AloneInv'
<1> USE DEF AloneInv
<1>0. job[a] \in Containers /\ held[a] \in Config
  BY DEF ResumeExists, Load, Restore, Unlink, Raise, At, TypeOK
<1>1. CASE ResumeExists(a) \/ Raise(a)
  <2>1. BoxTrue'
    BY <1>1, BoxTrueStill DEF ResumeExists, Raise
  <2>2. Knows(a)'
    <3>1. CASE Done(a)
      BY <3>1, DoneKnows
    <3>2. CASE ~Done(a)
      BY <1>1, <3>2 DEF ResumeExists, Raise, Goto, TypeOK, Knows
    <3> QED BY <3>1, <3>2
  <2> QED BY <2>1, <2>2, AloneKept
<1>2. CASE Load(a)
  <2>1. BoxTrue'
    BY <1>2, BoxTrueStill DEF Load
  <2>2. /\ pc'[a] = "restore" /\ job'[a] = job[a] /\ held'[a] = saved[job[a]]
        /\ UNCHANGED saved
    BY <1>2 DEF Load, Goto, TypeOK
  <2>3. Knows(a)'
    BY <2>2 DEF Knows
  <2> QED BY <2>1, <2>3, AloneKept
<1>3. CASE Restore(a)
  <2> DEFINE k == ResumeUpdate(cpu[job[a]], held[a])
  <2>1. k \in Config /\ CpuOf(k) = CpuOf(orig[job[a]]) /\ saved[job[a]] = held[a]
    BY <1>3, RestoredCpu
  <2>2. BoxTrue'
    BY <1>0, <1>3, <2>1, UpdateTrue DEF Restore
  <2>3. /\ pc'[a] = "unlink" /\ job'[a] = job[a] /\ held'[a] = held[a]
        /\ UNCHANGED <<status, orig, saved>>
    BY <1>3 DEF Restore, DockerUpdateCpu, Goto, TypeOK
  <2>4. Running(job[a]) => cpu'[job[a]] = k
    BY <1>0, <1>3 DEF Restore, DockerUpdateCpu, TypeOK
  <2>5. Knows(a)'
    BY <2>1, <2>3, <2>4 DEF Knows, Running
  <2> QED BY <2>2, <2>5, AloneKept
<1>4. CASE Unlink(a)
  <2>1. Running(job[a]) => CpuOf(cpu[job[a]]) = CpuOf(orig[job[a]])
    BY <1>4 DEF Unlink, At, Knows
  <2>2. BoxTrue'
    BY <1>0, <1>4, <2>1, SavedTrue, SuspendAssumption DEF Unlink
  <2>3. pc'[a] = "idle"
    BY <1>4 DEF Unlink, TypeOK
  <2>4. Knows(a)'
    BY <2>3 DEF Knows
  <2> QED BY <2>2, <2>4, AloneKept
<1> QED BY <1>1, <1>2, <1>3, <1>4

LEMMA OutsideAlone ==
    ASSUME TypeOK, AloneInv, NEW c \in Containers,
           (\E k \in Configs : Launch(c, k)) \/ End(c)
    PROVE  AloneInv'
<1> USE DEF AloneInv
<1>1. ASSUME NEW k \in Configs, Launch(c, k) PROVE AloneInv'
  <2>1. /\ status[c] = "absent" /\ saved[c] = None
        /\ \A d \in Containers \ {c} :
              orig'[d] = orig[d] /\ cpu'[d] = cpu[d] /\ status'[d] = status[d]
        /\ orig'[c] = k /\ cpu'[c] = k /\ status'[c] = "running"
        /\ UNCHANGED <<saved, pc, job, held>>
    BY <1>1 DEF Launch, actors, TypeOK, BoxTrue
  <2>2. BoxTrue'
    BY <2>1, SuspendAssumption DEF BoxTrue, Running
  <2>3. ASSUME NEW a \in Actors PROVE Knows(a)'
    <3>1. CASE pc[a] = "idle"
      BY <2>1, <3>1 DEF Knows
    <3>2. CASE pc[a] # "idle" /\ job[a] # c
      BY <2>1, <3>2 DEF Knows, TypeOK, Running
    <3>3. CASE pc[a] # "idle" /\ job[a] = c
      BY <2>1, <3>3, SuspendAssumption DEF Knows, TypeOK
    <3> QED BY <3>1, <3>2, <3>3
  <2> QED BY <2>2, <2>3
<1>2. CASE End(c)
  <2>1. /\ UNCHANGED <<orig, cpu, saved, pc, job, held>>
        /\ \A d \in Containers : /\ Running(d)' => Running(d)
                                 /\ status[d] # "absent" <=> status'[d] # "absent"
    BY <1>2 DEF End, actors, TypeOK, Running
  <2>2. BoxTrue'
    BY <2>1 DEF BoxTrue
  <2>3. ASSUME NEW a \in Actors PROVE Knows(a)'
    BY <2>1 DEF Knows, TypeOK
  <2> QED BY <2>2, <2>3
<1> QED BY <1>1, <1>2

\* AloneInv holds from the first state on and every step keeps it.
LEMMA AloneInductive ==
    ASSUME Lone
    PROVE  Spec => []AloneInv
<1>1. Init => AloneInv
  BY SuspendAssumption DEF Init, AloneInv, BoxTrue, Knows, Running
<1>2. TypeOK /\ AloneInv /\ [Next]_vars => AloneInv'
  <2> SUFFICES ASSUME TypeOK, AloneInv, [Next]_vars PROVE AloneInv'
    OBVIOUS
  <2>1. ASSUME NEW a \in Actors, Step(a) PROVE AloneInv'
    <3>1. ASSUME NEW c \in Containers, NEW at \in Entries, Begin(a, c, at)
          PROVE  AloneInv'
      <4>1. BoxTrue'
        BY <3>1, BoxTrueStill DEF Begin, AloneInv
      <4>2. Knows(a)'
        BY <3>1 DEF Begin, TypeOK, Knows, Entries
      <4> QED BY <4>1, <4>2, AloneKept
    <3> QED BY <2>1, <3>1, SuspendStepAlone, ResumeStepAlone DEF Step
  <2>2. ASSUME NEW c \in Containers, NEW k \in Configs, Launch(c, k) PROVE AloneInv'
    BY <2>2, OutsideAlone
  <2>3. ASSUME NEW c \in Containers, End(c) PROVE AloneInv'
    BY <2>3, OutsideAlone
  <2>4. CASE UNCHANGED vars
    BY <2>4 DEF vars, box, actors, AloneInv, BoxTrue, Knows, Running
  <2> QED BY <2>1, <2>2, <2>3, <2>4 DEF Next
<1> QED BY <1>1, <1>2, SuspendTypeCorrect, PTL DEF Spec

\* A state file that is empty is being written, and its container has not been
\* throttled yet.
TornInv ==
    \A c \in Containers : saved[c] = Torn =>
        /\ Running(c) => CpuOf(cpu[c]) = CpuOf(orig[c])
        /\ \E a \in Actors : pc[a] = "fill" /\ job[a] = c /\ linked[a]

NoneTorn == \A c \in Containers : saved[c] # Torn

LEMMA TornNever ==
    ASSUME NoneTorn' PROVE TornInv'
BY DEF NoneTorn, TornInv

\* Only the process that writes a file sees it empty.
LEMMA NoneTornElsewhere ==
    ASSUME Lone, TornInv, NEW a \in Actors, pc[a] # "fill" \/ ~linked[a]
    PROVE  NoneTorn
BY DEF Lone, TornInv, NoneTorn

LEMMA StepTorn ==
    ASSUME Lone, "fill" \notin Faults, TypeOK, AloneInv, TornInv,
           NEW a \in Actors, Step(a)
    PROVE  TornInv'
<1>1. CASE Truncate(a)
  <2>1. NoneTorn /\ job[a] \in Containers
    BY <1>1, NoneTornElsewhere DEF Truncate, At, TypeOK
  <2>2. Running(job[a]) => CpuOf(cpu[job[a]]) = CpuOf(orig[job[a]])
    BY <1>1, <2>1 DEF Truncate, At, AloneInv, Knows, BoxTrue
  <2>3. /\ pc'[a] = "fill" /\ job'[a] = job[a] /\ linked'[a]
        /\ UNCHANGED box
        /\ \A c \in Containers \ {job[a]} : saved'[c] # Torn
    BY <1>1, <2>1 DEF Truncate, Goto, TypeOK, NoneTorn
  <2> QED BY <2>2, <2>3 DEF TornInv, box, Running
<1>2. CASE Fill(a)
  <2>1. job[a] \in Containers /\ held[a] # Torn
    BY <1>2, SuspendAssumption DEF Fill, At, TypeOK
  <2>2. NoneTorn'
    <3>1. CASE linked[a]
      <4>1. ASSUME NEW c \in Containers, saved[c] = Torn PROVE c = job[a]
        <5>1. PICK b \in Actors : job[b] = c
          BY <4>1 DEF TornInv
        <5>2. b = a
          BY DEF Lone
        <5> QED BY <5>1, <5>2
      <4> QED BY <1>2, <2>1, <3>1, <4>1 DEF Fill, TypeOK, NoneTorn
    <3>2. CASE ~linked[a]
      BY <1>2, <3>2, NoneTornElsewhere DEF Fill, NoneTorn
    <3> QED BY <3>1, <3>2
  <2> QED BY <2>2, TornNever
<1>3. CASE Unlink(a)
  <2>1. NoneTorn /\ job[a] \in Containers
    BY <1>3, NoneTornElsewhere DEF Unlink, At, TypeOK
  <2>2. NoneTorn'
    BY <1>3, <2>1, SuspendAssumption DEF Unlink, TypeOK, NoneTorn
  <2> QED BY <2>2, TornNever
<1>4. CASE ~Truncate(a) /\ ~Fill(a) /\ ~Unlink(a)
  <2>1. UNCHANGED saved
    BY <1>4 DEF Step, Begin, IsSuspended, Exists, ReadCpuMax, ReadCpuset, Throttle,
                ResumeExists, Load, Restore, Raise
  <2>2. pc[a] # "fill"
    BY <1>4 DEF Step, Begin, IsSuspended, Exists, ReadCpuMax, ReadCpuset, Throttle,
                ResumeExists, Load, Restore, Raise, Stuck, At
  <2>3. NoneTorn'
    BY <2>1, <2>2, NoneTornElsewhere DEF NoneTorn
  <2> QED BY <2>3, TornNever
<1> QED BY <1>1, <1>2, <1>3, <1>4

LEMMA OutsideTorn ==
    ASSUME TypeOK, AloneInv, TornInv, NEW c \in Containers,
           (\E k \in Configs : Launch(c, k)) \/ End(c)
    PROVE  TornInv'
<1>1. ASSUME NEW k \in Configs, Launch(c, k) PROVE TornInv'
  <2>1. /\ saved[c] # Torn
        /\ \A d \in Containers \ {c} :
              orig'[d] = orig[d] /\ cpu'[d] = cpu[d] /\ status'[d] = status[d]
        /\ UNCHANGED <<saved, pc, job, linked>>
    BY <1>1, SuspendAssumption DEF Launch, actors, TypeOK, AloneInv, BoxTrue
  <2> QED BY <2>1 DEF TornInv, Running
<1>2. CASE End(c)
  <2>1. /\ UNCHANGED <<orig, cpu, saved, pc, job, linked>>
        /\ \A d \in Containers : Running(d)' => Running(d)
    BY <1>2 DEF End, actors, TypeOK, Running
  <2> QED BY <2>1 DEF TornInv
<1> QED BY <1>1, <1>2

\* With one process that no kill meets between the halves of a write_text(),
\* TornInv holds from the first state on and every step keeps it.
LEMMA TornInductive ==
    ASSUME Lone, "fill" \notin Faults
    PROVE  Spec => []TornInv
<1>1. Init => TornInv
  BY SuspendAssumption DEF Init, TornInv
<1>2. TypeOK /\ AloneInv /\ TornInv /\ [Next]_vars => TornInv'
  <2> SUFFICES ASSUME TypeOK, AloneInv, TornInv, [Next]_vars PROVE TornInv'
    OBVIOUS
  <2>1. CASE UNCHANGED vars
    BY <2>1 DEF vars, box, actors, TornInv, Running
  <2> QED BY <2>1, StepTorn, OutsideTorn DEF Next
<1> QED BY <1>1, <1>2, AloneInductive, SuspendTypeCorrect, PTL DEF Spec

\* One process at a time, which may fail or be killed at any step but between
\* the halves of a write_text(): a suspended container's state file is complete
\* and holds the CPU it was launched with (suspend_manager.py:7-8, 83).  After a
\* kill there, the next suspend() throttles the container on an empty file.
THEOREM OriginalKeptWhenAlone ==
    ASSUME Lone, "fill" \notin Faults
    PROVE  Spec => []OriginalKept
<1>1. TypeOK /\ AloneInv /\ TornInv => OriginalKept
  BY DEF TypeOK, AloneInv, BoxTrue, TornInv, OriginalKept
<1> QED BY <1>1, AloneInductive, TornInductive, SuspendTypeCorrect, PTL

\* One process at a time: a resume that reaches its last step has given the
\* container its own CPU back (suspend_manager.py:100).
THEOREM ResumeRestoresWhenAlone ==
    ASSUME Lone
    PROVE  Spec => ResumeRestores
<1>1. AloneInv => \A a \in Actors : Unlink(a) /\ Running(job[a])
                      => CpuOf(cpu[job[a]]) = CpuOf(orig[job[a]])
  BY DEF AloneInv, Knows, Unlink, At
<1>2. AloneInv /\ [Next]_vars =>
          [\A a \in Actors : Unlink(a) /\ Running(job[a])
              => CpuOf(cpu[job[a]]) = CpuOf(orig[job[a]])]_vars
  BY <1>1
<1> QED BY <1>2, AloneInductive, PTL DEF Spec, ResumeRestores

(***************************************************************************)
(* Every step of suspend_manager.py is a step of CpuThrottle or leaves the *)
(* CPU of every container what it is.                                      *)
(***************************************************************************)

LEMMA UpdateImplements ==
    ASSUME TypeOK, NEW c \in Containers, NEW k \in Config, DockerUpdateCpu(c, k),
           CpuOf(k) \in {CpuOf(orig[c]), CpuOf(Throttled)}
    PROVE  [Promise!Next]_Promise!vars
<1> DEFINE given == [d \in Containers |-> CpuOf(orig[d])]
           share == [d \in Containers |-> CpuOf(cpu[d])]
<1>1. CASE ~Running(c)
  <2>1. UNCHANGED <<status, orig, cpu>>
    BY <1>1 DEF DockerUpdateCpu
  <2> QED BY <2>1 DEF Promise!vars
<1>2. CASE Running(c)
  <2>1. status' = status /\ orig' = orig /\ cpu' = [cpu EXCEPT ![c] = k]
    BY <1>2 DEF DockerUpdateCpu
  <2>2. given' = given /\ share' = [share EXCEPT ![c] = CpuOf(k)]
    BY <2>1 DEF TypeOK
  <2>3. status[c] = "running"
    BY <1>2 DEF Running
  <2>4. CASE CpuOf(k) = CpuOf(Throttled)
    <3>1. Promise!Suspend(c)
      BY <2>1, <2>2, <2>3, <2>4 DEF Promise!Suspend
    <3> QED BY <3>1 DEF Promise!Next
  <2>5. CASE CpuOf(k) = CpuOf(orig[c])
    <3>1. Promise!Resume(c)
      BY <2>1, <2>2, <2>3, <2>5 DEF Promise!Resume
    <3> QED BY <3>1 DEF Promise!Next
  <2> QED BY <2>4, <2>5
<1> QED BY <1>1, <1>2

LEMMA StillImplements ==
    ASSUME UNCHANGED box PROVE [Promise!Next]_Promise!vars
BY DEF box, Promise!vars

LEMMA StepImplements ==
    ASSUME TypeOK, AloneInv, NEW a \in Actors, Step(a)
    PROVE  [Promise!Next]_Promise!vars
<1>1. CASE Throttle(a)
  <2>1. job[a] \in Containers
    BY <1>1 DEF Throttle, At, TypeOK
  <2> QED BY <1>1, <2>1, ConfigType, UpdateImplements DEF Throttle
<1>2. CASE Restore(a)
  BY <1>2, RestoredCpu, UpdateImplements DEF Restore
<1>3. CASE ~Throttle(a) /\ ~Restore(a)
  <2>1. UNCHANGED box
    BY <1>3 DEF Step, Begin, IsSuspended, Exists, ReadCpuMax, ReadCpuset, Truncate, Fill,
                ResumeExists, Load, Unlink, Raise
  <2> QED BY <2>1, StillImplements
<1> QED BY <1>1, <1>2, <1>3

LEMMA LaunchImplements ==
    ASSUME TypeOK, NEW c \in Containers, NEW k \in Configs, Launch(c, k)
    PROVE  [Promise!Next]_Promise!vars
<1> DEFINE given == [d \in Containers |-> CpuOf(orig[d])]
           share == [d \in Containers |-> CpuOf(cpu[d])]
<1>1. /\ given' = [given EXCEPT ![c] = CpuOf(k)]
      /\ share' = [share EXCEPT ![c] = CpuOf(k)]
  BY DEF Launch, TypeOK
<1>2. Promise!Launch(c, CpuOf(k))
  BY <1>1 DEF Launch, Promise!Launch
<1>3. CpuOf(k) \in {CpuOf(j) : j \in Configs \cup {NoConfig}}
  OBVIOUS
<1> QED BY <1>2, <1>3 DEF Promise!Next

LEMMA EndImplements ==
    ASSUME NEW c \in Containers, End(c)
    PROVE  [Promise!Next]_Promise!vars
<1>1. Promise!End(c)
  BY DEF End, Promise!End
<1> QED BY <1>1 DEF Promise!Next

\* One process at a time, suspend_manager.py implements CpuThrottle
\* (suspend_manager.py:1-9).
THEOREM SuspendImplementsThrottle ==
    ASSUME Lone
    PROVE  Spec => ThrottlesAndRestores
<1>1. Init => Promise!Init
  BY DEF Init, Promise!Init
<1>2. TypeOK /\ AloneInv /\ [Next]_vars => [Promise!Next]_Promise!vars
  <2> SUFFICES ASSUME TypeOK, AloneInv, [Next]_vars
               PROVE  [Promise!Next]_Promise!vars
    OBVIOUS
  <2>1. CASE UNCHANGED vars
    BY <2>1, StillImplements DEF vars
  <2> QED
    BY <2>1, StepImplements, LaunchImplements, EndImplements DEF Next
<1> QED
  BY <1>1, <1>2, SuspendTypeCorrect, AloneInductive, PTL
     DEF Spec, ThrottlesAndRestores, Promise!Spec
=============================================================================
