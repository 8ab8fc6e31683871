--------------------------- MODULE SuspendManager ---------------------------
(***************************************************************************)
(* suspend_manager.py, step by step: each look at a state file, each read  *)
(* of a cgroup file, each docker update and each half of a write_text() is *)
(* an action.  The processes that run it are the monitors and reclaims,    *)
(* which ask is_suspended() before they suspend(), and the operator's      *)
(* suspend and resume commands.  They share the files under state/ and no  *)
(* lock.                                                                   *)
(*                                                                         *)
(* A name is launched once: what a stale file of an earlier container of   *)
(* the same name does is shown in PuffManager.                             *)
(***************************************************************************)
EXTENDS Integers

CONSTANTS
    Containers,
    Actors,     \* concurrent processes
    Cores,      \* the host's CPUs, 0 among them
    Configs,    \* CPU configurations containers are launched with
    Faults,     \* steps at which docker update may fail, or a process be killed
    Unlimited,  \* "max" in cpu.max
    None,       \* no state file; no container
    Torn        \* a state file that was opened and truncated, not yet filled

\* cpu.max and cpuset.cpus; cpuset.cpus is {} when it was never set.
Config == [quota : Nat \cup {Unlimited}, period : Nat, cpuset : SUBSET Cores]

ASSUME SuspendAssumption ==
    /\ 0 \in Cores
    /\ Configs \subseteq Config
    /\ Unlimited \notin Nat
    /\ None \notin Config /\ Torn \notin Config /\ None # Torn
    /\ None \notin Containers

VARIABLES
    status,     \* "absent", "running", "exited" or "removed"
    orig,       \* the configuration a container was launched with
    cpu,        \* the one its cgroup has
    saved,      \* state/<c>.json
    pc,         \* the step a process is about to take
    job,        \* its container
    held,       \* `original' in suspend() and resume()
    linked      \* is the file it opened for writing still state/<c>.json?

box    == <<status, orig, cpu>>
actors == <<pc, job, held, linked>>
vars   == <<box, saved, actors>>

-----------------------------------------------------------------------------
(* Configurations.                                                         *)

\* --cpus 0.01 --cpuset-cpus 0
Throttled == [quota |-> 1000, period |-> 100000, cpuset |-> {0}]

\* cpuset.cpus.effective
Effective(cs) == IF cs = {} THEN Cores ELSE cs

\* Mutant: the period of a limited container is not restored.
UpdateKeepsPeriod(k, s) == [quota |-> s.quota, period |-> k.period, cpuset |-> s.cpuset]

\* What docker update makes of k with the arguments of _resume_update_args(s):
\* --cpu-quota -1 comes without a period.
ResumeUpdate(k, s) ==
    [quota  |-> s.quota,
     period |-> IF s.quota = Unlimited THEN k.period ELSE s.period,
     cpuset |-> s.cpuset]

NoConfig == [quota |-> Unlimited, period |-> 0, cpuset |-> {}]

Running(c) == status[c] = "running"

\* docker update: of a running container it rewrites the cgroup, of one that
\* exited nothing is left to rewrite, and any other is an error.
DockerUpdateCpu(c, k) ==
    /\ status[c] \in {"running", "exited"}
    /\ cpu' = IF Running(c) THEN [cpu EXCEPT ![c] = k] ELSE cpu
    /\ UNCHANGED <<status, orig>>

-----------------------------------------------------------------------------
(* Control of a process.                                                   *)

Begin(a, c, at) ==
    /\ pc[a] = "idle"
    /\ pc'  = [pc EXCEPT ![a] = at]
    /\ job' = [job EXCEPT ![a] = c]
    /\ UNCHANGED <<box, saved, held, linked>>

At(a, at) == pc[a] = at

Goto(a, at) == pc' = [pc EXCEPT ![a] = at] /\ UNCHANGED job

Done(a) ==
    /\ pc'     = [pc EXCEPT ![a] = "idle"]
    /\ job'    = [job EXCEPT ![a] = None]
    /\ held'   = [held EXCEPT ![a] = NoConfig]
    /\ linked' = [linked EXCEPT ![a] = FALSE]

-----------------------------------------------------------------------------
(* suspend()                                                               *)

\* A monitor or a reclaim: if not is_suspended(c): suspend(c).
IsSuspended(a) ==
    /\ At(a, "is_suspended")
    /\ IF saved[job[a]] # None
       THEN Done(a)
       ELSE Goto(a, "exists") /\ UNCHANGED <<held, linked>>
    /\ UNCHANGED <<box, saved>>

\* Mutant: every suspend() saves the configuration it finds.
ExistsIgnored(a) ==
    /\ At(a, "exists")
    /\ Goto(a, "read_cpu_max")
    /\ UNCHANGED <<box, saved, held, linked>>

Exists(a) ==
    /\ At(a, "exists")
    /\ Goto(a, IF saved[job[a]] = None THEN "read_cpu_max" ELSE "throttle")
    /\ UNCHANGED <<box, saved, held, linked>>

ReadCpuMax(a) ==
    /\ At(a, "read_cpu_max")
    /\ Running(job[a])
    /\ held' = [held EXCEPT ![a].quota = cpu[job[a]].quota,
                            ![a].period = cpu[job[a]].period]
    /\ Goto(a, "read_cpuset")
    /\ UNCHANGED <<box, saved, linked>>

ReadCpuset(a) ==
    /\ At(a, "read_cpuset")
    /\ Running(job[a])
    /\ held' = [held EXCEPT ![a].cpuset = Effective(cpu[job[a]].cpuset)]
    /\ Goto(a, "truncate")
    /\ UNCHANGED <<box, saved, linked>>

\* write_text(): open for writing, which empties the file or creates it, ...
Truncate(a) ==
    /\ At(a, "truncate")
    /\ saved'  = [saved EXCEPT ![job[a]] = Torn]
    /\ linked' = [linked EXCEPT ![a] = TRUE]
    /\ Goto(a, "fill")
    /\ UNCHANGED <<box, held>>

\* ... then write to what was opened, which may have been unlinked.
Fill(a) ==
    /\ At(a, "fill")
    /\ saved' = IF linked[a] THEN [saved EXCEPT ![job[a]] = held[a]] ELSE saved
    /\ Goto(a, "throttle")
    /\ UNCHANGED <<box, held, linked>>

Throttle(a) ==
    /\ At(a, "throttle")
    /\ DockerUpdateCpu(job[a], Throttled)
    /\ Done(a)
    /\ UNCHANGED saved

-----------------------------------------------------------------------------
(* resume()                                                                *)

ResumeExists(a) ==
    /\ At(a, "resume_exists")
    /\ IF saved[job[a]] = None
       THEN Done(a)
       ELSE Goto(a, "load") /\ UNCHANGED <<held, linked>>
    /\ UNCHANGED <<box, saved>>

\* Mutant: an empty file is taken for a configuration.
LoadTorn(a) ==
    /\ At(a, "load")
    /\ saved[job[a]] # None
    /\ held' = [held EXCEPT ![a] = saved[job[a]]]
    /\ Goto(a, "restore")
    /\ UNCHANGED <<box, saved, linked>>

Load(a) ==
    /\ At(a, "load")
    /\ saved[job[a]] \notin {None, Torn}
    /\ held' = [held EXCEPT ![a] = saved[job[a]]]
    /\ Goto(a, "restore")
    /\ UNCHANGED <<box, saved, linked>>

\* Mutant: the file is deleted before docker update.
RestoreUnlinked(a) ==
    /\ At(a, "restore")
    /\ saved' = [saved EXCEPT ![job[a]] = None]
    /\ Goto(a, "unlink")
    /\ UNCHANGED <<box, held, linked>>

Restore(a) ==
    /\ At(a, "restore")
    /\ DockerUpdateCpu(job[a], ResumeUpdate(cpu[job[a]], held[a]))
    /\ Goto(a, "unlink")
    /\ UNCHANGED <<saved, held, linked>>

Unlink(a) ==
    /\ At(a, "unlink")
    /\ saved[job[a]] # None
    /\ saved' = [saved EXCEPT ![job[a]] = None]
    /\ pc'   = [pc EXCEPT ![a] = "idle"]
    /\ job'  = [job EXCEPT ![a] = None]
    /\ held' = [held EXCEPT ![a] = NoConfig]
    /\ linked' = [b \in Actors |-> linked[b] /\ job[b] # job[a]]
    /\ UNCHANGED box

-----------------------------------------------------------------------------
(* Errors, and the containers.                                             *)

\* The next step of a raises: no cgroup, no container, no file or an empty one.
Stuck(a) ==
    \/ pc[a] \in {"read_cpu_max", "read_cpuset"} /\ ~Running(job[a])
    \/ pc[a] \in {"throttle", "restore"} /\ status[job[a]] \in {"absent", "removed"}
    \/ pc[a] = "load" /\ saved[job[a]] \in {None, Torn}
    \/ pc[a] = "unlink" /\ saved[job[a]] = None

\* An exception or a kill: nothing done so far is undone.
Raise(a) ==
    /\ pc[a] # "idle"
    /\ pc[a] \in Faults \/ Stuck(a)
    /\ Done(a)
    /\ UNCHANGED <<box, saved>>

Launch(c, k) ==
    /\ status[c] = "absent"
    /\ status' = [status EXCEPT ![c] = "running"]
    /\ orig'   = [orig EXCEPT ![c] = k]
    /\ cpu'    = [cpu EXCEPT ![c] = k]
    /\ UNCHANGED <<saved, actors>>

End(c) ==
    /\ \/ status[c] = "running" /\ status' = [status EXCEPT ![c] = "exited"]
       \/ status[c] = "exited" /\ status' = [status EXCEPT ![c] = "removed"]
    /\ UNCHANGED <<orig, cpu, saved, actors>>

-----------------------------------------------------------------------------
Init ==
    /\ status = [c \in Containers |-> "absent"]
    /\ orig   = [c \in Containers |-> NoConfig]
    /\ cpu    = [c \in Containers |-> NoConfig]
    /\ saved  = [c \in Containers |-> None]
    /\ pc     = [a \in Actors |-> "idle"]
    /\ job    = [a \in Actors |-> None]
    /\ held   = [a \in Actors |-> NoConfig]
    /\ linked = [a \in Actors |-> FALSE]

\* The first steps of a monitor or a reclaim, of suspend and of resume.
Entries == {"is_suspended", "exists", "resume_exists"}

Step(a) ==
    \/ \E c \in Containers, at \in Entries : Begin(a, c, at)
    \/ IsSuspended(a) \/ Exists(a) \/ ReadCpuMax(a) \/ ReadCpuset(a)
    \/ Truncate(a) \/ Fill(a) \/ Throttle(a)
    \/ ResumeExists(a) \/ Load(a) \/ Restore(a) \/ Unlink(a)
    \/ Raise(a)

Next ==
    \/ \E a \in Actors : Step(a)
    \/ \E c \in Containers, k \in Configs : Launch(c, k)
    \/ \E c \in Containers : End(c)

Spec == Init /\ [][Next]_vars

-----------------------------------------------------------------------------
(* Properties.                                                             *)

Steps == Entries \cup {"idle", "read_cpu_max", "read_cpuset", "truncate", "fill",
                       "throttle", "load", "restore", "unlink"}

\* Every variable has its type, and a process at work has a container.
TypeOK ==
    /\ status \in [Containers -> {"absent", "running", "exited", "removed"}]
    /\ orig   \in [Containers -> Config]
    /\ cpu    \in [Containers -> Config]
    /\ saved  \in [Containers -> Config \cup {None, Torn}]
    /\ pc     \in [Actors -> Steps]
    /\ job    \in [Actors -> Containers \cup {None}]
    /\ held   \in [Actors -> Config]
    /\ linked \in [Actors -> BOOLEAN]
    /\ \A a \in Actors : pc[a] # "idle" => job[a] \in Containers

\* The CPU a configuration amounts to.
CpuOf(k) ==
    [quota  |-> k.quota,
     period |-> IF k.quota = Unlimited THEN 0 ELSE k.period,
     cpus   |-> Effective(k.cpuset)]

\* However many processes suspend and resume a container, it never runs with
\* a quota or on cores that are neither its own nor those of a suspended
\* container (suspend_manager.py:7-8).
NoForeignCpu ==
    \A c \in Containers :
        LET k == CpuOf(cpu[c])
            o == CpuOf(orig[c])
            t == CpuOf(Throttled)
        IN  /\ <<k.quota, k.period>> \in {<<o.quota, o.period>>, <<t.quota, t.period>>}
            /\ k.cpus \in {o.cpus, t.cpus}

\* A suspend() is between the halves of its write_text() of state/<c>.json.
BeingSaved(c) == \E a \in Actors : At(a, "fill") /\ job[a] = c /\ linked[a]

\* A suspended container can be resumed to what it was: its state file is there,
\* complete unless it is being written, and holds the configuration it was
\* launched with (suspend_manager.py:7-8, 83).  Stated for one process at a time that is not
\* killed between the two halves of write_text() ("fill" is not in Faults): the
\* file such a kill leaves is taken for a saved configuration by the next
\* suspend() (87), and every resume() fails on it (104).
OriginalKept ==
    \A c \in Containers :
        Running(c) /\ CpuOf(cpu[c]) # CpuOf(orig[c]) /\ ~BeingSaved(c)
            => saved[c] \in Config /\ CpuOf(saved[c]) = CpuOf(orig[c])

\* A resume that ends well leaves the container with the CPU it was launched
\* with (suspend_manager.py:100).
ResumeRestores ==
    [][\A a \in Actors : Unlink(a) /\ Running(job[a])
            => CpuOf(cpu[job[a]]) = CpuOf(orig[job[a]])]_vars

\* What suspend_manager.py promises, seen through what a configuration
\* amounts to (suspend_manager.py:1-9, 34-41).
Promise == INSTANCE CpuThrottle
    WITH Shares <- {CpuOf(k) : k \in Configs \cup {NoConfig}},
         Slow   <- CpuOf(Throttled),
         given  <- [c \in Containers |-> CpuOf(orig[c])],
         share  <- [c \in Containers |-> CpuOf(cpu[c])]

\* One process at a time, whatever fails: the CPU of a container changes only
\* from its own to that of a suspended container and back.
ThrottlesAndRestores == Promise!Spec
=============================================================================
