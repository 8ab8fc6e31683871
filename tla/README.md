# Specifications of the Pufferfish memory lab

TLA+ modules, TLC configurations and TLAPS proofs for two parts of the repository:

* the single-node controller in `reimpl-single-node/controller/`: a set of Python
  programs that watch Docker containers for memory pressure (*OCM*), throttle
  their CPU (*suspend*), enlarge their memory limit (*puff*) and take that memory
  back (*reclaim*), with the checks and observers used beside it;
* the tools of the Hadoop 2.7 experiment in `original-hadoop2.7/setup/`: the fetch of
  the task image, the driver of Fig. 6(a) and the two readers of its logs.

Paths below are relative to the first directory unless they say otherwise.

## 1. The system

### Components

| component | state | operations | what makes it correct |
|---|---|---|---|
| `puff_manager.py` | `state/<c>_memory.json`: the limit from before the first puff; cgroup `memory.max` through `docker update` | `puff`, `reclaim`, `reclaim_host` | puffs stay inside 80% of the host; a reclaim goes neither below the launch limit nor below what is used; the saved limit is the original; sweeps go youngest first and stop when enough is free |
| `suspend_manager.py` | `state/<c>.json`: the CPU configuration from before the suspend; cgroup `cpu.max`, `cpuset.cpus` | `suspend`, `resume`, `is_suspended` | a resume gives back exactly the launch configuration; the original is saved once and never lost |
| `container_monitor.py` | the previous snapshot of one cgroup | poll, `evaluate_ocm`; on OCM puff, then suspend | a container under pressure is detected and suspended |
| `admission.py` | none | `ensure_capacity` (sweep if there is no room), `docker run` | the budget is exceeded only if nothing was left to reclaim |
| `host_reclaim_daemon.py` | none | poll: sweep when 90% of the host is assigned | as for the sweep |
| `cgroup_utils.py` | none | reads of cgroup files and of `docker inspect` | a container without a process raises `CgroupError` |
| `cgroup_precheck.py` | none | four checks of docker, host and container | what it accepts is what the monitor relies on |
| `swap_preflight.py` | the swap at its start, a deadline | wait for swap to grow | a pass means that the container can swap; it ends |
| `../evidence/05-ab-test-script.py` | four counters | evaluate OCM with and without the saturation test | its report adds up |
| `../experiments/.../passive_sampler.py` | none | print cgroup counters until the cgroup is gone | it ends |
| `../workload-java` | retained chunks | allocate a chunk, up to a maximum | arithmetic of the sizes |
| `fetch-sequenceiq-image.py` (setup) | `blobs/`, `stage/`, the tar | download, verify, stage, pack | the image is the published one, whatever broke off before |
| `fig6a.sh` (setup) | jobs in the background, `events.log`, `apps.txt`, a window of the node manager's log | submit, gap, wait, collect | ids in submission order; it ends; nothing of an earlier run |
| `fig6a-metrics.py`, `plot-fig6a.py` (setup) | counters, pairs | one pass over `nm.log` each | every count and every shrink is of the lines it names, and of this run |
| other scripts in setup | a provisioned host, a patched jar | install, build, compare, print | - |

Documents, papers, logs and `reimpl-hadoop3` (documents and XML of a
discontinued attempt) hold no program.

### Interactions

Every program of the controller is a process of its own. There is one monitor per
container, one daemon per host, and any number of admissions and commands of the
operator. They share the cgroups, changed through `docker update`, and the files
under `state/`. There is no lock, no transaction and no owner: each function is
a sequence of reads, file operations and docker commands, and those of another
process, the kernel and the workload fall between any two of them.

The checks are run before an experiment and share nothing with the monitor but
the container they look at; the A/B script imports the monitor's `read_snapshot`
and copies its decision. The Hadoop tools meet in files: the tar that docker
loads, the job logs that `fig6a.sh` polls, and the log the readers go through.

### What is hard

* **Interleaving.** Check-then-act on the assigned sum
  (`puff_manager.py:166-182`), on `memory.current` (219-234), on the state
  files (`suspend_manager.py:87-94`, `101-110`), and stale limits that are
  written back (`puff_manager.py:154-181`).
* **Failure.** A docker command can fail, and a process can be killed, between
  any two steps; nothing is rolled back. `write_text` truncates before it
  writes. Two failures do not even end a program: a limit that cannot be read
  is left out of the assigned sum (`puff_manager.py:126-129`), and a container
  that cannot be inspected is taken for a removed one, whose state file a sweep
  deletes (251-254, 272-276).
* **Order.** The sweep sorts once and measures free memory before each
  candidate.
* **Identity.** State files are keyed by name and survive their container.
* **Detection.** A counter that stops moving may mean that all is well or that
  there is nowhere left to go; and what the monitor can see depends on counters
  that only a check beforehand looks for.
* **Leftovers.** A run of the fetch finds the files of the runs that failed before
  it; the node manager's log spans experiments.
* **Ordering.** The jobs of Fig. 6(a) start in the background, and their order is that of the
  ids they are given.

`PROJECT.json` lists each hazard at its line.

## 2. The modules

| module | what it is |
|---|---|
| `NodeMemory` | abstract: a container is launched with some memory, resized to no less, and ends |
| `PuffManager` | the memory side: `puff`, `reclaim`, `reclaim_host` and the programs that call them, for any number of concurrent callers |
| `MCPuffManager` | model values and symmetry for TLC |
| `PuffManagerProofs` | type correctness; the floor and the refinement of `NodeMemory`, for any number of callers |
| `PuffAloneProofs` | the memory state files, for one caller |
| `PuffThrottleProofs` | throttled before shrunk, for any number of callers |
| `PuffBudgetProofs` | the memory of the host, for one caller: the budget, forced launches, the daemon's trigger, order and amounts of a sweep |
| `FiniteFolds` | lemmas about the sums, maxima and folds of the community modules, for every finite set |
| `CpuThrottle` | abstract: a container has its launch CPU or the throttled one |
| `SuspendManager` | `suspend_manager.py` step by step, for any number of processes |
| `MCSuspendManager` | CPU configurations and symmetry for TLC |
| `SuspendProofs` | type correctness; no foreign CPU, for any number of processes; the original configuration and the refinement of `CpuThrottle`, for one |
| `Cgroup` | one container as its cgroup shows it: the files, the swapping kernel, the workload |
| `ContainerMonitor` | extends it by the monitor: the non-atomic snapshot, the OCM decision, the reaction |
| `Observers` | extends that by the A/B script and the passive sampler |
| `SwapPreflight` | extends `Cgroup` by the two checks |
| `OcmExperiment` | composes them: the checks, then one watcher, on one container |
| `OcmExperimentProofs` | type correctness; what a preflight proves; the A/B report |
| `FetchImage` | `fetch-sequenceiq-image.py` step by step, killed and re-run |
| `Fig6a` | `fig6a.sh` with its jobs and the node manager's log |
| `Fig6aLog` | extends it by the two readers, as folds over the log |
| `Hadoop27` | composes them: the image is fetched and loaded, then the jobs run |
| `MCHadoop27` | a manifest with a repeated layer and a shared blob; an earlier run's log; which lines are written about which executor |
| `Hadoop27Proofs` | type correctness; blobs, image and application ids; what the two log readers count and find |

`PuffManager` composes the monitor's reaction, admission, the daemon and the
command lines: a caller is one invocation, `call[p]` says of what program,
`pc[p]` the step it is about to take, and `job`, `cur`, `floor`, `new`,
`amount`, `target`, `order` are the locals of the Python functions under their
names (`current_mb`, `floor_mb`, ...). `suspend()` is one step in it, and `puff()` one
step in `ContainerMonitor`: `SuspendManager` and `PuffManager` open them.

In `OcmExperiment` one program runs at a time, at `pc`; the container goes on
beside it. In `FetchImage`, `part`, `blob`, `stage` and `tar` are what is on
the disk, and survive a run; `at`, `todo`, `digest` and `n` are the script's.

### Code and actions

| code | actions |
|---|---|
| `puff` 148-184 | `PuffBegin` (read the limit), `PuffSave` (state file), `PuffGrant` / `PuffRefuse` (budget), `PuffApply` (docker update) |
| `reclaim` 187-245 | `ReclaimBegin`, `ReclaimFile`, `ReclaimLimit`, `ReclaimUsage`, `ReclaimSuspend`, `ReclaimApply`, `ReclaimUnlink`; the early returns are the first branch of each |
| `reclaim_host` 284-310, EJF sort 257-281 | `HostBegin`, `HostScan` (candidates; files of containers without a creation time deleted: removed ones and, of `Unread`, any that docker inspect fails for), `HostNext`, `HostReturn` |
| `container_monitor.py` 128-136 | `PuffBegin(_, _, "monitor")`, `MonitorUncapped`, then `MonitorSuspend` |
| `host_reclaim_daemon.py` 37-47 | `DaemonBegin`, then the sweep |
| `admission.py` 56-101 | `AdmissionBegin`, the sweep if needed, `Run` |
| errors, `main()` of each | `Raise` (a step that cannot succeed, or one of `Faults`), `RaiseInSuspend` (file written, docker update failed), `RaiseInSave` (killed inside `write_text`) |
| `suspend` 82-96 | `IsSuspended` (the caller's test), `Exists`, `ReadCpuMax`, `ReadCpuset`, `Truncate`, `Fill`, `Throttle` |
| `resume` 99-110 | `ResumeExists`, `Load`, `Restore`, `Unlink` |
| `read_snapshot` 44-53, `monitor` 97-141 | `FirstSwap`, `FirstStat`, `ReadCurrent`, `ReadMax`, `ReadSwap`, `ReadStat`, `Evaluate`, `Puff`, `Suspend`, `Lost`, `Raise`; `Again` is `--once` |
| `05-ab-test-script.py` 65-103, `passive_sampler.py` | `Judge` (`Old` and `New`, from the script's own lines 26-58), `Sample`, over the same reads |
| `cgroup_precheck.py` `main` | `Precheck` |
| `swap_preflight.py` 25-78 | `StartPreflight`, `ReadBaseline`, `SwapGrew`, `Sleep`, `TimedOut`, `ContainerGone` |
| `fetch-sequenceiq-image.py` 32-60 | `Manifest`, `SkipBlob`, `OpenPart`, `Receive`, `Rename`, `Mismatch` |
| 62-88 | `ClearStage`, `SkipLayer`, `OpenLayer`, `CopyLayer`, `OpenTar`, `CloseTar`, `Clean` |
| `fig6a.sh` 34-57 | `StartRun`, `GapOver`, `JobEnds` (with the end line), `Collect` |
| `fig6a-metrics.py` 25-44, `plot-fig6a.py` 43-66 | `CountLine`; `MarkKill`, `Pair` |
| the world | `Grow`, `Shrink` / `Allocate` (workload), `PageOut`, `PageIn`, `Refault` (kernel), `Exit`, `Remove`, `Launch`, `End`, `SuspendCommand`, `ResumeCommand`, `Start`, `Run`, `RunAgain`, `Load` (operator), `BreakOff`, `Recover` (network, kills), `GetId`, `Accept`, `Write` (resource manager, node manager) |

Docker and the kernel are modelled from how the code uses them: an update of a
running container rewrites its cgroup, of an exited one succeeds without
effect, of a removed one fails; a `memory.max` below `memory.current` kills the
container at once (the observation recorded in `puff_manager.py:81-85` and
`194-200`).

### Abstractions

* Memory is in MiB and integer. The code compares floats with 16 and truncates
  afterwards; for integers `a`, `b` and a whole bound this gives the same
  answer as truncating first, which is what `PuffStep` and `HostBudget` do.
* The sum over `docker ps` (`FreeReads`) is read in one step, and so are
  `exists()` with the `read_text` / `write_text` next to it in the memory state
  file, and `glob` with the `docker inspect` of each candidate. A kill inside
  the write leaves a torn file (`Torn`), on which every later read raises.
* `Faults` is the set of the steps, in `PuffManager` and in `SuspendManager`, at
  which a command may fail or the process be killed, both of which end the program.
  `Unread` is the set of containers of which a read may fail where the code goes on
  without it: any of them may be missing from a sum (`FreeReads`) and from a
  listing of the candidates (`CreatedUnknown`).
* What a container uses rises by one of `Growth` and falls by one of `Release`, at any
  time. A fall stands for memory that the workload gives back, or that the kernel
  swaps out. With `Release = {}` usage only rises; what depends on that says so.
* A `docker update` is atomic.
* Swap is not part of `PuffManager`: `--memory-swap` follows
  `--memory` by a constant (`SWAP_HEADROOM_MB`). In `Cgroup` that constant is
  `SwapHeadroom`, the `memory.swap.max` of a container once it was puffed; before,
  it is what the container was launched with.
* `SWAP_SATURATION_RATIO`, 0.95, is the fraction `Saturating / Whole`, which TLC is
  given such that a saturated swap of two chunks can still rise and fall.
* In `SuspendManager` a name is launched once. `PuffManager` has the constant
  `NameReuse` for what happens otherwise.
* A monitor or a daemon is modelled poll by poll; one that died may be started
  again.
* `Cgroup` counts memory in chunks of the workload and leaves out containers
  without a memory limit (never in OCM, `container_monitor.py:59`). The two
  kernel counters are one flag, `moved`: was a page swapped since they were last
  read.
* A file whose sha256 is a digest holds what the digest names. A download that
  breaks off is `Torn`, as is a file whose writer was killed.
* A line of the node manager's log is an event of a container of an application, or
  the stop of ballooning, which names none. `Boxes` are attempt and number of a container,
  and `FirstAttempt` those with attempt 01, the only ones that the patterns of the plot
  match. A resize is two lines in the log with the same sizes, one read by each
  reader; the model has one. Of the sizes only up, down or equal is kept: which of
  the shrinks it finds the plot labels (the largest of those of at least 1 GB that is not
  within 15 s of an end), the peaks and the usage series are left out.
* `Earlier` is what earlier runs may have left in the log: in the proofs any lines,
  stops and the application ids of this run included. Each line carries, as history,
  whether it is of an earlier run, so that the properties need not rely on `nm0`.
* What the resource manager does is taken from the logs in
  `original-hadoop2.7/x86-server/steps`: `spark-submit` names the id it is
  given while it still uploads, before the application is accepted.

### Bounds

`MaxLaunch` bounds the containers launched in a behaviour. `MaxLimit` bounds the
limit on which a puff may begin: without it a stale `current_mb` lets limits
grow for ever. The host, requests and growth are constants of each run, chosen so
that a puff is granted in full, cut by the budget and refused, a reclaim is
stopped by the floor, by usage and by the amount asked for, and a sweep both
reaches its target and falls short.

`MaxLimit` bounds the limit that a puff may reach in `Cgroup`, `MaxAllocation` is the
workload's own; `MaxPolls` bounds the polls of the A/B script that are counted,
`Timeout` is the deadline in intervals, `MaxLog` bounds the lines that the node
manager writes in a run, and `Events` which ones.

## 3. What is checked

| run | instance | shows |
|---|---|---|
| `puff_one_caller` | one caller, two capped containers that may end and one without limit; any step may fail or be the last, usage rises and falls, other containers answer | floors, truthful state files, the budget |
| `puff_sweep` | one caller, three containers, failures and kills outside `suspend()`; usage only rises | EJF order, lazy stop, no more than is missing, throttled before shrunk, nothing left at a forced launch and when the daemon triggers |
| `puff_two_callers` | two callers interleaved on a container, failures, kills and unread limits and creation times | `NodeMemory` is implemented: floors survive every race and every failure |
| `suspend_one_actor` | one process, two containers, failures and kills, except half-way through `write_text` | the original is kept, resume restores it, `CpuThrottle` is implemented |
| `suspend_two_actors` | two processes, one container, failures and kills anywhere | no foreign CPU |
| `ocm_experiment` | a container of two chunks, three after a puff; swap of no chunk, of two, saturated at one, or without limit, and of one after a puff; with and without the kernel's counters and host swap | saturation at rest and, after the precheck, thrashing lead to a suspend; watchers and preflight end; a preflight that passes proves swap; the A/B report adds up |
| `hadoop27` | a manifest of four layers, one listed twice and two sharing a blob; two jobs with executors that are relaunched; three lines of log after an earlier run with the same ids, a slacking line and a stop | the image is the published one after any failures; retries succeed; ids in order; the script ends; counts and shrinks are exact and of this run |

Each property of these runs has a mutation of the code, next to the definition
it changes, that TLC finds to violate it (`PROJECT.json`, "mutants").
Deadlock is checked except in `ocm_experiment` and `hadoop27`, whose programs really
end.

These runs end in a counterexample; each refutes a sentence of the code's own
documentation (`PROJECT.json`, "findings"):

| run | counterexample |
|---|---|
| `puff_budget_race` | two monitors read the assigned sum, both puff, the budget is exceeded |
| `puff_reclaim_race` | the workload grows between the read of its usage and the update, and is OOM-killed |
| `puff_name_reuse` | a name launched again inherits the old, lower floor |
| `puff_exited_candidate` | an exited container stays a candidate and its reclaim raises |
| `suspend_race` | a suspend throttles between the restore and the unlink of a resume: throttled, nothing saved |

The bounds deserve a word. Two callers need only one container and two
processes for every race on one state file; a third adds orders, not
new kinds of step, and the floor and the refinement are proved for any number.
One name is enough for an unread container, which is missing from the sum or the listing.
`puff_sweep` needs three containers for a youngest, a middle and an oldest.
`ocm_experiment` has the smallest container whose swap can be absent, empty,
saturated with room to move, and full, and whose limit can be reached, exceeded together
with swap, and raised by a puff; two polls are enough for the old and the new logic to
agree and to differ. In `hadoop27` three lines hold a slacking line, its update and a
second update, or a line on each side of a stop; `e1` is an executor, `e2` the one
it is relaunched as and `l1` one of a second attempt, so lines of one application can be
of different containers; two jobs have an order, and the proofs cover any number of jobs,
containers, lines, layers and blobs, and any log of earlier runs.

### What the code loses

Some properties hold only under a hypothesis because the code does something else
without it. The model has that behaviour; the constants of a run, and the hypotheses of
its theorem, leave it out. To see it:

| change | what TLC then finds |
|---|---|
| `Unread = {c1, c2}` in `PuffOneCaller.cfg` | `SavedIsOriginal`, `EnlargedHasFile`: a sweep deletes the file of a container it cannot inspect, its next puff saves the enlarged limit; `PuffWithinBudget`: a limit is missing from the sum |
| `Unread = {c1, c2, c3}` in `PuffSweep.cfg` | `OvercommitOnlyWhenExhausted`: admission launches into room that is not there; `EarliestJobFirst`: the youngest is asked for too little, then an older one is asked |
| `Faults <- Everywhere` in `SuspendOneActor.cfg` | `OriginalKept`: a suspend is killed between the halves of `write_text`, the next one finds the file, throttles, and no resume can read it |
| `SaturationIsThrottled` without `<>[][swap' = swap]_vars` | a page goes out after `memory.current` is read and comes back before `memory.swap.current` is, at every poll: the sum never exceeds the limit |

### Fairness

* `OcmExperiment`: `WF_vars(Program)`. The programs sleep for a fixed time and each
  command they run returns, so one that can go on does. Nothing is assumed of the
  container, which may allocate, swap or stop at any point, or of the operator.
  `SaturationIsThrottled` (for a swap that comes to rest) and `ThrashingIsThrottled` assume that no docker command
  fails (`reliable`): neither `PuffError` nor `SuspendError` is caught, so a
  puff that fails ends the monitor before the suspend. `OcmReachesSuspend` has
  that as one of its outcomes.
* `Hadoop27`: weak fairness of the fetch's steps together with its re-run (it is
  run again after a failure), of the driver, and of the end of each job. Downloads may
  break off for ever; `RetriesSucceed` is about runs from the point where they no
  longer do. Nothing is assumed of the resource manager: a job need not get an id, which
  with interval 0 is the one way in which `fig6a.sh` does not end, and
  `ScriptEnds` names it.

## 4. What is proved

With TLAPS, for every value of the constants that satisfies the named
assumptions (`ConstantsAssumption`, `FiniteAssumption`, `SuspendAssumption`):

| theorem | says | under |
|---|---|---|
| `TypeCorrect` | `Spec => []TypeOK` of `PuffManager` | - |
| `FloorAlwaysRespected` | `Spec => []FloorRespected` | `~NameReuse` |
| `ImplementsNodeMemory` | `Spec => KeepsLaunchMemory` | `~NameReuse` |
| `FilesTrueWhenAlone` | `Spec => [](SavedIsOriginal /\ EnlargedHasFile)` | `~NameReuse`, one caller, `Unread = {}` |
| `EnlargedHasFileWhenAlone` | the second half of it | the same |
| `ReclaimedAlwaysThrottled` | `Spec => ReclaimedAreThrottled` | `~NameReuse`, no step of `suspend()` in `Faults`, no manual suspend or resume |
| `PuffWithinBudgetWhenAlone` | `Spec => PuffWithinBudget` | `~NameReuse`, one caller, `Unread = {}` |
| `OvercommitWhenAlone` | `Spec => OvercommitOnlyWhenExhausted` | the same, `Release = {}` |
| `NothingLeftWhenAlone` | `Spec => []NothingLeftAtTrigger` | the same, `Release = {}` |
| `EarliestJobFirstWhenAlone` | `Spec => EarliestJobFirst` | the same, `Release = {}` |
| `SweepTakesWhatIsMissingWhenAlone` | `Spec => SweepTakesWhatIsMissing` | `~NameReuse`, one caller, `Unread = {}`, `Mortal = {}` |
| `SuspendTypeCorrect` | `Spec => []TypeOK` of `SuspendManager` | - |
| `NoForeignCpuEver` | `Spec => []NoForeignCpu` | - |
| `OriginalKeptWhenAlone` | `Spec => []OriginalKept` | one process, `"fill" \notin Faults` |
| `ResumeRestoresWhenAlone` | `Spec => ResumeRestores` | one process |
| `SuspendImplementsThrottle` | `Spec => ThrottlesAndRestores` | one process |
| `OcmTypeCorrect` | `Spec => []TypeOK` of `OcmExperiment` | - |
| `PreflightAlwaysProvesSwap` | `Spec => []PreflightProvesSwap` | - |
| `AbAlwaysAccounts` | `Spec => []AbAccounts` | - |
| `HadoopTypeCorrect` | `Spec => []TypeOK` of `Hadoop27` | - |
| `BlobsAlwaysVerified` | `Spec => []BlobsVerified` | - |
| `ImageAlwaysFaithful` | `Spec => []ImageFaithful` | - |
| `AppIdsAlwaysInOrder` | `Spec => []AppIdsInOrder` | - |
| `MetricsAlwaysCount` | `Spec => []MetricsCount` | - |
| `PlotAlwaysFindsShrinks` | `Spec => []PlotFindsShrinks` | - |

`FiniteAssumption` says that there are finitely many container names, without which
`HostAssigned` would not be a sum. "One caller" is `Lone`: programs follow one another, any number of
them, and each may fail or be killed anywhere. A hypothesis that is not in the table is
not made: the first three theorems hold for any `Unread`, the ones without
`Release = {}` also for usage that falls.

The other modules' assumptions (`CgroupAssumption`, `RatioAssumption`, `TimeoutAssumption`,
`LayersAssumption`, `Fig6aAssumption`, `FirstAttemptAssumption`) only give the constants
their types.

**The floor.** `FloorRespected` is not inductive: a caller may be about to write
a limit computed long ago. `FloorInv` adds that every value a caller still
holds to write (`new`), to save (`cur` before `PuffSave`) or to use as a floor
(`floor`), and every value in a state file, is at least the launch limit of its
container, and that only launched containers are in anybody's hands. Because
names are not reused, a launch limit never rises, so stale values stay above
it. This is why the races that break the budget and the saved limit cannot
break the floor. `puff_name_reuse` shows that the assumption is needed.

**The refinement of `NodeMemory`.** Every step of every caller is, for the
containers, a launch, a resize of one container or its end, or nothing
(`UpdateKeeps`, `LaunchKeeps`, `OutsideKeeps`, `StillKeeps`). A resize needs that the
value written is at least the launch limit, which is `FloorInv`; a launch needs
that the memory asked for is one of `Requests` (`Asked`: the target of an admission
is a request at every step).

**Throttled before shrunk.** `ThrottleInv`: a CPU state file belongs to a name that is or was in
use, and to a container that is throttled if it runs; a caller about to apply a
reclaim has seen the file. Each of the three assumptions of `Undisturbed` is needed: a
failing `suspend()`, a reused name, and a manual `resume` leave a file that stands
for no throttle, or take the throttle away. Failures anywhere else do not matter.

**The memory files.** With one caller, `AloneInv` says what it knows at each step:
what it is about to save is the current limit, the file is there from the save
to the update, and during a reclaim the file holds `floor`. A caller that dies
forgets all of it, which is why failures that end it do no harm; a `docker inspect`
that fails without ending it does (`Unread`).

**The host's memory.** The last five theorems about `PuffManager` rest on
`BudgetInv`, which TLC checked on `PuffOneCaller` and `PuffSweep` before it was
proved. None of the properties is inductive: whether a step is right depends on what
the caller read earlier and on everybody else having left it true. Three parts say
so:

* `OverIsExhausted`: above the budget nothing can be taken from anyone. It is what
  the daemon's trigger comes down to, and it survives because, with `Release = {}`, a
  container only grows towards its limit (less to take) and a container that ends can
  only bring the sum down.
* `Reads`: what the caller knows of the limit is still true if the container still
  runs, a puff it has been granted still fits, and an admission about to launch has
  either room or an exhausted host.
* `Sweeping` and `Ordered`, of a sweep: whoever is no longer a candidate has nothing
  left, the candidates still listed are as old as the one at work or older, and what
  is about to be taken is all that misses or leaves its container with nothing. A
  container that exits between the read of its usage and the update made TLC refute
  the first version of this (its usage reads 0, the amount was computed from more);
  hence `~Running(job[p])` in it.

`SweepTakesWhatIsMissing` bounds the sum by what was missing when the amount was
computed, so it also needs that nothing has left the host since (`Measured`), which
is why no container may end by itself there. It does not need `Release = {}`, so
`BudgetInv` speaks of a container that has nothing left only under that hypothesis
(`Spent`); `FreeIsRead` is where `Unread = {}` enters.

**Sums and folds.** `HostAssigned` is a fold over a set and the readers are folds
over a sequence, and neither SMT nor Zenon does induction over them. `FiniteFolds`
replaces it by the smallest counterexample: a nonempty family of finite sets has a
member none of whose elements can be removed (`SmallestSet`, from the
well-foundedness of the natural numbers). With it the function a fold is defined by
exists and is the only one (`AddsUpExists`, `AddsUpAgree`, `FoldsAgree`), any
element can be taken out of a sum first (`TotalRemove`), and so a step of one
container changes `HostAssigned` by the change of its own share (`HostChange`).

**Foreign CPU.** `OwnInv` says that every configuration in the cgroup, in a file or
held by a process mixes only the container's own bandwidth and cores with the
throttled ones. `suspend` reads quota and cpuset in two steps, so the mixture is
real, and nothing stronger holds of concurrent processes.

**The refinement.** With one process, `SuspendProofs!AloneInv` ties the
file, the cgroup and the local `original` together at each step; `Throttle` and
`Restore` then map to `Suspend` and `Resume` of `CpuThrottle`, every other step
of a process to a stutter. `CpuOf` is the mapping: a configuration counts by the
bandwidth and cores it amounts to, since `resume` writes the effective cpuset
where none was set and leaves the period when there is no quota. `AloneInv` allows a torn
file, which no later step reads; `TornInv` adds that there is none but while it is being
written, if no process is killed there, and `OriginalKept` needs that.

**The checks and the report.** A preflight passes when the swap exceeds what it was at
the start, so there is some, and the kernel only swaps where there is swap
(`CgroupTypeOK`). `AbAccounts` is inductive once it is seen that the old decision
implies the new one.

**The image.** `FetchInv` says where the script is and what the disk holds then: what it
is about to rename has the digest; while it stages, the layers passed so far hold
the blob listed first for their id and the others are absent; a packed tar, and what
docker has loaded, is faithful. That the stage is cleared first is what makes a
failed run harmless.

**The ids.** `JobsInv`: ids given so far bound those of the jobs, a job that is not
submitted has none, and with interval 0 only the last job submitted may be without
one and still get it.

**The readers.** `CountsOf(s)`, `ShrinksIn(s)` and `JobKills(s)` say outright,
without going through the lines, what a reader holds after those with an index in
`s`; `CountsStep` and `PairsStep` show that the code's step takes one to the next,
and `FoldsAgree` that the folds therefore compute them (`MetricsAre`, `ShrinksAre`,
`KillsAre`). `LogInv` says whose the lines are: ids are given once and stay, up to
`nm0` the lines are of earlier runs by their history, behind it they are of this one and
name a job that had its id by then, or are a stop. So the lines that `apps.txt` assigns to a job at the end are
those of its application, moved by `nm0` (`LinesMoved`, `ShrinksMoved`), and their
number is the count.

Only model-checked is the liveness, which is outside the prover's reach:
`OcmReachesSuspend`, `SaturationIsThrottled`, `ThrashingIsThrottled`, `WatchersEnd`,
`PreflightEnds`, `RetriesSucceed` and `ScriptEnds`. Every other property of a
passing run is a theorem; the runs show in addition that the theorems' hypotheses
have behaviours, and what happens without them.

## 5. Not modelled, and what is left

* The provisioning scripts of Hadoop 2.7: linear, without state of their own between
  steps. Two of them can go wrong in ways listed under "hazards": a torn backup in
  `patch-nm-timing.sh`, the ignored exit status of `javap` in `cmpsig.py`.
* The arithmetic of `MemoryGrowthWorkload` (`CHUNK_SIZE_MB = 2048` passes the
  check and overflows), and what depends on formatting (`stop` is `None`,
  times across midnight) in `fig6a-metrics.py`: each a matter of one input. A log without a stop is counted right in the model, as in
  the code, but the script then raises before it prints the counts.
* Peaks, usage series, drawing and the choice of the labelled shrink in the two log readers.
* Argument parsing, parsing of cgroup files and log output everywhere.
* Hadoop itself (the authors' patches) and Docker are outside: they are modelled from how
  the code uses them.

Left for later: name reuse in `SuspendManager`; what several callers still guarantee of
the budget (by how much a race can exceed it), and a single one with unread limits; the
A/B script and a monitor on the same container at once.
