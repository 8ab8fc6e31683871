-------------------------------- MODULE Fig6a -------------------------------
(***************************************************************************)
(* original-hadoop2.7/setup/fig6a.sh: jobs are submitted one after the     *)
(* other in the background while the node manager writes its log.  A job   *)
(* gets an application id from the resource manager, is accepted some time *)
(* after that, and ends, at any point and with any exit status.            *)
(***************************************************************************)
EXTENDS Naturals, Sequences

CONSTANTS
    N,          \* jobs: fig6a-pr, fig6a-km1, ...
    Boxes,      \* attempts and numbers of an application's containers: container_.._.._01_000002
    Earlier,    \* what earlier runs may have left in the node manager's log
    Events,     \* bound: which lines it may write about which container
    MaxLog      \* bound: how many it writes during a run

Jobs == 1 .. N

OfContainer == {"kill", "ocm", "slack", "grow", "same", "cut"}

\* A line of the log: the application and the container it names, if any, and
\* what it says.  History: was it written before the run?
Line == [old : BOOLEAN, app : Nat, box : Boxes \cup {"none"}, what : OfContainer \cup {"stop"}]

ASSUME Fig6aAssumption ==
    /\ N \in Nat \ {0} /\ MaxLog \in Nat
    /\ Earlier \subseteq Seq({line \in Line : line.old})
    /\ Events \subseteq Boxes \X OfContainer

VARIABLES
    pc,         \* where the script is
    k,          \* jobs submitted
    interval0,  \* the argument: 0 seconds between submissions
    phase,      \* of each job's spark-submit
    app,        \* the application id in the job's log; 0 if there is none
    ids,        \* application ids given so far
    ends,       \* the jobs with an end line in events.log
    log,        \* the node manager's log
    nm0,        \* its length when the run started
    apps        \* apps.txt: the application id of each job, 0 for a line without one

script == <<pc, k, interval0, nm0, apps>>
spark  == <<phase, app, ids, ends>>
fig6a  == <<script, spark, log>>

-----------------------------------------------------------------------------
(* The script.                                                             *)

\* Mutant: a job too many is submitted.
SubmitOneMore ==
    /\ k' = k + 1
    /\ phase' = [phase EXCEPT ![k'] = "starting"]
    /\ pc' = IF k < N THEN "gap" ELSE "wait"
    /\ UNCHANGED <<app, ids, ends, log, interval0, apps>>

\* submit(): spark-submit in the background.
Submit ==
    /\ k' = k + 1
    /\ phase' = [phase EXCEPT ![k'] = "starting"]
    /\ pc' = IF k' < N THEN "gap" ELSE "wait"
    /\ UNCHANGED <<app, ids, ends, log, interval0, apps>>

\* The length of the log is noted, the first job submitted.
StartRun ==
    /\ pc = "idle"
    /\ nm0' = Len(log)
    /\ Submit

\* Mutant: gap() does not wait.
GapOver0 == pc = "gap" /\ UNCHANGED nm0 /\ Submit

\* gap(): with interval 0 until the job before has an application id in its log.
GapOver ==
    /\ pc = "gap"
    /\ interval0 => app[k] # 0
    /\ UNCHANGED nm0
    /\ Submit

\* Three end lines; apps.txt is written from the logs of the jobs.
Collect ==
    /\ pc = "wait"
    /\ ends = Jobs
    /\ apps' = app
    /\ pc' = "done"
    /\ UNCHANGED <<k, interval0, nm0, spark, log>>

Script == StartRun \/ GapOver \/ Collect

-----------------------------------------------------------------------------
(* A job.                                                                  *)

\* The resource manager gives it the next id; spark-submit names that in its
\* log while it uploads its files.
GetId(j) ==
    /\ phase[j] = "starting"
    /\ ids' = ids + 1
    /\ app' = [app EXCEPT ![j] = ids']
    /\ phase' = [phase EXCEPT ![j] = "uploading"]
    /\ UNCHANGED <<script, ends, log>>

Accept(j) ==
    /\ phase[j] = "uploading"
    /\ phase' = [phase EXCEPT ![j] = "running"]
    /\ UNCHANGED <<script, app, ids, ends, log>>

\* Mutant: without || rc=$? a job that fails before it runs has no end line.
EndsLineIfOk(j) ==
    /\ phase[j] \in {"starting", "uploading", "running"}
    /\ phase' = [phase EXCEPT ![j] = "over"]
    /\ ends' = IF app[j] # 0 THEN ends \cup {j} ELSE ends
    /\ UNCHANGED <<script, app, ids, log>>

\* spark-submit ends, well or not; with || rc=$? the end line follows.
JobEnds(j) ==
    /\ phase[j] \in {"starting", "uploading", "running"}
    /\ phase' = [phase EXCEPT ![j] = "over"]
    /\ ends' = ends \cup {j}
    /\ UNCHANGED <<script, app, ids, log>>

Job(j) == GetId(j) \/ Accept(j) \/ JobEnds(j)

-----------------------------------------------------------------------------
(* The node manager's log: events of the executor of an application, and   *)
(* those that the node stops ballooning, which name no container.  A       *)
(* resize is a line "update container memory: old .. new .." and a line    *)
(* "balloon-nswap: .. from .. to ..", with the same two sizes.             *)

Stop == [old |-> FALSE, app |-> 0, box |-> "none", what |-> "stop"]

Written ==
    {[old |-> FALSE, app |-> app[j], box |-> e[1], what |-> e[2]] :
         j \in {i \in Jobs : phase[i] = "running"}, e \in Events}
    \cup {Stop}

Write ==
    /\ pc \in {"gap", "wait"}
    /\ Len(log) < nm0 + MaxLog
    /\ \E line \in Written : log' = Append(log, line)
    /\ UNCHANGED <<script, spark>>

-----------------------------------------------------------------------------
\* The node manager appends to the log of earlier runs.  Since a resource
\* manager that was restarted counts from 1 again, their application ids may be
\* those of this run.
Fig6aInit ==
    /\ pc = "idle" /\ k = 0 /\ interval0 \in BOOLEAN
    /\ nm0 = 0 /\ apps = [j \in Jobs |-> 0]
    /\ phase = [j \in Jobs |-> "none"] /\ app = [j \in Jobs |-> 0]
    /\ ids = 0 /\ ends = {}
    /\ log \in Earlier

Fig6aNext == Script \/ Write \/ \E j \in Jobs : Job(j)

-----------------------------------------------------------------------------
(* Properties.                                                             *)

Fig6aTypeOK ==
    /\ pc \in {"idle", "gap", "wait", "done"}
    /\ k \in 0 .. N /\ interval0 \in BOOLEAN
    /\ nm0 \in Nat /\ apps \in [Jobs -> Nat]
    /\ phase \in [Jobs -> {"none", "starting", "uploading", "running", "over"}]
    /\ app \in [Jobs -> Nat] /\ ids \in Nat
    /\ ends \subseteq Jobs
    /\ log \in Seq(Line)

\* With interval 0 the application ids are in the order of submission, so that
\* the earliest job is the first (fig6a.sh:39).
AppIdsInOrder ==
    interval0 => \A i, j \in Jobs : i < j /\ app[i] # 0 /\ app[j] # 0 => app[i] < app[j]

\* The script ends whatever becomes of the jobs, unless with interval 0 it
\* waits for the id of one that ended without (fig6a.sh:40-44, 50).
ScriptEnds ==
    pc # "idle" ~> \/ pc = "done"
                   \/ interval0 /\ pc = "gap" /\ phase[k] = "over" /\ app[k] = 0
=============================================================================
