------------------------------ MODULE Hadoop27 ------------------------------
(***************************************************************************)
(* The experiment on Hadoop 2.7: the image of the tasks is fetched and     *)
(* loaded (x86-server/README.md), then fig6a.sh runs its jobs, whose log   *)
(* the two readers evaluate.                                               *)
(***************************************************************************)
EXTENDS FetchImage, Fig6aLog

vars == <<fetch, fig6a>>

Init == FetchInit /\ Fig6aInit

\* The jobs need the image, and nobody fetches it again while they run.  They
\* do not depend on the network any more: it is taken to be reliable then.
Fetching == pc = "idle"

Next ==
    \/ Fetching /\ FetchNext /\ UNCHANGED fig6a
    \/ at = "done" /\ loaded # None /\ reliable /\ Fig6aNext /\ UNCHANGED fetch

\* The script of the download ends if it is not broken off, and is run again
\* after a failure; a job ends some time, and the driver goes on when it can.
Spec ==
    /\ Init /\ [][Next]_vars
    /\ WF_vars(Fetching /\ (FetchStep \/ Run) /\ UNCHANGED fig6a)
    /\ WF_vars((GapOver \/ Collect) /\ UNCHANGED fetch)
    /\ \A j \in Jobs : WF_vars(JobEnds(j) /\ UNCHANGED fetch)

TypeOK == FetchTypeOK /\ Fig6aTypeOK
=============================================================================
