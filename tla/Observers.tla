----------------------------- MODULE Observers ------------------------------
(***************************************************************************)
(* The two programs that watch a container and leave it alone:             *)
(* evidence/05-ab-test-script.py judges every snapshot by the old and by   *)
(* the new logic and counts, passive_sampler.py prints what it reads.      *)
(***************************************************************************)
EXTENDS ContainerMonitor

CONSTANT MaxPolls   \* bound: the polls of the A/B script that are counted

VARIABLES polls, old_fired, new_fired, disagree

counts == <<polls, old_fired, new_fired, disagree>>

-----------------------------------------------------------------------------
(* evaluate_both(prev, curr): the script's own text of the decision, as it *)
(* was and as it is.                                                       *)

over_limit == curr.current + curr.swap > curr.max

d_swap == curr.swap - prevSwap

\* d_in > 0 or d_out > 0, where memory.stat has the two counters.
swap_activity == (hasPswp /\ curr.moved) \/ (~hasPswp /\ d_swap > 0)

swap_saturated == swapMax # Unlimited /\ Whole * curr.swap >= Saturating * swapMax

Old == over_limit /\ swap_activity

New == over_limit /\ (swap_activity \/ swap_saturated)

One(condition) == IF condition THEN 1 ELSE 0

\* Mutant: every poll that the new logic reports counts as a disagreement.
CountNew ==
    /\ polls' = polls + 1
    /\ old_fired' = old_fired + One(Old)
    /\ new_fired' = new_fired + One(New)
    /\ disagree'  = disagree + One(New)

Count ==
    /\ polls' = polls + 1
    /\ old_fired' = old_fired + One(Old)
    /\ new_fired' = new_fired + One(New)
    /\ disagree'  = disagree + One(Old # New)

\* A poll of main().
Judge ==
    /\ pc = "evaluate" /\ program = "ab"
    /\ \/ polls < MaxPolls /\ Count
       \/ polls = MaxPolls /\ UNCHANGED counts
    /\ NextPoll
    /\ Goto("sleep")
    /\ UNCHANGED <<kernel, throttled, reliable>>

\* sample(): memory.events is read, the line printed.
Sample ==
    /\ pc = "read_stat" /\ program = "sampler"
    /\ alive
    /\ curr' = Blank
    /\ Goto("sleep")
    /\ UNCHANGED <<kernel, prevSwap, throttled, reliable, counts>>

Observe == Judge \/ Sample

ObserversInit == polls = 0 /\ old_fired = 0 /\ new_fired = 0 /\ disagree = 0

ObserversTypeOK ==
    polls \in Nat /\ old_fired \in Nat /\ new_fired \in Nat /\ disagree \in Nat
=============================================================================
