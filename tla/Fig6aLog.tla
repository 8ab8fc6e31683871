------------------------------ MODULE Fig6aLog ------------------------------
(***************************************************************************)
(* The two readers of what fig6a.sh leaves behind: fig6a-metrics.py counts *)
(* kills, OCMs, puffs and shrinks; plot-fig6a.py marks the kills, and finds *)
(* the shrinks of which it labels the largest.  Each goes through nm.log   *)
(* from its start and knows the jobs from apps.txt.  The patterns of the   *)
(* plot only match containers of the first attempt of an application.      *)
(***************************************************************************)
EXTENDS Fig6a, SequencesExt

CONSTANT FirstAttempt   \* the Boxes named _01_

ASSUME FirstAttemptAssumption == FirstAttempt \subseteq Boxes

\* Mutant: tail -n +$nm0.
NmLogFromLast == SubSeq(log, nm0, Len(log))

\* tail -n +$((nm0 + 1)).
nmLog == SubSeq(log, nm0 + 1, Len(log))

\* The job of an application id, 0 if apps.txt has none.
JobOf(id) == IF \E j \in Jobs : apps[j] = id /\ id # 0
             THEN CHOOSE j \in Jobs : apps[j] = id ELSE 0

Resizes == {"grow", "same", "cut"}

Named == Jobs \cup {0}
Zero  == [j \in Named |-> 0]

Plus(counter, j) == [counter EXCEPT ![j] = @ + 1]

-----------------------------------------------------------------------------
(* fig6a-metrics.py.                                                       *)

NothingCounted == [stop |-> FALSE, kill |-> Zero, ocm |-> Zero, puff |-> Zero, shrink |-> Zero]

\* A ballooning line counts as a puff if the size grew, else as a shrink.
CountResize(c, line) ==
    CASE line.what = "ocm"           -> [c EXCEPT !.ocm = Plus(@, JobOf(line.app))]
      [] line.what = "grow"          -> [c EXCEPT !.puff = Plus(@, JobOf(line.app))]
      [] line.what \in {"same", "cut"} -> [c EXCEPT !.shrink = Plus(@, JobOf(line.app))]
      [] OTHER                       -> c

\* Kills are counted to the end, the rest before the first stop.
CountLine(c, line) ==
    IF line.what = "kill" THEN [c EXCEPT !.kill = Plus(@, JobOf(line.app))]
    ELSE IF c.stop THEN c
    ELSE IF line.what = "stop" THEN [c EXCEPT !.stop = TRUE]
    ELSE CountResize(c, line)

metrics == FoldLeft(CountLine, NothingCounted, nmLog)

-----------------------------------------------------------------------------
(* plot-fig6a.py.                                                          *)

MarkKill(c, line) ==
    IF line.what = "kill" /\ line.box \in FirstAttempt /\ JobOf(line.app) # 0
    THEN Plus(c, JobOf(line.app)) ELSE c

plotKills == FoldLeft(MarkKill, Zero, nmLog)

NothingPaired == [slack |-> {}, shrinks |-> Zero]

Container(line) == <<line.app, line.box>>

\* Mutant: a slacking line is good for any container of the application.
PairByApp(p, line) ==
    IF line.box \notin FirstAttempt THEN p
    ELSE IF line.what = "slack" THEN [p EXCEPT !.slack = @ \cup {line.app}]
    ELSE IF line.what \in Resizes /\ line.app \in p.slack
         THEN [slack   |-> p.slack \ {line.app},
               shrinks |-> IF line.what = "cut" /\ JobOf(line.app) # 0
                           THEN Plus(p.shrinks, JobOf(line.app)) ELSE p.shrinks]
    ELSE p

\* A slacking line is paired with the next update of the same container, which
\* is a shrink if the size fell.
Pair(p, line) ==
    IF line.box \notin FirstAttempt THEN p
    ELSE IF line.what = "slack" THEN [p EXCEPT !.slack = @ \cup {Container(line)}]
    ELSE IF line.what \in Resizes /\ Container(line) \in p.slack
         THEN [slack   |-> p.slack \ {Container(line)},
               shrinks |-> IF line.what = "cut" /\ JobOf(line.app) # 0
                           THEN Plus(p.shrinks, JobOf(line.app)) ELSE p.shrinks]
    ELSE p

plotShrinks == FoldLeft(Pair, NothingPaired, nmLog).shrinks

-----------------------------------------------------------------------------
(* Properties.  They look at the node manager's whole log and tell a line  *)
(* of this run by its history, not by its place.                           *)

NewLines == {i \in DOMAIN log : ~log[i].old}

Lines(j, whats) == {i \in NewLines : log[i].app = app[j] /\ app[j] # 0 /\ log[i].what \in whats}

BeforeStop(i) == \A s \in NewLines : log[s].what = "stop" => i < s

Early(j, whats) == {i \in Lines(j, whats) : BeforeStop(i)}

\* Every count is of the lines that the heading of the script names
\* (fig6a-metrics.py:2-3), for each job: kills over the whole run, the rest
\* before the first stop ballooning of this run; nothing of an earlier run is
\* counted, whatever its ids.  A ballooning line that leaves the size as it was
\* counts as a shrink.
MetricsCount ==
    pc = "done" =>
        /\ metrics.kill[0] = 0
        /\ \A j \in Jobs :
              /\ metrics.kill[j] = Cardinality(Lines(j, {"kill"}))
              /\ metrics.ocm[j] = Cardinality(Early(j, {"ocm"}))
              /\ metrics.puff[j] = Cardinality(Early(j, {"grow"}))
              /\ metrics.shrink[j] = Cardinality(Early(j, {"same", "cut"}))

\* Those about the container that line i is about.
Alike(i, whats) ==
    {h \in NewLines : Container(log[h]) = Container(log[i]) /\ log[h].what \in whats}

InFirstAttempt(i) == log[i].box \in FirstAttempt

\* An update that takes memory away, of a container of a first attempt that was
\* found slacking since its last update.
ShrinkLines(j) ==
    {i \in Lines(j, {"cut"}) :
        /\ InFirstAttempt(i)
        /\ \E s \in Alike(i, {"slack"}) : s < i /\ Alike(i, Resizes) \cap s .. i = {i}}

\* The shrinks among which the plot looks for the one to label are exactly
\* those of the jobs, each once (plot-fig6a.py:50), and a relaunched executor's
\* updates are not taken for its predecessor's; the kills it marks are those of
\* first attempts.
PlotFindsShrinks ==
    pc = "done" => \A j \in Jobs :
        /\ plotShrinks[j] = Cardinality(ShrinkLines(j))
        /\ plotKills[j] = Cardinality({i \in Lines(j, {"kill"}) : InFirstAttempt(i)})
=============================================================================
