----------------------------- MODULE MCHadoop27 -----------------------------
(***************************************************************************)
(* A manifest like that of the real image: the top layer is listed twice,  *)
(* and two layers share a blob.  The log of an earlier run, with the       *)
(* application ids of this one, and the lines that are written about the   *)
(* first executor e1, the relaunched e2 and l1 of a second attempt.        *)
(***************************************************************************)
EXTENDS Hadoop27

CONSTANTS top, middle, base, b1, b2, e1, e2, l1

MCLayers ==
    << [id |-> top, blob |-> b1], [id |-> top, blob |-> b1],
       [id |-> middle, blob |-> b2], [id |-> base, blob |-> b1] >>

OldLine(id, box, what) == [old |-> TRUE, app |-> id, box |-> box, what |-> what]

EarlierRun ==
    {<< OldLine(2, e1, "kill"), OldLine(1, e1, "slack"), OldLine(0, "none", "stop") >>}

SomeEvents ==
    {<<e1, what>> : what \in OfContainer} \cup {<<e2, "cut">>}
    \cup {<<l1, what>> : what \in {"kill", "slack", "cut"}}
=============================================================================
