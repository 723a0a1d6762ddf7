----------------------- MODULE MCIncrementalFindings ------------------------
(***************************************************************************)
(* The algebra of findings on abstract items: r, s and t share a band, an  *)
(* estimate separates r from t, and the exact check rejects two items of   *)
(* the kind t; two granules, so that one file holds several entries.       *)
(***************************************************************************)
EXTENDS IncrementalFindings

Item(k, g) == [kind |-> k, granule |-> g]

MCItems ==
  [absent |-> {},
   rs |-> {Item("r", 1), Item("s", 2)},
   t |-> {Item("t", 1), Item("t", 2)},
   u |-> {Item("u", 1)}]

MCShareBand(i, j) == i.kind = j.kind \/ {i.kind, j.kind} \subseteq {"r", "s", "t"}

MCSketchClose(i, j) == {i.kind, j.kind} # {"r", "t"}

MCVerdict(i, j) == IF {i.kind, j.kind} = {"t"} THEN {}
                   ELSE {i.kind, j.kind}
=============================================================================
