------------------------ MODULE MCIncrementalEngine -------------------------
(***************************************************************************)
(* The engine with three bands of one row.  The items are chosen so that   *)
(* each filter decides some pair: A and B are a finding; A and C share a   *)
(* band but their estimate is too low; A and D pass the estimate and fail  *)
(* the exact check; B and C are a finding.  A and B against B and C is a   *)
(* change within the tolerance; pairs of two files are in two modules.     *)
(***************************************************************************)
EXTENDS IncrementalEngine

CONSTANT Whole

g1 == [name |-> "parse", line |-> 1]
g2 == [name |-> "parse", line |-> 9]

A(g) == [granule |-> g, sketch |-> <<0, 0, 0>>, set |-> {1, 2, 3, 6, 7}]
B(g) == [granule |-> g, sketch |-> <<0, 0, 1>>, set |-> {1, 2, 3, 4}]
C(g) == [granule |-> g, sketch |-> <<0, 1, 1>>, set |-> {2, 3, 4, 5}]
D(g) == [granule |-> g, sketch |-> <<0, 0, 2>>, set |-> {1, 8, 9}]

MCSketches == {A(g1).sketch, B(g1).sketch, C(g1).sketch, D(g1).sketch}

(* One function; two of them; the first moved to other lines, with another *)
(* in its place.                                                           *)
MCItems ==
  [absent |-> <<>>, a |-> <<A(g1)>>, bc |-> <<B(g1), C(g2)>>, c |-> <<C(g1)>>,
   da |-> <<D(g1), A(g2)>>]

MCGranules == {g1, g2}

C1 == INSTANCE Classifier WITH
  Components <- [p \in Paths |-> <<p, "file">>], Whole <- Whole, TestNames <- {"tests"},
  GenericNames <- {"main"}, TinyBelow <- 4

MCClassify(pk, v) ==
  LET k == CHOOSE x \in pk : TRUE
      l == CHOOSE x \in pk : pk = {k, x}
      end(key, unique) == [path |-> key.path, granule |-> key.granule, unique |-> unique]
      found == C1!ClassifyWithRoot(<<>>, v, end(k, Min(v.sizes)), end(l, Max(v.sizes)))
  IN  [tags |-> found.tags, score |-> found.score]

(* The filters of the engine do not depend on which endpoint is first.     *)
ASSUME SymmetricAssumption == Algebra!FindingsAssumption
=============================================================================
