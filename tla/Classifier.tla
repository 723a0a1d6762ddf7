----------------------------- MODULE Classifier -----------------------------
(***************************************************************************)
(* classifier/src/lib.rs and verifier/src/lib.rs: the overlap of two sets  *)
(* of fingerprints, and the tags and score of a pair.  An end of a pair    *)
(* has a path, a granule (Whole for a file) and its number of unique       *)
(* fingerprints.  A score is a fraction <<n, d>>; the rounding of f32 is   *)
(* left out.                                                               *)
(***************************************************************************)
EXTENDS Naturals, Sequences, FiniteSets, SequencesExt

CONSTANTS
  Components,      (* path -> its components below the scanned directory   *)
  Whole,           (* the granule of a whole file                          *)
  TestNames,       (* components is_test_path takes for tests              *)
  GenericNames,    (* GENERIC_NAMES, in any case                           *)
  TinyBelow        (* 15 in the code                                       *)

ASSUME ClassifierAssumption ==
  /\ \A p \in DOMAIN Components :
       Components[p] \in Seq(Range(Components[p])) /\ Components[p] # <<>>
  /\ TinyBelow \in Nat

-----------------------------------------------------------------------------
(* Fractions in order: s <= t.                                             *)
AtMost(s, t) == s[1] * t[2] <= t[1] * s[2]

Overlap(A, B) ==
  [shared |-> Cardinality(A \cap B),
   union |-> Cardinality(A) + Cardinality(B) - Cardinality(A \cap B)]

Jaccard(v) == IF v.union = 0 THEN <<0, 1>> ELSE <<v.shared, v.union>>

(* Slip: the scanned directory is not taken off the paths.                 *)
StripRootNever(root, components) == components

(* Path::strip_prefix, or the path as it is where that fails.              *)
StripRoot(root, components) ==
  IF IsPrefix(root, components)
    THEN SubSeq(components, Len(root) + 1, Len(components))
    ELSE components

Relative(root, end) == StripRoot(root, root \o Components[end.path])

IsTestPath(components) == \E n \in DOMAIN components : components[n] \in TestNames

HasGenericFnName(end) == end.granule # Whole /\ end.granule.name \in GenericNames

(* The first component; a file directly in the scanned directory is a      *)
(* module of its own.                                                      *)
TopModule(components) == components[1]

IsSubset(v, a, b) ==
  LET small == IF a.unique < b.unique THEN a.unique ELSE b.unique
  IN  small > 0 /\ a.unique # b.unique /\ 20 * v.shared > 19 * small

TagsOf(root, v, a, b) ==
  {tag \in {"TestOnly", "GenericName", "Tiny", "CrossModule", "Subset"} :
     CASE tag = "TestOnly" -> /\ IsTestPath(Relative(root, a))
                              /\ IsTestPath(Relative(root, b))
       [] tag = "GenericName" -> HasGenericFnName(a) \/ HasGenericFnName(b)
       [] tag = "Tiny" -> a.unique < TinyBelow /\ b.unique < TinyBelow
       [] tag = "CrossModule" ->
            TopModule(Relative(root, a)) # TopModule(Relative(root, b))
       [] tag = "Subset" -> IsSubset(v, a, b)}

Factor(tags, tag, n, d) == IF tag \in tags THEN <<n, d>> ELSE <<1, 1>>
Times(s, t) == <<s[1] * t[1], s[2] * t[2]>>
Capped(s) == IF AtMost(s, <<1, 1>>) THEN s ELSE <<1, 1>>

(* The cap of the cross-module bonus comes last, so it hides no damping.   *)
ScoreOf(v, tags) ==
  LET damped == Times(Times(Times(Jaccard(v), Factor(tags, "TestOnly", 2, 5)),
                            Factor(tags, "GenericName", 3, 5)),
                      Factor(tags, "Tiny", 1, 2))
  IN  Capped(Times(damped, Factor(tags, "CrossModule", 7, 5)))

(* classify_with_root.                                                     *)
ClassifyWithRoot(root, v, a, b) ==
  LET tags == TagsOf(root, v, a, b)
  IN  [a |-> a, b |-> b, shared |-> v.shared, jaccard |-> Jaccard(v),
       tags |-> tags, score |-> ScoreOf(v, tags)]
=============================================================================
