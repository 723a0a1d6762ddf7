------------------------- MODULE IncrementalEngine --------------------------
(***************************************************************************)
(* IncrementalEngine (crates/engine/src/lib.rs): the LSH index, the exact  *)
(* fingerprint sets keyed by ItemKey and the findings keyed by PairKey,    *)
(* built by initial_scan and kept current by update.                       *)
(*                                                                         *)
(* A content of a file stands for the items process_path makes of it: per  *)
(* function a granule (name and lines), a sketch and the set of unique     *)
(* fingerprints; whole-file mode is the case of one item per content.  A   *)
(* finding keeps what its score and tags are computed from: the overlap of *)
(* the two sets and their sizes, besides its key.  The order in which the  *)
(* walker and a change set list the paths only permutes ids and is fixed.  *)
(***************************************************************************)
EXTENDS LshIndex, SequencesExt, FiniteSetsExt

CONSTANTS
  Excluded,     (* files the workspace walk skips (ignore rules, excludes) *)
  Contents,     (* what a file may hold                                    *)
  Absent,       (* ... when it does not exist                              *)
  Items,        (* content -> sequence of [granule, sketch, set]           *)
  MinNum, MinDen,  (* opts.min_jaccard, as a fraction                      *)
  Classify(_, _),  (* the tags and score of a pair key and an overlap, the
                      score as a fraction (classify_with_root)             *)
  EpsDen,       (* 10000 in the code: scores this part of 1 apart differ   *)
  MaxStale      (* bound: files edited and not yet processed, at a time    *)

(* An item is made of at least one fingerprint (build_item).               *)
ASSUME EngineAssumption ==
  /\ IsFiniteSet(Paths)
  /\ Excluded \subseteq Paths
  /\ Absent \in Contents
  /\ Items \in [Contents -> Seq([granule : Granules, sketch : Sketches, set : SUBSET Nat])]
  /\ \A c \in Contents : \A n \in DOMAIN Items[c] :
       IsFiniteSet(Items[c][n].set) /\ Items[c][n].set # {}
  /\ Items[Absent] = <<>>
  /\ MinNum \in Nat /\ MinDen \in Nat \ {0} /\ MinNum <= MinDen

VARIABLES
  disk,         (* the files as they are                                   *)
  indexed,      (* the files as they were last processed (history)         *)
  unique_sets,  (* ItemKey -> set of unique fingerprints                   *)
  findings,     (* PairKey -> exact intersection and union                 *)
  result        (* the diff the last update returned                       *)

engineVars == <<disk, indexed, index, unique_sets, findings, result>>

(* A scan returns its findings and no diff.                                *)
NoDiff == [of |-> "scan", added |-> {}, removed |-> {}, updated |-> {}]

-----------------------------------------------------------------------------
(* Keys.  A pair key has its endpoints in canonical order: it is a set.    *)

ItemKeyOf(ix, id) == [path |-> ix.files[id].path, granule |-> ix.files[id].granule]

PairKeyOf(ix, i, j) == {ItemKeyOf(ix, i), ItemKeyOf(ix, j)}

SketchPasses(s, t) ==
  SketchAgreement(s, t) * MinDen >= MinNum * (Bands * Rows)

(* exact_jaccard and verify.                                               *)
ExactOverlap(A, B) ==
  [shared |-> Cardinality(A \cap B), union |-> Cardinality(A \cup B),
   sizes |-> {Cardinality(A), Cardinality(B)}]

ExactPasses(v) == v.shared * MinDen >= MinNum * v.union

ItemKeys == [path : Paths, granule : Granules]

(* A score is a fraction.                                                  *)
ASSUME ClassifyAssumption ==
  /\ EpsDen \in Nat \ {0}
  /\ \A k, l \in ItemKeys, c, d \in Contents : \A m \in DOMAIN Items[c], n \in DOMAIN Items[d] :
       Classify({k, l}, ExactOverlap(Items[c][m].set, Items[d][n].set)).score \in Nat \X Nat

(* finding_changed: the score or the Jaccard moved by more than the        *)
(* tolerance, or the overlap or the tags are others.                       *)
Apart(s, t) ==
  LET a == s[1] * t[2]
      b == t[1] * s[2]
  IN  EpsDen * (IF a < b THEN b - a ELSE a - b) > s[2] * t[2]

FindingChanged(pk, prev, curr) ==
  \/ Apart(Classify(pk, prev).score, Classify(pk, curr).score)
  \/ Apart(<<prev.shared, prev.union>>, <<curr.shared, curr.union>>)
  \/ prev.shared # curr.shared
  \/ Classify(pk, prev).tags # Classify(pk, curr).tags

-----------------------------------------------------------------------------
(* process_path on each path of a set in turn.                             *)
PathOrder == SetToSeq(Paths)

ItemsOnDisk(S) ==
  FlattenSeq([n \in DOMAIN PathOrder |->
    IF PathOrder[n] \notin S THEN <<>> ELSE
    [m \in DOMAIN Items[disk[PathOrder[n]]] |->
       [path |-> PathOrder[n], item |-> Items[disk[PathOrder[n]]][m]]]])

(* insert_item on the two maps it changes: of the items with one key the   *)
(* last one's set stays.                                                   *)
InsertIndex(ix, inserted) ==
  AddAll(ix, [n \in DOMAIN inserted |->
                [path |-> inserted[n].path, granule |-> inserted[n].item.granule,
                 sketch |-> inserted[n].item.sketch]])

InsertSetsIfNew(unique, inserted) ==
  LET KeyAt(n) == [path |-> inserted[n].path, granule |-> inserted[n].item.granule]
      keys == {KeyAt(n) : n \in DOMAIN inserted}
  IN  [k \in DOMAIN unique \cup keys |->
         IF k \in DOMAIN unique THEN unique[k]
         ELSE inserted[Max({n \in DOMAIN inserted : KeyAt(n) = k})].item.set]

InsertSets(unique, inserted) ==
  LET KeyAt(n) == [path |-> inserted[n].path, granule |-> inserted[n].item.granule]
      keys == {KeyAt(n) : n \in DOMAIN inserted}
  IN  [k \in DOMAIN unique \cup keys |->
         IF k \in keys
         THEN inserted[Max({n \in DOMAIN inserted : KeyAt(n) = k})].item.set
         ELSE unique[k]]

(* verify_and_classify looks the exact sets up by ItemKey; the set is      *)
(* empty where it rejects the pair.                                        *)
VerifyAndClassify(ix, unique, i, j) ==
  {v \in {ExactOverlap(unique[ki], unique[kj]) :
            ki \in {ItemKeyOf(ix, i)} \cap DOMAIN unique,
            kj \in {ItemKeyOf(ix, j)} \cap DOMAIN unique} : ExactPasses(v)}

(* The findings the candidates give: where several candidates have one     *)
(* pair key, the map keeps the one inserted last, and hash maps iterate in *)
(* any order.  same_endpoint drops pairs of equal keys.                    *)
FindingMaps(ix, unique, candidates) ==
  LET verdicts == [pk \in {PairKeyOf(ix, ij[1], ij[2]) : ij \in candidates} |->
                     UNION {VerifyAndClassify(ix, unique, ij[1], ij[2]) :
                              ij \in {c \in candidates :
                                        PairKeyOf(ix, c[1], c[2]) = pk}}]
      keys == {pk \in DOMAIN verdicts :
                 verdicts[pk] # {} /\ Cardinality(pk) = 2}
      clashes == {pk \in keys : Cardinality(verdicts[pk]) > 1}
      choices == {c \in [clashes -> UNION {verdicts[pk] : pk \in clashes}] :
                    \A pk \in clashes : c[pk] \in verdicts[pk]}
  IN  {[pk \in keys |-> IF pk \in clashes THEN c[pk]
                        ELSE CHOOSE v \in verdicts[pk] : TRUE] : c \in choices}

-----------------------------------------------------------------------------
NoSets == [k \in {} |-> {}]

EngineInit ==
  /\ disk \in [Paths -> Contents]
  /\ indexed = [p \in Paths |-> Absent]
  /\ index = EmptyIndex
  /\ unique_sets = NoSets
  /\ findings = [pk \in {} |-> {}]
  /\ result = NoDiff

Stale(files) == {p \in Paths \ Excluded : files[p] # indexed[p]}

(* Somebody changes, creates or deletes a file.                            *)
EditFile(p, c) ==
  /\ disk' = [disk EXCEPT ![p] = c]
  /\ Cardinality(Stale(disk')) <= MaxStale
  /\ UNCHANGED <<indexed, index, unique_sets, findings, result>>

InitialScan ==
  LET items == ItemsOnDisk(Paths \ Excluded)
      ix == InsertIndex(EmptyIndex, items)
      unique == InsertSets(NoSets, items)
      candidates == {ij \in CandidatePairs(ix) :
                       SketchPasses(ix.sketches[ij[1]], ix.sketches[ij[2]])}
  IN  /\ findings' \in FindingMaps(ix, unique, candidates)
      /\ index' = ix
      /\ unique_sets' = unique
      /\ indexed' = [p \in Paths |-> IF p \in Excluded THEN Absent ELSE disk[p]]
      /\ result' = NoDiff
      /\ UNCHANGED disk

(* Step 1 of update: the pair keys of the old entries of the changed paths *)
(* and all their live partners.                                            *)
TouchedAfterRemoval(S) ==
  UNION {{PairKeyOf(index, i, j) : j \in PartnersOf(RemoveAll(index, S), i)} :
           i \in UNION {IdsForPath(index, p) : p \in S}}

TouchedByOld(S) ==
  UNION {{PairKeyOf(index, i, j) : j \in PartnersOf(index, i)} :
           i \in UNION {IdsForPath(index, p) : p \in S}}

(* Steps 3 and 4, for the new ids: a partner is looked for when the id is  *)
(* inserted, so each pair is met when the later of the two is.             *)
NewCandidatesAmongNew(ix, newIds) ==
  {ij \in CandidatePairs(ix) :
     /\ {ij[1], ij[2]} \subseteq newIds
     /\ SketchPasses(ix.sketches[ij[1]], ix.sketches[ij[2]])}

NewCandidates(ix, newIds) ==
  {ij \in CandidatePairs(ix) :
     /\ ij[2] \in newIds
     /\ SketchPasses(ix.sketches[ij[1]], ix.sketches[ij[2]])}

(* One turn of the loop that takes the diff: the touched pair is taken out *)
(* of what was verified again, and the findings change as it goes.         *)
Put(map, pk, v) == [k \in DOMAIN map \cup {pk} |-> IF k = pk THEN v ELSE map[k]]
Without(map, pk) == [k \in DOMAIN map \ {pk} |-> map[k]]

(* Slip: the finding stays among those verified again.                     *)
DiffTurnKeepingFresh(pk, s) ==
  LET known == pk \in DOMAIN s.findings
      found == pk \in DOMAIN s.fresh
      put == [s EXCEPT !.findings = Put(s.findings, pk, s.fresh[pk])]
  IN  CASE ~known /\ ~found -> s
        [] ~known /\ found -> [put EXCEPT !.added = @ \cup {pk}]
        [] known /\ ~found -> [s EXCEPT !.findings = Without(s.findings, pk),
                                        !.removed = @ \cup {pk}]
        [] known /\ found -> IF FindingChanged(pk, s.findings[pk], s.fresh[pk])
                               THEN [put EXCEPT !.updated = @ \cup {pk}] ELSE put

DiffTurn(pk, s) ==
  LET known == pk \in DOMAIN s.findings
      found == pk \in DOMAIN s.fresh
      put == [s EXCEPT !.findings = Put(s.findings, pk, s.fresh[pk]),
                       !.fresh = Without(s.fresh, pk)]
  IN  CASE ~known /\ ~found -> s
        [] ~known /\ found -> [put EXCEPT !.added = @ \cup {pk}]
        [] known /\ ~found -> [s EXCEPT !.findings = Without(s.findings, pk),
                                        !.removed = @ \cup {pk}]
        [] known /\ found -> IF FindingChanged(pk, s.findings[pk], s.fresh[pk])
                               THEN [put EXCEPT !.updated = @ \cup {pk}] ELSE put

LoopStart(fresh) ==
  [findings |-> findings, fresh |-> fresh, added |-> {}, removed |-> {}, updated |-> {}]

(* The loop over the touched pairs, each once and in any order: a turn     *)
(* changes what is of its own pair.  What was verified and not touched is  *)
(* added behind the loop.                                                  *)
TakeDiff(touched, fresh) ==
  LET end == FoldSet(DiffTurn, LoopStart(fresh), touched)
  IN  /\ findings' = [pk \in DOMAIN end.findings \cup DOMAIN end.fresh |->
                        IF pk \in DOMAIN end.fresh THEN end.fresh[pk] ELSE end.findings[pk]]
      /\ result' = [of |-> "update", added |-> end.added \cup DOMAIN end.fresh,
                    removed |-> end.removed, updated |-> end.updated]

(* update: snapshot, tombstone, re-insert, drop the exact sets of the keys *)
(* that did not come back, verify, diff, and compact when more than a      *)
(* quarter of the entries is dead.                                         *)
Update(S) ==
  LET items == ItemsOnDisk(S)
      ix == InsertIndex(RemoveAll(index, S), items)
      newIds == (Len(index.files) + 1)..Len(ix.files)
      oldKeys == {ItemKeyOf(index, i) : i \in UNION {IdsForPath(index, p) : p \in S}}
      newKeys == {ItemKeyOf(ix, i) : i \in newIds}
      sets == InsertSets(unique_sets, items)
      unique == Restrict(sets, DOMAIN sets \ (oldKeys \ newKeys))
      candidates == NewCandidates(ix, newIds)
      touched == TouchedByOld(S)
                 \cup {PairKeyOf(ix, ij[1], ij[2]) : ij \in candidates}
  IN  /\ S # {}
      /\ \E fresh \in FindingMaps(ix, unique, candidates) : TakeDiff(touched, fresh)
      /\ index' = IF RatioAboveQuarter(ix) THEN Compact(ix) ELSE ix
      /\ unique_sets' = unique
      /\ indexed' = [p \in Paths |-> IF p \in S THEN disk[p] ELSE indexed[p]]
      /\ UNCHANGED disk

EngineNext ==
  \/ \E p \in Paths, c \in Contents : EditFile(p, c)
  \/ InitialScan
  \/ \E S \in SUBSET Paths : Update(S)

EngineSpec == EngineInit /\ [][EngineNext]_engineVars
-----------------------------------------------------------------------------
(* The engine as the algebra of IncrementalFindings on items.              *)

ItemSets == [c \in Contents |-> Range(Items[c])]
ItemsShareBand(i, j) == ShareBand(i.sketch, j.sketch)
ItemsClose(i, j) == SketchPasses(i.sketch, j.sketch)
NoOverlap == [shared |-> 0, union |-> 0, sizes |-> {}]
ItemsVerdict(i, j) == LET v == ExactOverlap(i.set, j.set)
                      IN  IF ExactPasses(v) THEN v ELSE NoOverlap
FindingSet == {[pair |-> pk, verdict |-> findings[pk]] : pk \in DOMAIN findings}

Algebra == INSTANCE IncrementalFindings WITH
  Items <- ItemSets, ShareBand <- ItemsShareBand, SketchClose <- ItemsClose,
  Verdict <- ItemsVerdict, Rejected <- NoOverlap, findings <- FindingSet

Verdicts == [shared : Nat, union : Nat, sizes : SUBSET Nat]

(* The index has its shape and the maps are keyed by the right keys.       *)
EngineTypeOK ==
  /\ IndexTypeOK
  /\ Algebra!FindingsTypeOK
  /\ DOMAIN unique_sets \subseteq ItemKeys
  /\ DOMAIN findings \subseteq {{k, l} : k \in ItemKeys, l \in ItemKeys}
  /\ Range(findings) \subseteq Verdicts

(* The findings among the files the walk visits, through any sequence of   *)
(* edits and updates in any batches, are those a one-shot scan of the same *)
(* contents reports (the assertions of                                     *)
(* incremental_initial_scan_matches_full_scan and of                       *)
(* incremental_round_trip_against_full_rebuild).                           *)
MatchesFullScan == Algebra!RoundTrip

(* Each update changes the findings exactly as the algebra does, though it *)
(* works on ids, tombstones and buckets and compacts in between.           *)
ImplementsAlgebra == Algebra!FindingsSpec

(* The live entries of the index and the exact sets the verifier reads are *)
(* those of the contents last processed: nothing of an older content is    *)
(* left and nothing is missing ("shouldn't happen" in verify_and_classify). *)
CachesCurrent ==
  LET entries == Algebra!EntriesOf(Paths, indexed)
  IN  /\ {[path |-> index.files[i].path, granule |-> index.files[i].granule,
           sketch |-> index.sketches[i]] : i \in LiveIds(index)}
           = {[path |-> e.path, granule |-> e.item.granule,
               sketch |-> e.item.sketch] : e \in entries}
      /\ DOMAIN unique_sets = {Algebra!Key(e) : e \in entries}
      /\ \A e \in entries : unique_sets[Algebra!Key(e)] = e.item.set

(* What the engine keeps of the contents is in step with them.             *)
EngineConsistent == EngineTypeOK /\ CachesCurrent

(* The diff an update returns is the difference between the findings of    *)
(* the contents processed before and of those processed now, each verified *)
(* from nothing: no pair is missed because it was not touched, or named    *)
(* twice because the findings change while the diff is taken, and an       *)
(* update is one by finding_changed.                                       *)
PairsOf(found) == {x.pair : x \in found}

DiffExact ==
  [][(UNCHANGED disk /\ result'.of = "update") =>
       LET old == Algebra!FindingsAmong(indexed)
           new == Algebra!FindingsAmong(indexed')
       IN  /\ result'.added = PairsOf(new) \ PairsOf(old)
           /\ result'.removed = PairsOf(old) \ PairsOf(new)
           /\ result'.updated = PairsOf({x \in new : \E y \in old :
                y.pair = x.pair /\ FindingChanged(x.pair, y.verdict, x.verdict)})
    ]_engineVars
=============================================================================
