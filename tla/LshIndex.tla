------------------------------ MODULE LshIndex ------------------------------
(***************************************************************************)
(* The banded LSH index over MinHash sketches (LshIndex in                 *)
(* crates/index/src/lib.rs).  Entries get consecutive ids; removal only    *)
(* marks them dead and leaves them in their buckets; compaction drops the  *)
(* dead and renumbers the others.                                          *)
(*                                                                         *)
(* The operations are operators on the whole index, so that the engine can *)
(* apply several of them in one of its steps (IncrementalEngine); here     *)
(* each of them is an action.  Ids start at 1 instead of 0, a bucket's     *)
(* list is a set (an id enters a bucket once), and the 64-bit band hash is *)
(* the pair of band number and rows it is computed from: a collision would *)
(* only add candidates, which the exact verification rejects.              *)
(***************************************************************************)
EXTENDS Naturals, Sequences, FiniteSets

CONSTANTS
  Paths,        (* the files                                               *)
  Granules,     (* GranuleInfo: name and line range; one value in file mode *)
  Bands, Rows,  (* the shape of a sketch: Bands * Rows slots               *)
  Slots,        (* the values of a slot                                    *)
  Sketches,     (* the sketches that occur                                 *)
  MaxEntries    (* bound: entries in the index, dead ones included         *)

ASSUME LshIndexAssumption ==
  /\ Bands \in Nat \ {0}
  /\ Rows \in Nat \ {0}
  /\ Sketches \subseteq [1..(Bands * Rows) -> Slots]
  /\ MaxEntries \in Nat

VARIABLE index

-----------------------------------------------------------------------------
(* Sketches and their bands.                                               *)

BandKey == (1..Bands) \X [1..Rows -> Slots]

BandHashOffByOne(s, b) ==
  <<b, [r \in 1..Rows |-> s[1 + ((b * Rows + r) % (Bands * Rows))]]>>

BandHash(s, b) == <<b, [r \in 1..Rows |-> s[(b - 1) * Rows + r]]>>

BandKeys(s) == {BandHash(s, b) : b \in 1..Bands}

ShareBand(s, t) == \E b \in 1..Bands :
                     \A r \in 1..Rows : s[(b - 1) * Rows + r] = t[(b - 1) * Rows + r]

(* jaccard_from_sketches, as the number of equal slots out of Bands * Rows. *)
SketchAgreement(s, t) == Cardinality({i \in DOMAIN s : s[i] = t[i]})

-----------------------------------------------------------------------------
(* The index and its operations, each on a batch: the engine adds and      *)
(* removes one batch per update, the steps below batches of one.           *)

EmptyIndex ==
  [files |-> <<>>, sketches |-> <<>>,
   buckets |-> {},
   path_to_ids |-> [p \in Paths |-> {}],
   tombstoned |-> 0]

Ids(ix) == DOMAIN ix.files

IsAlive(ix, id) == id \in Ids(ix) /\ ix.files[id].alive

LiveIds(ix) == {id \in Ids(ix) : IsAlive(ix, id)}

IdsForPath(ix, p) == ix.path_to_ids[p]

(* add_file and add_granule for each entry of a sequence in turn.          *)
AddAll(ix, entries) ==
  LET n == Len(ix.files)
  IN  [ix EXCEPT
         !.files = @ \o [m \in DOMAIN entries |->
                           [path |-> entries[m].path,
                            granule |-> entries[m].granule, alive |-> TRUE]],
         !.sketches = @ \o [m \in DOMAIN entries |-> entries[m].sketch],
         !.buckets = @ \cup UNION {BandKeys(entries[m].sketch) \X {n + m} :
                                     m \in DOMAIN entries},
         !.path_to_ids = [p \in Paths |->
                            @[p] \cup {n + m : m \in {i \in DOMAIN entries :
                                          entries[i].path = p}}]]

(* remove_by_path for each path of a set.                                  *)
RemoveAllWithPathKept(ix, S) ==
  LET ids == UNION {ix.path_to_ids[p] : p \in S}
  IN  [ix EXCEPT
         !.files = [id \in Ids(ix) |-> [ix.files[id] EXCEPT !.alive = @ /\ id \notin ids]],
         !.tombstoned = @ + Cardinality(ids)]

RemoveAll(ix, S) ==
  LET ids == UNION {ix.path_to_ids[p] : p \in S}
  IN  [ix EXCEPT
         !.path_to_ids = [p \in Paths |-> IF p \in S THEN {} ELSE @[p]],
         !.files = [id \in Ids(ix) |-> [ix.files[id] EXCEPT !.alive = @ /\ id \notin ids]],
         !.tombstoned = @ + Cardinality({id \in ids : IsAlive(ix, id)})]

(* The ids that survive, in their old order: position n becomes id n.      *)
SurvivorsByCount(ix) == [n \in 1..Cardinality(LiveIds(ix)) |-> n]

Survivors(ix) ==
  LET live == LiveIds(ix)
  IN  [n \in 1..Cardinality(live) |->
         CHOOSE id \in live : Cardinality({i \in live : i <= id}) = n]

Compact(ix) ==
  LET kept == Survivors(ix)
      sketches == [n \in DOMAIN kept |-> ix.sketches[kept[n]]]
      files == [n \in DOMAIN kept |-> ix.files[kept[n]]]
  IN  IF ix.tombstoned = 0 THEN ix ELSE
      [files |-> files,
       sketches |-> sketches,
       buckets |-> UNION {BandKeys(sketches[n]) \X {n} : n \in DOMAIN kept},
       path_to_ids |-> [p \in Paths |->
                          {n \in DOMAIN kept : files[n].path = p}],
       tombstoned |-> 0]

(* tombstone_ratio > 1/4, the engine's compact_threshold.                  *)
RatioAboveQuarter(ix) == 4 * ix.tombstoned > Len(ix.files)

-----------------------------------------------------------------------------
(* Queries.  They walk the buckets and skip the dead ids they meet.        *)

InBucketsOf(ix, s) == {b[2] : b \in {x \in ix.buckets : x[1] \in BandKeys(s)}}

QuerySketch(ix, s) == {id \in InBucketsOf(ix, s) : IsAlive(ix, id)}

PartnersOfLive(ix, id) ==
  {other \in InBucketsOf(ix, ix.sketches[id]) :
     other # id /\ IsAlive(ix, id) /\ IsAlive(ix, other)}

PartnersOf(ix, id) ==
  {other \in InBucketsOf(ix, ix.sketches[id]) :
     other # id /\ IsAlive(ix, other)}

CandidatePairs(ix) ==
  LET alive == {b \in ix.buckets : IsAlive(ix, b[2])}
  IN  {ij \in {b[2] : b \in alive} \X {b[2] : b \in alive} :
         ij[1] < ij[2] /\ \E b \in alive : b[2] = ij[1] /\ <<b[1], ij[2]>> \in alive}

-----------------------------------------------------------------------------
AddStep(p, g, s) ==
  /\ Len(index.files) < MaxEntries
  /\ index' = AddAll(index, <<[path |-> p, granule |-> g, sketch |-> s]>>)

RemoveStep(p) == index' = RemoveAll(index, {p})

CompactStep == index' = Compact(index)

LshInit == index = EmptyIndex

LshNext ==
  \/ \E p \in Paths, g \in Granules, s \in Sketches : AddStep(p, g, s)
  \/ \E p \in Paths : RemoveStep(p)
  \/ CompactStep

LshSpec == LshInit /\ [][LshNext]_index

-----------------------------------------------------------------------------
FileMeta == [path : Paths, granule : Granules, alive : BOOLEAN]

(* The shape of the index.                                                 *)
IndexTypeOK ==
  /\ index.files \in Seq(FileMeta)
  /\ index.sketches \in Seq(Sketches)
  /\ Len(index.sketches) = Len(index.files)
  /\ index.buckets \subseteq BandKey \X Ids(index)
  /\ index.path_to_ids \in [Paths -> SUBSET Ids(index)]
  /\ index.tombstoned \in 0..Len(index.files)

(* The counter that drives compaction and file_count is the number of dead *)
(* entries, through removals of absent paths, re-adds and compactions.     *)
TombstonesCounted == index.tombstoned = Cardinality(Ids(index) \ LiveIds(index))

(* path_to_ids holds exactly the live ids of each path: a re-added path    *)
(* does not get its tombstoned ids back (readd test of the index).         *)
PathMapExact ==
  \A p \in Paths :
    IdsForPath(index, p) = {id \in LiveIds(index) : index.files[id].path = p}

(* The structures of the index agree, whatever was added, removed and      *)
(* compacted before.                                                       *)
IndexConsistent == IndexTypeOK /\ TombstonesCounted /\ PathMapExact

EntryOf(id) == [path |-> index.files[id].path, granule |-> index.files[id].granule,
                sketch |-> index.sketches[id]]

BagOfEntries(ids) ==
  [e \in [path : Paths, granule : Granules, sketch : Sketches] |->
     Cardinality({id \in ids : EntryOf(id) = e})]

Live == INSTANCE LiveEntries WITH live <- BagOfEntries(LiveIds(index))

(* Every operation does to the live entries what the abstract index says,  *)
(* and compaction does nothing to them.                                    *)
ImplementsLiveEntries == Live!LiveSpec

(* A probe finds each live entry that shares a band with the sketch, once, *)
(* and no dead one, through any history of removals and compactions.       *)
ProbesExact ==
  \A s \in Sketches : BagOfEntries(QuerySketch(index, s)) = Live!Matches(s)

(* The candidate pairs are the pairs of live entries that share a band.    *)
CandidatesExact ==
  CandidatePairs(index) =
    {ij \in LiveIds(index) \X LiveIds(index) :
       ij[1] < ij[2] /\ ShareBand(index.sketches[ij[1]], index.sketches[ij[2]])}

(* Both ways to ask the index answer as the live entries are.              *)
QueriesExact == ProbesExact /\ CandidatesExact

(* The ids a removal returns can still be asked for their partners (the    *)
(* comment on remove_by_path): they keep those that are not removed.       *)
RemovedStayQueryable ==
  [][\A p \in Paths :
       (IdsForPath(index, p) # {} /\ index' = RemoveAll(index, {p})) =>
         \A id \in IdsForPath(index, p) :
           PartnersOf(index', id) = PartnersOf(index, id) \ IdsForPath(index, p)
    ]_index
=============================================================================
