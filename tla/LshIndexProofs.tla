--------------------------- MODULE LshIndexProofs ---------------------------
(***************************************************************************)
(* The LSH index, proved for any number of entries, any shape of sketch    *)
(* and any history of additions, removals and compactions.  The lemmas are *)
(* about the operators on an index, so that the engine, which applies      *)
(* several of them in one step, can cite them as well.                     *)
(***************************************************************************)
EXTENDS LshIndex, FiniteSetTheorems, FunctionTheorems, SequenceTheorems, TLAPS

-----------------------------------------------------------------------------
(* Numbers, and the recursion by which FlattenSeq computes; used by the    *)
(* modules that extend this one.                                           *)

(* Every non-empty set of numbers has a least one.                         *)
LEMMA LeastNumber ==
  ASSUME NEW S \in SUBSET Nat, S # {}
  PROVE  \E x \in S : \A y \in S : x <= y
  <1>1. PICK x \in S : \A y \in S : ~(<<y, x>> \in OpToRel(<, Nat))
    BY NatLessThanWellFounded, WFMin
  <1>2. \A y \in S : ~(y < x)
    BY <1>1 DEF OpToRel
  <1>3. QED
    BY <1>2

(* The function by which FlattenSeq computes, up to k.                     *)
IsFlatten(g, seqs, k) ==
  g = [i \in 1..k |-> IF i = 1 THEN seqs[i] ELSE g[i - 1] \o seqs[i]]

(* It exists: the recursion is on smaller numbers.                         *)
LEMMA FlattenExists ==
  ASSUME NEW seqs, NEW n \in Nat
  PROVE  \E g : IsFlatten(g, seqs, n)
  <1> DEFINE Bad == {k \in Nat : \A g : ~IsFlatten(g, seqs, k)}
  <1>1. SUFFICES ASSUME Bad # {} PROVE FALSE
    OBVIOUS
  <1>2. PICK k \in Bad : \A j \in Bad : k <= j
    <2> HIDE DEF Bad
    <2>1. Bad \in SUBSET Nat
      BY DEF Bad
    <2>2. QED
      BY <1>1, <2>1, LeastNumber
  <1>3. CASE k = 0
    <2>1. IsFlatten([i \in 1..0 |-> seqs[i]], seqs, 0)
      BY DEF IsFlatten
    <2>2. QED
      BY <1>2, <1>3, <2>1
  <1>4. CASE k # 0
    <2>1. k - 1 \in Nat /\ k - 1 \notin Bad
      BY <1>2, <1>4
    <2>2. PICK f : IsFlatten(f, seqs, k - 1)
      BY <2>1
    <2> DEFINE g == [i \in 1..k |-> IF i = k THEN IF k = 1 THEN seqs[k] ELSE f[k - 1] \o seqs[k]
                                    ELSE f[i]]
    <2>3. \A i \in 1..(k - 1) : f[i] = IF i = 1 THEN seqs[i] ELSE f[i - 1] \o seqs[i]
      BY <2>2, <2>1 DEF IsFlatten
    <2>4. \A i \in 1..k : g[i] = IF i = 1 THEN seqs[i] ELSE g[i - 1] \o seqs[i]
      <3>1. TAKE i \in 1..k
      <3>2. CASE i = k /\ k = 1
        BY <3>2
      <3>3. CASE i = k /\ k # 1
        <4>1. k - 1 \in 1..k /\ k - 1 # k
          BY <3>3, <2>1
        <4>2. g[k - 1] = f[k - 1]
          BY <4>1
        <4>3. QED
          BY <3>3, <4>2
      <3>4. CASE i # k
        <4>1. i \in 1..(k - 1) /\ g[i] = f[i]
          BY <3>4, <2>1
        <4>2. i # 1 => i - 1 \in 1..k /\ i - 1 # k
          BY <2>1
        <4>3. i # 1 => g[i - 1] = f[i - 1]
          BY <4>2
        <4>4. QED
          BY <4>1, <4>3, <2>3
      <3>5. QED
        BY <3>2, <3>3, <3>4
    <2>5. IsFlatten(g, seqs, k)
      <3>1. g = [i \in 1..k |-> g[i]]
        OBVIOUS
      <3> HIDE DEF g
      <3>2. QED
        BY <3>1, <2>4 DEF IsFlatten
    <2>6. QED
      BY <1>2, <2>5
  <1>5. QED
    BY <1>3, <1>4

-----------------------------------------------------------------------------
(* The invariant, as a predicate on an index.                              *)

IndexEntry == [path : Paths, granule : Granules, sketch : Sketches]

IndexRecord ==
  [files : Seq(FileMeta), sketches : Seq(Sketches), buckets : SUBSET (BandKey \X Nat),
   path_to_ids : [Paths -> SUBSET Nat], tombstoned : Nat]

(* Each id is in the buckets of its sketch and in no other, dead or alive. *)
BucketsOf(ix) == UNION {BandKeys(ix.sketches[id]) \X {id} : id \in Ids(ix)}

LiveIdsOf(ix, p) == {id \in LiveIds(ix) : ix.files[id].path = p}

GoodIndex(ix) ==
  /\ ix \in IndexRecord
  /\ Len(ix.sketches) = Len(ix.files)
  /\ ix.buckets = BucketsOf(ix)
  /\ \A p \in Paths : ix.path_to_ids[p] = LiveIdsOf(ix, p)
  /\ ix.tombstoned = Cardinality(Ids(ix) \ LiveIds(ix))

-----------------------------------------------------------------------------
(* Sketches and bands.                                                     *)

(* A row of a band is a slot of the sketch.                                *)
LEMMA BandSlots ==
  ASSUME NEW b \in 1..Bands, NEW r \in 1..Rows
  PROVE  (b - 1) * Rows + r \in 1..(Bands * Rows)
  <1>1. /\ Bands \in Nat /\ Rows \in Nat /\ b \in Nat /\ r \in Nat
        /\ 1 <= b /\ b <= Bands /\ 1 <= r /\ r <= Rows
    BY LshIndexAssumption
  <1>2. (b - 1) * Rows + Rows <= Bands * Rows
    <2>1. PICK k \in Nat : Bands = b + k
      <3>1. Bands - b \in Nat /\ Bands = b + (Bands - b)
        BY <1>1
      <3>2. QED
        BY <3>1
    <2>2. Bands * Rows = b * Rows + k * Rows
      BY <1>1, <2>1
    <2>3. (b - 1) * Rows + Rows = b * Rows
      BY <1>1
    <2>4. k * Rows \in Nat /\ b * Rows \in Nat
      BY <1>1
    <2>5. QED
      BY <2>2, <2>3, <2>4
  <1>3. (b - 1) * Rows \in Nat
    <2>1. b - 1 \in Nat
      BY <1>1
    <2>2. QED
      BY <1>1, <2>1
  <1>4. QED
    BY <1>1, <1>2, <1>3

(* A band hash says which band it is and what the rows are.                *)
LEMMA BandHashes ==
  ASSUME NEW s \in Sketches, NEW b \in 1..Bands
  PROVE  BandHash(s, b) \in BandKey
  <1>1. \A r \in 1..Rows : s[(b - 1) * Rows + r] \in Slots
    BY BandSlots, LshIndexAssumption
  <1>2. QED
    BY <1>1 DEF BandHash, BandKey

LEMMA BandKeysType ==
  ASSUME NEW s \in Sketches
  PROVE  BandKeys(s) \subseteq BandKey
  BY BandHashes DEF BandKeys

(* Two sketches are in a common bucket when they share a band.             *)
LEMMA SharedBuckets ==
  ASSUME NEW s \in Sketches, NEW t \in Sketches
  PROVE  (\E k : k \in BandKeys(s) /\ k \in BandKeys(t)) <=> ShareBand(s, t)
  <1>1. ASSUME NEW b \in 1..Bands, NEW c \in 1..Bands, BandHash(s, b) = BandHash(t, c)
        PROVE  ShareBand(s, t)
    <2>1. b = c
      BY <1>1 DEF BandHash
    <2>2. ASSUME NEW r \in 1..Rows
          PROVE  s[(b - 1) * Rows + r] = t[(b - 1) * Rows + r]
      <3>1. BandHash(s, b)[2][r] = BandHash(t, b)[2][r]
        BY <1>1, <2>1
      <3>2. QED
        BY <3>1 DEF BandHash
    <2>3. QED
      BY <2>2 DEF ShareBand
  <1>2. ASSUME NEW b \in 1..Bands,
               \A r \in 1..Rows : s[(b - 1) * Rows + r] = t[(b - 1) * Rows + r]
        PROVE  BandHash(s, b) = BandHash(t, b)
    BY <1>2 DEF BandHash
  <1>3. QED
    BY <1>1, <1>2 DEF BandKeys, ShareBand

-----------------------------------------------------------------------------
(* The shape of the operations.                                            *)

(* What an index record says of its parts.                                 *)
LEMMA IndexShape ==
  ASSUME NEW ix \in IndexRecord, Len(ix.sketches) = Len(ix.files)
  PROVE  /\ Len(ix.files) \in Nat
         /\ Ids(ix) = 1..Len(ix.files)
         /\ DOMAIN ix.sketches = 1..Len(ix.files)
         /\ \A id \in Ids(ix) : ix.files[id] \in FileMeta /\ ix.sketches[id] \in Sketches
         /\ LiveIds(ix) = {id \in Ids(ix) : ix.files[id].alive}
         /\ LiveIds(ix) \subseteq Ids(ix) /\ IsFiniteSet(Ids(ix)) /\ IsFiniteSet(LiveIds(ix))
  <1>1. /\ Len(ix.files) \in Nat /\ Ids(ix) = 1..Len(ix.files)
        /\ DOMAIN ix.sketches = 1..Len(ix.files)
        /\ \A id \in Ids(ix) : ix.files[id] \in FileMeta /\ ix.sketches[id] \in Sketches
    BY DEF IndexRecord, Ids
  <1>2. LiveIds(ix) = {id \in Ids(ix) : ix.files[id].alive}
    BY DEF LiveIds, IsAlive
  <1>3. IsFiniteSet(Ids(ix))
    <2>1. 1 \in Int /\ Len(ix.files) \in Int
      BY <1>1
    <2>2. QED
      BY <1>1, <2>1, FS_Interval
  <1>4. IsFiniteSet(LiveIds(ix))
    BY <1>2, <1>3, FS_Subset
  <1>5. QED
    BY <1>1, <1>2, <1>3, <1>4

(* The ids in the buckets.                                                 *)
LEMMA InBuckets ==
  ASSUME NEW ix, NEW x
  PROVE  x \in BucketsOf(ix) <=>
           \E id \in Ids(ix) : \E k \in BandKeys(ix.sketches[id]) : x = <<k, id>>
  BY DEF BucketsOf

(* An index with nothing in it.                                            *)
LEMMA EmptyGood == GoodIndex(EmptyIndex) /\ LiveIds(EmptyIndex) = {}
  <1>1. Ids(EmptyIndex) = {}
    BY DEF EmptyIndex, Ids
  <1>2. LiveIds(EmptyIndex) = {}
    BY <1>1 DEF LiveIds
  <1>3. BucketsOf(EmptyIndex) = {}
    BY <1>1, InBuckets
  <1>4. Cardinality(Ids(EmptyIndex) \ LiveIds(EmptyIndex)) = 0
    BY <1>1, FS_EmptySet
  <1>5. EmptyIndex \in IndexRecord
    BY DEF EmptyIndex, IndexRecord
  <1>6. QED
    BY <1>2, <1>3, <1>4, <1>5 DEF GoodIndex, EmptyIndex, LiveIdsOf

(* Additions: the old entries stay as they were, the new ones follow.      *)
LEMMA AddAllFields ==
  ASSUME NEW ix, GoodIndex(ix), NEW entries \in Seq(IndexEntry)
  PROVE  LET n == Len(ix.files)
             ixA == AddAll(ix, entries)
         IN  /\ ixA \in IndexRecord
             /\ Len(ixA.files) = n + Len(entries)
             /\ Len(ixA.sketches) = n + Len(entries)
             /\ \A id \in 1..n : /\ ixA.files[id] = ix.files[id]
                                 /\ ixA.sketches[id] = ix.sketches[id]
             /\ \A m \in 1..Len(entries) :
                  /\ ixA.files[n + m].path = entries[m].path
                  /\ ixA.files[n + m].granule = entries[m].granule
                  /\ ixA.files[n + m].alive
                  /\ ixA.sketches[n + m] = entries[m].sketch
             /\ ixA.tombstoned = ix.tombstoned
  <1> DEFINE n == Len(ix.files)
             ixA == AddAll(ix, entries)
             metas == [m \in DOMAIN entries |->
                         [path |-> entries[m].path,
                          granule |-> entries[m].granule, alive |-> TRUE]]
             added == [m \in DOMAIN entries |-> entries[m].sketch]
             bucketed == ix.buckets \cup UNION {BandKeys(entries[m].sketch) \X {n + m} :
                                                m \in DOMAIN entries}
             mapped == [p \in Paths |->
                          ix.path_to_ids[p] \cup {n + m : m \in {i \in DOMAIN entries :
                                                        entries[i].path = p}}]
  <1>0. /\ ix \in IndexRecord /\ n \in Nat /\ Len(ix.sketches) = n
        /\ DOMAIN entries = 1..Len(entries)
        /\ \A m \in DOMAIN entries : entries[m] \in IndexEntry
    BY IndexShape DEF GoodIndex
  <1>1. /\ metas \in Seq(FileMeta) /\ Len(metas) = Len(entries)
        /\ \A m \in 1..Len(entries) :
             metas[m] = [path |-> entries[m].path, granule |-> entries[m].granule, alive |-> TRUE]
    BY <1>0 DEF FileMeta, IndexEntry
  <1>2. /\ added \in Seq(Sketches) /\ Len(added) = Len(entries)
        /\ \A m \in 1..Len(entries) : added[m] = entries[m].sketch
    BY <1>0 DEF IndexEntry
  <1>3. bucketed \in SUBSET (BandKey \X Nat)
    <2>1. ASSUME NEW m \in DOMAIN entries
          PROVE  BandKeys(entries[m].sketch) \X {n + m} \subseteq BandKey \X Nat
      BY <1>0, BandKeysType DEF IndexEntry
    <2>2. QED
      BY <1>0, <2>1 DEF IndexRecord
  <1>4. mapped \in [Paths -> SUBSET Nat]
    BY <1>0 DEF IndexRecord
  <1>5. ixA = [ix EXCEPT !.files = ix.files \o metas, !.sketches = ix.sketches \o added,
                         !.buckets = bucketed, !.path_to_ids = mapped]
    BY <1>0 DEF AddAll, IndexRecord
  <1> HIDE DEF metas, added, bucketed, mapped, ixA
  <1>6. /\ ixA.files = ix.files \o metas /\ ixA.sketches = ix.sketches \o added
        /\ ixA.buckets = bucketed /\ ixA.path_to_ids = mapped
        /\ ixA.tombstoned = ix.tombstoned
    BY <1>0, <1>5 DEF IndexRecord
  <1>7. ix.files \o metas \in Seq(FileMeta) /\ ix.sketches \o added \in Seq(Sketches)
    BY <1>0, <1>1, <1>2, ConcatProperties DEF IndexRecord
  <1>8. ixA \in IndexRecord
    BY <1>0, <1>3, <1>4, <1>5, <1>7 DEF IndexRecord
  <1>9. /\ Len(ixA.files) = n + Len(entries)
        /\ \A id \in 1..n : ixA.files[id] = ix.files[id]
        /\ \A m \in 1..Len(entries) : ixA.files[n + m] = metas[m]
    <2>1. ix.files \in Seq(FileMeta)
      BY <1>0 DEF IndexRecord
    <2>2. metas \in Seq(FileMeta)
      BY <1>1
    <2>3. /\ Len(ix.files \o metas) = Len(ix.files) + Len(metas)
          /\ \A id \in 1..Len(ix.files) : (ix.files \o metas)[id] = ix.files[id]
          /\ \A m \in 1..Len(metas) : (ix.files \o metas)[Len(ix.files) + m] = metas[m]
      BY <2>1, <2>2, SMT
    <2>4. QED
      BY <1>1, <1>6, <2>3
  <1>10. /\ Len(ixA.sketches) = n + Len(entries)
         /\ \A id \in 1..n : ixA.sketches[id] = ix.sketches[id]
         /\ \A m \in 1..Len(entries) : ixA.sketches[n + m] = added[m]
    <2>1. ix.sketches \in Seq(Sketches)
      BY <1>0 DEF IndexRecord
    <2>2. added \in Seq(Sketches)
      BY <1>2
    <2>3. /\ Len(ix.sketches \o added) = Len(ix.sketches) + Len(added)
          /\ \A id \in 1..Len(ix.sketches) : (ix.sketches \o added)[id] = ix.sketches[id]
          /\ \A m \in 1..Len(added) : (ix.sketches \o added)[Len(ix.sketches) + m] = added[m]
      BY <2>1, <2>2, SMT
    <2>4. QED
      BY <1>0, <1>2, <1>6, <2>3
  <1>11. \A m \in 1..Len(entries) : /\ ixA.files[n + m].path = entries[m].path
                                    /\ ixA.files[n + m].granule = entries[m].granule
                                    /\ ixA.files[n + m].alive
    <2>1. ASSUME NEW m \in 1..Len(entries)
          PROVE  /\ metas[m].path = entries[m].path /\ metas[m].granule = entries[m].granule
                 /\ metas[m].alive
      <3>1. metas[m] = [path |-> entries[m].path, granule |-> entries[m].granule, alive |-> TRUE]
        BY <1>1, Zenon
      <3>2. QED
        BY <3>1
    <2>2. QED
      BY <1>9, <2>1, Zenon
  <1>12. QED
    BY <1>1, <1>2, <1>6, <1>8, <1>9, <1>10, <1>11 DEF ixA

(* The index after an addition: the new ids are live, nothing else changes.*)
LEMMA AddAllGood ==
  ASSUME NEW ix, GoodIndex(ix), NEW entries \in Seq(IndexEntry)
  PROVE  LET n == Len(ix.files)
             ixA == AddAll(ix, entries)
         IN  /\ GoodIndex(ixA)
             /\ Ids(ixA) = Ids(ix) \cup {n + m : m \in 1..Len(entries)}
             /\ LiveIds(ixA) = LiveIds(ix) \cup {n + m : m \in 1..Len(entries)}
  <1> DEFINE n == Len(ix.files)
             ixA == AddAll(ix, entries)
             new == {n + m : m \in 1..Len(entries)}
  <1>0. /\ ix \in IndexRecord /\ n \in Nat /\ Len(ix.sketches) = n
        /\ Ids(ix) = 1..n /\ LiveIds(ix) = {id \in 1..n : ix.files[id].alive}
        /\ Len(entries) \in Nat /\ DOMAIN entries = 1..Len(entries)
        /\ \A m \in 1..Len(entries) : entries[m] \in IndexEntry
        /\ \A id \in 1..n : ix.files[id] \in FileMeta
    BY IndexShape DEF GoodIndex
  <1>1. /\ ixA \in IndexRecord
        /\ Len(ixA.files) = n + Len(entries) /\ Len(ixA.sketches) = n + Len(entries)
        /\ \A id \in 1..n : ixA.files[id] = ix.files[id] /\ ixA.sketches[id] = ix.sketches[id]
        /\ \A m \in 1..Len(entries) :
             /\ ixA.files[n + m].path = entries[m].path
             /\ ixA.files[n + m].alive
             /\ ixA.sketches[n + m] = entries[m].sketch
        /\ ixA.tombstoned = ix.tombstoned
    BY AddAllFields
  <1>2. /\ ixA.buckets = ix.buckets \cup UNION {BandKeys(entries[m].sketch) \X {n + m} :
                                                  m \in DOMAIN entries}
        /\ ixA.path_to_ids = [p \in Paths |->
              ix.path_to_ids[p] \cup {n + m : m \in {i \in DOMAIN entries :
                                                    entries[i].path = p}}]
    BY <1>0 DEF AddAll, IndexRecord
  <1> HIDE DEF ixA
  <1>3. Ids(ixA) = 1..(n + Len(entries)) /\ LiveIds(ixA) = {id \in Ids(ixA) : ixA.files[id].alive}
    BY <1>1, <1>0, IndexShape
  <1>4. Ids(ixA) = Ids(ix) \cup new
    <2>1. ASSUME NEW id \in 1..(n + Len(entries)), id \notin 1..n
          PROVE  id \in new
      <3>1. id - n \in 1..Len(entries) /\ id = n + (id - n)
        BY <1>0, <2>1
      <3>2. QED
        BY <3>1
    <2>2. \A id \in 1..n : id \in 1..(n + Len(entries))
      BY <1>0
    <2>3. \A id \in new : id \in 1..(n + Len(entries))
      BY <1>0
    <2>4. QED
      BY <1>0, <1>3, <2>1, <2>2, <2>3
  <1>5. \A id \in new : ixA.files[id].alive /\ id \notin 1..n
    <2>1. \A m \in 1..Len(entries) : ixA.files[n + m].alive /\ ixA.files[n + m].path = entries[m].path
      BY <1>1, Zenon
    <2>2. \A m \in 1..Len(entries) : n + m \notin 1..n
      BY <1>0
    <2>3. QED
      BY <2>1, <2>2
  <1>6. LiveIds(ixA) = LiveIds(ix) \cup new
    BY <1>0, <1>1, <1>3, <1>4, <1>5
  <1>7. Ids(ixA) \ LiveIds(ixA) = Ids(ix) \ LiveIds(ix)
    BY <1>0, <1>4, <1>5, <1>6
  <1>8. ixA.buckets = BucketsOf(ixA)
    <2>1. ASSUME NEW x PROVE x \in ixA.buckets <=> x \in BucketsOf(ixA)
      <3>1. x \in ixA.buckets <=>
              \/ \E id \in 1..n : \E k \in BandKeys(ix.sketches[id]) : x = <<k, id>>
              \/ \E m \in 1..Len(entries) : \E k \in BandKeys(entries[m].sketch) : x = <<k, n + m>>
        <4>1. x \in ix.buckets <=>
                \E id \in 1..n : \E k \in BandKeys(ix.sketches[id]) : x = <<k, id>>
          BY <1>0, InBuckets DEF GoodIndex
        <4>2. x \in UNION {BandKeys(entries[m].sketch) \X {n + m} : m \in 1..Len(entries)} <=>
                \E m \in 1..Len(entries) : \E k \in BandKeys(entries[m].sketch) : x = <<k, n + m>>
          <5>1. ASSUME NEW m \in 1..Len(entries)
                PROVE  x \in BandKeys(entries[m].sketch) \X {n + m} <=>
                         \E k \in BandKeys(entries[m].sketch) : x = <<k, n + m>>
            OBVIOUS
          <5>2. QED
            BY <5>1, Zenon
        <4>3. QED
          BY <1>0, <1>2, <4>1, <4>2
      <3>2. x \in BucketsOf(ixA) <=>
              \E id \in Ids(ix) \cup new : \E k \in BandKeys(ixA.sketches[id]) : x = <<k, id>>
        BY <1>4, InBuckets
      <3>3. (\E id \in 1..n : \E k \in BandKeys(ixA.sketches[id]) : x = <<k, id>>)
              <=> \E id \in 1..n : \E k \in BandKeys(ix.sketches[id]) : x = <<k, id>>
        BY <1>1
      <3>4. (\E id \in new : \E k \in BandKeys(ixA.sketches[id]) : x = <<k, id>>)
              <=> \E m \in 1..Len(entries) : \E k \in BandKeys(entries[m].sketch) : x = <<k, n + m>>
        BY <1>1
      <3>5. QED
        BY <1>0, <3>1, <3>2, <3>3, <3>4
    <2>2. QED
      BY <2>1
  <1>9. ASSUME NEW p \in Paths
        PROVE  ixA.path_to_ids[p] = LiveIdsOf(ixA, p)
    <2>1. ixA.path_to_ids[p] = LiveIdsOf(ix, p)
             \cup {n + m : m \in {i \in 1..Len(entries) : entries[i].path = p}}
      BY <1>0, <1>2 DEF GoodIndex
    <2>2. {id \in LiveIds(ix) : ixA.files[id].path = p} = LiveIdsOf(ix, p)
      BY <1>0, <1>1 DEF LiveIdsOf
    <2>3. {id \in new : ixA.files[id].path = p}
             = {n + m : m \in {i \in 1..Len(entries) : entries[i].path = p}}
      <3>1. \A m \in 1..Len(entries) : ixA.files[n + m].path = entries[m].path
        BY <1>1, Zenon
      <3>2. QED
        BY <3>1
    <2>4. QED
      BY <1>6, <2>1, <2>2, <2>3 DEF LiveIdsOf
  <1>10. GoodIndex(ixA)
    BY <1>1, <1>7, <1>8, <1>9 DEF GoodIndex
  <1>11. QED
    BY <1>4, <1>6, <1>10 DEF ixA

(* Removals: the live entries of the paths die where they are.             *)
RemovedIds(ix, S) == {id \in LiveIds(ix) : ix.files[id].path \in S}

LEMMA RemoveAllGood ==
  ASSUME NEW ix, GoodIndex(ix), NEW S \in SUBSET Paths
  PROVE  LET ixR == RemoveAll(ix, S)
         IN  /\ GoodIndex(ixR)
             /\ Ids(ixR) = Ids(ix)
             /\ LiveIds(ixR) = LiveIds(ix) \ RemovedIds(ix, S)
             /\ ixR.sketches = ix.sketches
             /\ ixR.buckets = ix.buckets
             /\ Len(ixR.files) = Len(ix.files)
             /\ \A id \in Ids(ix) : /\ ixR.files[id].path = ix.files[id].path
                                    /\ ixR.files[id].granule = ix.files[id].granule
  <1> DEFINE ixR == RemoveAll(ix, S)
             n == Len(ix.files)
             ids == UNION {ix.path_to_ids[p] : p \in S}
             files == [id \in Ids(ix) |-> [ix.files[id] EXCEPT !.alive = @ /\ id \notin ids]]
             mapped == [p \in Paths |-> IF p \in S THEN {} ELSE ix.path_to_ids[p]]
  <1>0. /\ ix \in IndexRecord /\ n \in Nat /\ Len(ix.sketches) = n
        /\ Ids(ix) = 1..n /\ LiveIds(ix) = {id \in 1..n : ix.files[id].alive}
        /\ \A id \in 1..n : ix.files[id] \in FileMeta
        /\ IsFiniteSet(Ids(ix)) /\ IsFiniteSet(LiveIds(ix))
    BY IndexShape DEF GoodIndex
  <1>1. ids = RemovedIds(ix, S)
    <2>1. \A p \in S : ix.path_to_ids[p] = {id \in LiveIds(ix) : ix.files[id].path = p}
      BY DEF GoodIndex, LiveIdsOf
    <2>2. QED
      BY <2>1 DEF RemovedIds
  <1>2. {id \in ids : IsAlive(ix, id)} = ids
    BY <1>1 DEF RemovedIds, LiveIds
  <1>3. /\ files \in Seq(FileMeta) /\ Len(files) = n
        /\ \A id \in 1..n : /\ files[id].path = ix.files[id].path
                            /\ files[id].granule = ix.files[id].granule
                            /\ files[id].alive = (ix.files[id].alive /\ id \notin ids)
    <2>1. ASSUME NEW id \in 1..n
          PROVE  /\ files[id] \in FileMeta
                 /\ files[id].path = ix.files[id].path
                 /\ files[id].granule = ix.files[id].granule
                 /\ files[id].alive = (ix.files[id].alive /\ id \notin ids)
      BY <1>0 DEF FileMeta
    <2>2. DOMAIN files = 1..n
      BY <1>0
    <2> HIDE DEF files
    <2>3. files \in Seq(FileMeta) /\ Len(files) = n
      <3>1. files = [id \in 1..n |-> files[id]]
        BY <1>0 DEF files
      <3>2. QED
        BY <1>0, <2>1, <3>1
    <2>4. QED
      BY <2>1, <2>3
  <1>4. mapped \in [Paths -> SUBSET Nat]
    BY <1>0 DEF IndexRecord
  <1>5. IsFiniteSet(ids) /\ Cardinality(ids) \in Nat
    <2>1. ids \in SUBSET LiveIds(ix)
      BY <1>1 DEF RemovedIds
    <2>2. IsFiniteSet(ids)
      BY <1>0, <2>1, FS_Subset
    <2>3. QED
      BY <2>2, FS_CardinalityType
  <1>6. ixR = [ix EXCEPT !.path_to_ids = mapped, !.files = files,
                         !.tombstoned = ix.tombstoned + Cardinality(ids)]
    BY <1>0, <1>2 DEF RemoveAll, IndexRecord
  <1>7. /\ ixR.files = files /\ ixR.sketches = ix.sketches /\ ixR.buckets = ix.buckets
        /\ ixR.path_to_ids = mapped /\ ixR.tombstoned = ix.tombstoned + Cardinality(ids)
    BY <1>0, <1>6 DEF IndexRecord
  <1> HIDE DEF ixR, files, mapped, ids
  <1>8. ixR \in IndexRecord
    <2>1. ix \in IndexRecord /\ files \in Seq(FileMeta)
      BY <1>0, <1>3
    <2>2. ix.tombstoned + Cardinality(ids) \in Nat
      BY <1>5, <2>1 DEF IndexRecord
    <2>3. QED
      BY <1>4, <1>6, <2>1, <2>2 DEF IndexRecord
  <1>9. Ids(ixR) = Ids(ix) /\ LiveIds(ixR) = {id \in 1..n : ixR.files[id].alive}
    BY <1>0, <1>3, <1>7, <1>8, IndexShape
  <1>10. LiveIds(ixR) = LiveIds(ix) \ ids
    BY <1>0, <1>3, <1>7, <1>9
  <1>11. ixR.buckets = BucketsOf(ixR)
    BY <1>7, <1>9 DEF GoodIndex, BucketsOf
  <1>12. ASSUME NEW p \in Paths
         PROVE  ixR.path_to_ids[p] = LiveIdsOf(ixR, p)
    <2>1. ixR.path_to_ids[p] = IF p \in S THEN {} ELSE LiveIdsOf(ix, p)
      BY <1>7 DEF GoodIndex, mapped
    <2>2. \A id \in LiveIds(ix) : ixR.files[id].path = ix.files[id].path
      BY <1>0, <1>3, <1>7
    <2>3. LiveIdsOf(ixR, p) = {id \in LiveIds(ix) : id \notin ids /\ ix.files[id].path = p}
      BY <1>10, <2>2 DEF LiveIdsOf
    <2>4. QED
      BY <1>1, <2>1, <2>3 DEF LiveIdsOf, RemovedIds
  <1>13. ixR.tombstoned = Cardinality(Ids(ixR) \ LiveIds(ixR))
    <2> DEFINE dead == Ids(ix) \ LiveIds(ix)
    <2>1. Ids(ixR) \ LiveIds(ixR) = dead \cup ids /\ dead \cap ids = {}
      BY <1>0, <1>1, <1>9, <1>10 DEF RemovedIds
    <2>2. IsFiniteSet(dead)
      BY <1>0, FS_Difference
    <2>3. Cardinality(dead \cup ids) = Cardinality(dead) + Cardinality(ids)
      <3>1. Cardinality(dead \cup ids) = Cardinality(dead) + Cardinality(ids) - Cardinality(dead \cap ids)
        BY <1>5, <2>2, FS_Union, Zenon
      <3>2. Cardinality(dead \cap ids) = 0
        BY <2>1, FS_EmptySet
      <3>3. Cardinality(dead) \in Nat
        BY <2>2, FS_CardinalityType
      <3>4. QED
        BY <1>5, <3>1, <3>2, <3>3
    <2>4. QED
      BY <1>7, <2>1, <2>3 DEF GoodIndex
  <1>14. GoodIndex(ixR)
    BY <1>0, <1>3, <1>7, <1>8, <1>11, <1>12, <1>13 DEF GoodIndex
  <1>15. QED
    BY <1>0, <1>1, <1>3, <1>7, <1>9, <1>10, <1>14 DEF ixR

-----------------------------------------------------------------------------
(* Compaction: the survivors in their old order.                           *)

(* How many elements of L are no greater than i.                           *)
Rank(L, i) == Cardinality({k \in L : k <= i})

LEMMA RankType ==
  ASSUME NEW L, IsFiniteSet(L), NEW i \in L, i <= i
  PROVE  Rank(L, i) \in 1..Cardinality(L)
  <1> DEFINE A == {k \in L : k <= i}
  <1>1. /\ IsFiniteSet(A) /\ Cardinality(A) <= Cardinality(L)
        /\ Cardinality(A) \in Nat /\ Cardinality(L) \in Nat
    BY FS_Subset, FS_CardinalityType
  <1>2. Cardinality(A) # 0
    <2>1. i \in A
      OBVIOUS
    <2>2. QED
      BY <1>1, <2>1, FS_EmptySet
  <1>3. QED
    BY <1>1, <1>2 DEF Rank

LEMMA RankGrows ==
  ASSUME NEW L \in SUBSET Nat, IsFiniteSet(L), NEW i \in L, NEW j \in L, i < j
  PROVE  Rank(L, i) < Rank(L, j)
  <1> DEFINE A == {k \in L : k <= i}
             B == {k \in L : k <= j}
  <1>1. A \in SUBSET B /\ j \in B /\ j \notin A
    <2>1. i \in Nat /\ j \in Nat /\ \A k \in L : k \in Nat
      OBVIOUS
    <2>2. (\A k \in L : k <= i => k <= j) /\ j <= j /\ ~(j <= i)
      BY <2>1
    <2>3. QED
      BY <2>2
  <1>2. IsFiniteSet(A) /\ IsFiniteSet(B)
    BY FS_Subset
  <1>3. Cardinality(A) <= Cardinality(B) /\ Cardinality(A) # Cardinality(B)
    BY <1>1, <1>2, FS_Subset
  <1>4. Cardinality(A) \in Nat /\ Cardinality(B) \in Nat
    BY <1>2, FS_CardinalityType
  <1>5. QED
    BY <1>3, <1>4 DEF Rank

LEMMA RankInjective ==
  ASSUME NEW L \in SUBSET Nat, IsFiniteSet(L), NEW i \in L, NEW j \in L,
         Rank(L, i) = Rank(L, j)
  PROVE  i = j
  <1>1. Rank(L, i) \in Nat
    BY RankType
  <1>2. i < j \/ j < i \/ i = j
    OBVIOUS
  <1>3. QED
    BY <1>1, <1>2, RankGrows

(* Every rank up to the number of elements is somebody's.                  *)
LEMMA RankOnto ==
  ASSUME NEW L \in SUBSET Nat, IsFiniteSet(L), NEW n \in 1..Cardinality(L)
  PROVE  \E i \in L : Rank(L, i) = n
  <1> DEFINE N == 1..Cardinality(L)
             f == [i \in L |-> Rank(L, i)]
  <1>1. Cardinality(L) \in Nat
    BY FS_CardinalityType
  <1>2. f \in [L -> N]
    BY RankType
  <1>3. \A i, j \in L : f[i] = f[j] => i = j
    BY RankInjective
  <1>4. f \in Injection(L, N)
    BY <1>2, <1>3, Fun_IsInj
  <1>5. IsFiniteSet(N) /\ Cardinality(N) = Cardinality(L)
    BY <1>1, FS_Interval
  <1>6. \A i \in L : f[i] = Rank(L, i)
    OBVIOUS
  <1> HIDE DEF f
  <1>7. f \in Surjection(L, N)
    BY <1>4, <1>5, FS_Injection
  <1>8. \E i \in L : f[i] = n
    BY <1>7 DEF Surjection
  <1>9. QED
    BY <1>6, <1>8

(* Position n of the survivors is the live id of rank n.                   *)
LEMMA SurvivorsRanked ==
  ASSUME NEW ix, GoodIndex(ix)
  PROVE  LET live == LiveIds(ix)
             kept == Survivors(ix)
         IN  /\ Cardinality(live) \in Nat
             /\ kept \in [1..Cardinality(live) -> live]
             /\ \A n \in 1..Cardinality(live) : Rank(live, kept[n]) = n
             /\ \A id \in live : /\ Rank(live, id) \in 1..Cardinality(live)
                                 /\ kept[Rank(live, id)] = id
  <1> DEFINE live == LiveIds(ix)
             kept == Survivors(ix)
  <1>1. live \in SUBSET Nat /\ IsFiniteSet(live)
    BY IndexShape DEF GoodIndex
  <1>2. Cardinality(live) \in Nat
    BY <1>1, FS_CardinalityType
  <1>3. kept = [n \in 1..Cardinality(live) |-> CHOOSE id \in live : Rank(live, id) = n]
    BY DEF Survivors, Rank
  <1>4. ASSUME NEW n \in 1..Cardinality(live)
        PROVE  kept[n] \in live /\ Rank(live, kept[n]) = n
    <2>1. \E id \in live : Rank(live, id) = n
      BY <1>1, RankOnto
    <2>2. kept[n] = CHOOSE id \in live : Rank(live, id) = n
      BY <1>3
    <2>3. QED
      BY <2>1, <2>2
  <1>5. ASSUME NEW id \in live
        PROVE  Rank(live, id) \in 1..Cardinality(live) /\ kept[Rank(live, id)] = id
    <2>1. Rank(live, id) \in 1..Cardinality(live)
      BY <1>1, RankType
    <2>2. kept[Rank(live, id)] \in live /\ Rank(live, kept[Rank(live, id)]) = Rank(live, id)
      BY <1>4, <2>1
    <2>3. QED
      BY <1>1, <2>1, <2>2, RankInjective
  <1> HIDE DEF kept
  <1>6. kept \in [1..Cardinality(live) -> live]
    <2>1. kept = [n \in 1..Cardinality(live) |-> kept[n]]
      BY <1>3
    <2>2. QED
      BY <1>4, <2>1
  <1>7. QED
    BY <1>2, <1>4, <1>5, <1>6 DEF kept

(* Compaction renumbers the live entries and drops the others.             *)
LEMMA CompactFields ==
  ASSUME NEW ix, GoodIndex(ix), ix.tombstoned # 0
  PROVE  LET ixC == Compact(ix)
             kept == Survivors(ix)
             N == Cardinality(LiveIds(ix))
         IN  /\ GoodIndex(ixC)
             /\ Ids(ixC) = 1..N /\ LiveIds(ixC) = 1..N
             /\ \A n \in 1..N : /\ ixC.files[n] = ix.files[kept[n]]
                               /\ ixC.sketches[n] = ix.sketches[kept[n]]
  <1> DEFINE ixC == Compact(ix)
             kept == Survivors(ix)
             live == LiveIds(ix)
             N == Cardinality(live)
             sketches == [n \in DOMAIN kept |-> ix.sketches[kept[n]]]
             files == [n \in DOMAIN kept |-> ix.files[kept[n]]]
             buckets == UNION {BandKeys(sketches[n]) \X {n} : n \in DOMAIN kept}
             mapped == [p \in Paths |-> {n \in DOMAIN kept : files[n].path = p}]
  <1>0. /\ ix \in IndexRecord
        /\ live \subseteq Ids(ix) /\ \A id \in live : ix.files[id].alive
        /\ \A id \in Ids(ix) : ix.files[id] \in FileMeta /\ ix.sketches[id] \in Sketches
    BY IndexShape DEF GoodIndex
  <1>1. N \in Nat /\ kept \in [1..N -> live]
    BY SurvivorsRanked
  <1>2. ixC = [files |-> files, sketches |-> sketches, buckets |-> buckets,
               path_to_ids |-> mapped, tombstoned |-> 0]
    BY DEF Compact
  <1> HIDE DEF kept, live, ixC, N
  <1>3. /\ \A n \in 1..N : /\ files[n] = ix.files[kept[n]] /\ files[n] \in FileMeta
                           /\ files[n].alive
                           /\ sketches[n] = ix.sketches[kept[n]] /\ sketches[n] \in Sketches
        /\ DOMAIN kept = 1..N
    BY <1>0, <1>1
  <1>4. /\ files \in Seq(FileMeta) /\ Len(files) = N
        /\ sketches \in Seq(Sketches) /\ Len(sketches) = N
        /\ DOMAIN files = 1..N
    <2>1. files \in [1..N -> FileMeta] /\ sketches \in [1..N -> Sketches]
      BY <1>3
    <2> HIDE DEF files, sketches
    <2>2. QED
      BY <1>1, <2>1
  <1>5. buckets \in SUBSET (BandKey \X Nat)
    <2>1. ASSUME NEW n \in 1..N
          PROVE  BandKeys(sketches[n]) \X {n} \subseteq BandKey \X Nat
      <3>1. BandKeys(sketches[n]) \subseteq BandKey /\ n \in Nat
        BY <1>1, <1>3, BandKeysType
      <3> HIDE DEF sketches
      <3>2. QED
        BY <3>1
    <2> HIDE DEF sketches
    <2>2. QED
      BY <1>3, <2>1
  <1>6. mapped \in [Paths -> SUBSET Nat]
    <2> HIDE DEF files
    <2>1. QED
      BY <1>1, <1>3
  <1> HIDE DEF files, sketches, buckets, mapped
  <1>7. /\ ixC.files = files /\ ixC.sketches = sketches /\ ixC.buckets = buckets
        /\ ixC.path_to_ids = mapped /\ ixC.tombstoned = 0
    BY <1>2
  <1>8. ixC \in IndexRecord
    BY <1>2, <1>4, <1>5, <1>6 DEF IndexRecord
  <1>9. Ids(ixC) = 1..N
    BY <1>4, <1>7 DEF Ids
  <1>10. LiveIds(ixC) = 1..N
    BY <1>3, <1>7, <1>9 DEF LiveIds, IsAlive
  <1>11. ixC.buckets = BucketsOf(ixC)
    BY <1>3, <1>7, <1>9 DEF BucketsOf, buckets
  <1>12. ASSUME NEW p \in Paths
         PROVE  ixC.path_to_ids[p] = LiveIdsOf(ixC, p)
    BY <1>3, <1>7, <1>10 DEF LiveIdsOf, mapped
  <1>13. ixC.tombstoned = Cardinality(Ids(ixC) \ LiveIds(ixC))
    <2>1. Ids(ixC) \ LiveIds(ixC) = {}
      BY <1>9, <1>10
    <2>2. QED
      BY <1>7, <2>1, FS_EmptySet
  <1>14. GoodIndex(ixC)
    BY <1>4, <1>7, <1>8, <1>11, <1>12, <1>13 DEF GoodIndex
  <1>15. QED
    BY <1>3, <1>7, <1>9, <1>10, <1>14 DEF ixC, kept, N, live

(* The live entries before and after are the same, one by one.             *)
SameEntry(ix, i, jx, j) ==
  /\ ix.files[i].path = jx.files[j].path
  /\ ix.files[i].granule = jx.files[j].granule
  /\ ix.sketches[i] = jx.sketches[j]

LEMMA CompactGood ==
  ASSUME NEW ix, GoodIndex(ix)
  PROVE  /\ GoodIndex(Compact(ix))
         /\ \E g \in [LiveIds(Compact(ix)) -> LiveIds(ix)] :
              /\ \A m, n \in LiveIds(Compact(ix)) : g[m] = g[n] => m = n
              /\ \A id \in LiveIds(ix) : \E n \in LiveIds(Compact(ix)) : g[n] = id
              /\ \A n \in LiveIds(Compact(ix)) : SameEntry(Compact(ix), n, ix, g[n])
  <1>1. CASE ix.tombstoned = 0
    <2>1. Compact(ix) = ix
      BY <1>1 DEF Compact
    <2> DEFINE g == [id \in LiveIds(ix) |-> id]
    <2>2. /\ g \in [LiveIds(ix) -> LiveIds(ix)]
          /\ \A id \in LiveIds(ix) : g[id] = id
      OBVIOUS
    <2> HIDE DEF g
    <2>3. \A n \in LiveIds(ix) : SameEntry(ix, n, ix, g[n])
      BY <2>2 DEF SameEntry
    <2>4. QED
      BY <2>1, <2>2, <2>3
  <1>2. CASE ix.tombstoned # 0
    <2> DEFINE g == Survivors(ix)
               N == Cardinality(LiveIds(ix))
    <2>1. /\ GoodIndex(Compact(ix)) /\ LiveIds(Compact(ix)) = 1..N
          /\ \A n \in 1..N : /\ Compact(ix).files[n] = ix.files[g[n]]
                            /\ Compact(ix).sketches[n] = ix.sketches[g[n]]
      BY <1>2, CompactFields
    <2>2. /\ g \in [1..N -> LiveIds(ix)]
          /\ \A n \in 1..N : Rank(LiveIds(ix), g[n]) = n
          /\ \A id \in LiveIds(ix) : /\ Rank(LiveIds(ix), id) \in 1..N
                                    /\ g[Rank(LiveIds(ix), id)] = id
      BY SurvivorsRanked
    <2> HIDE DEF g, N
    <2>3. \A n \in 1..N : SameEntry(Compact(ix), n, ix, g[n])
      BY <2>1 DEF SameEntry
    <2>4. \A m, n \in 1..N : g[m] = g[n] => m = n
      BY <2>2
    <2>5. \A id \in LiveIds(ix) : \E n \in 1..N : g[n] = id
      BY <2>2
    <2>6. QED
      BY <2>1, <2>2, <2>3, <2>4, <2>5
  <1>3. QED
    BY <1>1, <1>2

-----------------------------------------------------------------------------
(* The queries.                                                            *)

LEMMA BucketsHold ==
  ASSUME NEW ix, GoodIndex(ix), NEW s \in Sketches
  PROVE  InBucketsOf(ix, s) = {id \in Ids(ix) : ShareBand(s, ix.sketches[id])}
  <1>1. \A id \in Ids(ix) : ix.sketches[id] \in Sketches
    BY IndexShape DEF GoodIndex
  <1>2. ASSUME NEW id
        PROVE  id \in InBucketsOf(ix, s) <=>
                 id \in Ids(ix) /\ \E k : k \in BandKeys(s) /\ k \in BandKeys(ix.sketches[id])
    <2>1. id \in InBucketsOf(ix, s) <=> \E x \in ix.buckets : x[1] \in BandKeys(s) /\ x[2] = id
      BY DEF InBucketsOf
    <2>2. \A x : x \in ix.buckets <=>
                    \E i \in Ids(ix) : \E k \in BandKeys(ix.sketches[i]) : x = <<k, i>>
      BY InBuckets DEF GoodIndex
    <2>3. ASSUME NEW x \in ix.buckets, x[1] \in BandKeys(s), x[2] = id
          PROVE  id \in Ids(ix) /\ \E k : k \in BandKeys(s) /\ k \in BandKeys(ix.sketches[id])
      <3>1. PICK i \in Ids(ix) : \E k \in BandKeys(ix.sketches[i]) : x = <<k, i>>
        BY <2>2
      <3>2. QED
        BY <2>3, <3>1
    <2>4. ASSUME id \in Ids(ix), NEW k, k \in BandKeys(s), k \in BandKeys(ix.sketches[id])
          PROVE  \E x \in ix.buckets : x[1] \in BandKeys(s) /\ x[2] = id
      <3>1. <<k, id>> \in ix.buckets
        BY <2>2, <2>4
      <3>2. QED
        BY <2>4, <3>1
    <2>5. QED
      BY <2>1, <2>3, <2>4
  <1>3. \A id \in Ids(ix) :
          (\E k : k \in BandKeys(s) /\ k \in BandKeys(ix.sketches[id]))
            <=> ShareBand(s, ix.sketches[id])
    BY <1>1, SharedBuckets
  <1>4. QED
    BY <1>2, <1>3

LEMMA ShareBandSymmetric ==
  ASSUME NEW s, NEW t
  PROVE  ShareBand(s, t) <=> ShareBand(t, s)
  BY DEF ShareBand

(* The partners of an entry, dead or alive, are the other live entries it  *)
(* shares a band with.                                                     *)
LEMMA PartnersExact ==
  ASSUME NEW ix, GoodIndex(ix), NEW id \in Ids(ix)
  PROVE  PartnersOf(ix, id) =
           {other \in LiveIds(ix) :
              other # id /\ ShareBand(ix.sketches[id], ix.sketches[other])}
  <1>1. ix.sketches[id] \in Sketches
    BY IndexShape DEF GoodIndex
  <1>2. QED
    BY <1>1, BucketsHold DEF PartnersOf, LiveIds

LEMMA QueryExact ==
  ASSUME NEW ix, GoodIndex(ix), NEW s \in Sketches
  PROVE  QuerySketch(ix, s) = {id \in LiveIds(ix) : ShareBand(s, ix.sketches[id])}
  BY BucketsHold DEF QuerySketch, LiveIds

LEMMA PairsExact ==
  ASSUME NEW ix, GoodIndex(ix)
  PROVE  CandidatePairs(ix) =
           {ij \in LiveIds(ix) \X LiveIds(ix) :
              ij[1] < ij[2] /\ ShareBand(ix.sketches[ij[1]], ix.sketches[ij[2]])}
  <1> DEFINE alive == {b \in ix.buckets : IsAlive(ix, b[2])}
  <1>1. \A id \in LiveIds(ix) : id \in Ids(ix) /\ ix.sketches[id] \in Sketches
    BY IndexShape DEF GoodIndex
  <1>2. \A b : b \in alive <=>
                 \E i \in LiveIds(ix) : \E k \in BandKeys(ix.sketches[i]) : b = <<k, i>>
    <2>1. \A x : x \in ix.buckets <=>
                    \E i \in Ids(ix) : \E k \in BandKeys(ix.sketches[i]) : x = <<k, i>>
      BY InBuckets DEF GoodIndex
    <2>2. QED
      BY <2>1 DEF LiveIds
  <1> HIDE DEF alive
  <1>3. ASSUME NEW i \in LiveIds(ix), NEW j \in LiveIds(ix)
        PROVE  (\E b \in alive : b[2] = i /\ <<b[1], j>> \in alive)
                 <=> ShareBand(ix.sketches[i], ix.sketches[j])
    <2>1. (\E b \in alive : b[2] = i /\ <<b[1], j>> \in alive)
            <=> \E k : k \in BandKeys(ix.sketches[i]) /\ k \in BandKeys(ix.sketches[j])
      <3>1. ASSUME NEW b \in alive, b[2] = i, <<b[1], j>> \in alive
            PROVE  \E k : k \in BandKeys(ix.sketches[i]) /\ k \in BandKeys(ix.sketches[j])
        <4>1. PICK i2 \in LiveIds(ix) : \E k \in BandKeys(ix.sketches[i2]) : b = <<k, i2>>
          BY <1>2
        <4>2. PICK j2 \in LiveIds(ix) : \E k \in BandKeys(ix.sketches[j2]) : <<b[1], j>> = <<k, j2>>
          BY <1>2, <3>1
        <4>3. b[1] \in BandKeys(ix.sketches[i]) /\ b[1] \in BandKeys(ix.sketches[j])
          BY <3>1, <4>1, <4>2
        <4>4. QED
          BY <4>3
      <3>2. ASSUME NEW k, k \in BandKeys(ix.sketches[i]), k \in BandKeys(ix.sketches[j])
            PROVE  \E b \in alive : b[2] = i /\ <<b[1], j>> \in alive
        <4>1. <<k, i>> \in alive /\ <<k, j>> \in alive
          BY <1>2, <3>2
        <4>2. QED
          BY <4>1
      <3>3. QED
        BY <3>1, <3>2
    <2>2. QED
      BY <1>1, <2>1, SharedBuckets
  <1>4. CandidatePairs(ix) =
          {ij \in {b[2] : b \in alive} \X {b[2] : b \in alive} :
             ij[1] < ij[2] /\ \E b \in alive : b[2] = ij[1] /\ <<b[1], ij[2]>> \in alive}
    BY DEF CandidatePairs, alive
  <1>5. \A b \in alive : b[2] \in LiveIds(ix)
    BY <1>2
  <1>6. ASSUME NEW i \in LiveIds(ix), NEW j \in LiveIds(ix), ShareBand(ix.sketches[i], ix.sketches[j])
        PROVE  i \in {b[2] : b \in alive} /\ j \in {b[2] : b \in alive}
    <2>1. PICK b \in alive : b[2] = i /\ <<b[1], j>> \in alive
      BY <1>3, <1>6
    <2>2. <<b[1], j>>[2] = j
      OBVIOUS
    <2>3. QED
      BY <2>1, <2>2
  <1> DEFINE seen == {b[2] : b \in alive}
  <1>7. seen \subseteq LiveIds(ix)
    BY <1>5
  <1>8. \A i, j \in LiveIds(ix) :
          ShareBand(ix.sketches[i], ix.sketches[j]) => i \in seen /\ j \in seen
    BY <1>6
  <1>9. CandidatePairs(ix) =
          {ij \in seen \X seen :
             ij[1] < ij[2] /\ \E b \in alive : b[2] = ij[1] /\ <<b[1], ij[2]>> \in alive}
    BY <1>4
  <1> HIDE DEF seen
  <1>10. ASSUME NEW x \in LiveIds(ix) \X LiveIds(ix)
         PROVE  x \in CandidatePairs(ix) <=>
                  x[1] < x[2] /\ ShareBand(ix.sketches[x[1]], ix.sketches[x[2]])
    <2>1. x[1] \in LiveIds(ix) /\ x[2] \in LiveIds(ix)
      OBVIOUS
    <2>2. (\E b \in alive : b[2] = x[1] /\ <<b[1], x[2]>> \in alive)
            <=> ShareBand(ix.sketches[x[1]], ix.sketches[x[2]])
      BY <1>3, <2>1
    <2>3. x \in seen \X seen <=> x[1] \in seen /\ x[2] \in seen
      OBVIOUS
    <2>4. QED
      BY <1>8, <1>9, <2>1, <2>2, <2>3
  <1>11. CandidatePairs(ix) \subseteq LiveIds(ix) \X LiveIds(ix)
    BY <1>7, <1>9
  <1>12. QED
    BY <1>10, <1>11

-----------------------------------------------------------------------------
(* The steps.                                                              *)

LEMMA OneEntry ==
  ASSUME NEW p \in Paths, NEW g \in Granules, NEW s \in Sketches
  PROVE  LET one == <<[path |-> p, granule |-> g, sketch |-> s]>>
         IN  one \in Seq(IndexEntry) /\ Len(one) = 1
  BY DEF IndexEntry

LEMMA GoodStep == GoodIndex(index) /\ [LshNext]_index => GoodIndex(index)'
  <1> SUFFICES ASSUME GoodIndex(index), [LshNext]_index
               PROVE  GoodIndex(index')
    BY DEF GoodIndex, IndexRecord, BucketsOf, LiveIdsOf, LiveIds, IsAlive, Ids
  <1>1. ASSUME NEW p \in Paths, NEW g \in Granules, NEW s \in Sketches, AddStep(p, g, s)
        PROVE  GoodIndex(index')
    BY <1>1, OneEntry, AddAllGood DEF AddStep
  <1>2. ASSUME NEW p \in Paths, RemoveStep(p)
        PROVE  GoodIndex(index')
    <2>1. {p} \in SUBSET Paths
      OBVIOUS
    <2>2. QED
      BY <1>2, <2>1, RemoveAllGood DEF RemoveStep
  <1>3. CASE CompactStep
    BY <1>3, CompactGood DEF CompactStep
  <1>4. CASE UNCHANGED index
    BY <1>4
  <1>5. QED
    BY <1>1, <1>2, <1>3, <1>4 DEF LshNext

LEMMA GoodInvariant == LshSpec => []GoodIndex(index)
  <1>1. LshInit => GoodIndex(index)
    BY EmptyGood DEF LshInit
  <1>2. QED
    BY <1>1, GoodStep, PTL DEF LshSpec

(***************************************************************************)
(* The structures of the index agree, through any history: its shape, the  *)
(* number of tombstones and the map from paths to live ids.                *)
(***************************************************************************)
LEMMA GoodIsConsistent == GoodIndex(index) => IndexConsistent
  <1> SUFFICES ASSUME GoodIndex(index)
               PROVE  IndexConsistent
    OBVIOUS
  <1> DEFINE n == Len(index.files)
  <1>1. /\ index \in IndexRecord /\ n \in Nat /\ Len(index.sketches) = n
        /\ Ids(index) = 1..n /\ LiveIds(index) \subseteq Ids(index)
        /\ IsFiniteSet(Ids(index))
        /\ \A id \in Ids(index) : index.sketches[id] \in Sketches
    BY IndexShape DEF GoodIndex
  <1>2. index.buckets \subseteq BandKey \X Ids(index)
    <2>1. ASSUME NEW x \in index.buckets
          PROVE  x \in BandKey \X Ids(index)
      <3>1. PICK id \in Ids(index) : \E k \in BandKeys(index.sketches[id]) : x = <<k, id>>
        BY InBuckets DEF GoodIndex
      <3>2. BandKeys(index.sketches[id]) \subseteq BandKey
        BY <1>1, BandKeysType
      <3>3. QED
        BY <3>1, <3>2
    <2>2. QED
      BY <2>1
  <1>3. index.path_to_ids \in [Paths -> SUBSET Ids(index)]
    <2>1. \A p \in Paths : index.path_to_ids[p] \subseteq Ids(index)
      BY <1>1 DEF GoodIndex, LiveIdsOf
    <2>2. index.path_to_ids \in [Paths -> SUBSET Nat]
      BY <1>1 DEF IndexRecord
    <2>3. QED
      BY <2>1, <2>2
  <1>4. index.tombstoned \in 0..n
    <2>1. Ids(index) \ LiveIds(index) \in SUBSET Ids(index)
      OBVIOUS
    <2>2. /\ Cardinality(Ids(index) \ LiveIds(index)) <= Cardinality(Ids(index))
          /\ IsFiniteSet(Ids(index) \ LiveIds(index))
      BY <1>1, <2>1, FS_Subset
    <2>3. Cardinality(Ids(index)) = n
      <3>1. 1 \in Int /\ n \in Int
        BY <1>1
      <3>2. Cardinality(1..n) = IF 1 > n THEN 0 ELSE n - 1 + 1
        BY <3>1, FS_Interval
      <3>3. QED
        BY <1>1, <3>2
    <2>4. Cardinality(Ids(index) \ LiveIds(index)) \in Nat
      BY <2>2, FS_CardinalityType
    <2>5. QED
      BY <1>1, <2>2, <2>3, <2>4 DEF GoodIndex
  <1>5. IndexTypeOK
    BY <1>1, <1>2, <1>3, <1>4 DEF IndexTypeOK, IndexRecord
  <1>6. PathMapExact
    BY DEF GoodIndex, PathMapExact, IdsForPath, LiveIdsOf
  <1>7. TombstonesCounted
    BY DEF GoodIndex, TombstonesCounted
  <1>8. QED
    BY <1>5, <1>6, <1>7 DEF IndexConsistent

THEOREM IndexStaysConsistent == LshSpec => []IndexConsistent
  BY GoodInvariant, GoodIsConsistent, PTL

(***************************************************************************)
(* Both ways to ask the index answer as the live entries are.              *)
(***************************************************************************)
LEMMA GoodAnswers == GoodIndex(index) => QueriesExact
  <1> SUFFICES ASSUME GoodIndex(index)
               PROVE  QueriesExact
    OBVIOUS
  <1>1. CandidatesExact
    BY PairsExact DEF CandidatesExact
  <1>2. ASSUME NEW s \in Sketches
        PROVE  BagOfEntries(QuerySketch(index, s)) = Live!Matches(s)
    <2>1. QuerySketch(index, s) = {id \in LiveIds(index) : ShareBand(s, index.sketches[id])}
      BY QueryExact
    <2>2. ASSUME NEW e \in [path : Paths, granule : Granules, sketch : Sketches]
          PROVE  Cardinality({id \in QuerySketch(index, s) : EntryOf(id) = e}) =
                   IF ShareBand(s, e.sketch)
                   THEN Cardinality({id \in LiveIds(index) : EntryOf(id) = e}) ELSE 0
      <3>1. \A id : EntryOf(id) = e => index.sketches[id] = e.sketch
        BY DEF EntryOf
      <3>2. CASE ShareBand(s, e.sketch)
        <4>1. {id \in QuerySketch(index, s) : EntryOf(id) = e}
                = {id \in LiveIds(index) : EntryOf(id) = e}
          BY <2>1, <3>1, <3>2
        <4>2. QED
          BY <3>2, <4>1
      <3>3. CASE ~ShareBand(s, e.sketch)
        <4>1. {id \in QuerySketch(index, s) : EntryOf(id) = e} = {}
          BY <2>1, <3>1, <3>3
        <4>2. QED
          BY <3>3, <4>1, FS_EmptySet
      <3>4. QED
        BY <3>2, <3>3
    <2>3. QED
      BY <2>2 DEF BagOfEntries, Live!Matches, Live!Entry
  <1>3. QED
    BY <1>1, <1>2 DEF QueriesExact, ProbesExact

THEOREM QueriesStayExact == LshSpec => []QueriesExact
  BY GoodInvariant, GoodAnswers, PTL

(***************************************************************************)
(* The ids a removal returns can still be asked for their partners.        *)
(***************************************************************************)
THEOREM RemovedAnswer == LshSpec => RemovedStayQueryable
  <1> DEFINE Answers ==
        \A p \in Paths :
          (IdsForPath(index, p) # {} /\ index' = RemoveAll(index, {p})) =>
            \A id \in IdsForPath(index, p) :
              PartnersOf(index', id) = PartnersOf(index, id) \ IdsForPath(index, p)
  <1>1. ASSUME GoodIndex(index), NEW p \in Paths, index' = RemoveAll(index, {p}),
               NEW id \in IdsForPath(index, p)
        PROVE  PartnersOf(index', id) = PartnersOf(index, id) \ IdsForPath(index, p)
    <2>1. {p} \in SUBSET Paths
      OBVIOUS
    <2>2. /\ GoodIndex(index') /\ Ids(index') = Ids(index)
          /\ LiveIds(index') = LiveIds(index) \ RemovedIds(index, {p})
          /\ index'.sketches = index.sketches
      BY <1>1, <2>1, RemoveAllGood
    <2>3. IdsForPath(index, p) = RemovedIds(index, {p})
      BY <1>1 DEF GoodIndex, IdsForPath, LiveIdsOf, RemovedIds
    <2>4. id \in Ids(index)
      BY <1>1, <2>3, IndexShape DEF GoodIndex, RemovedIds
    <2>5. PartnersOf(index, id) =
            {other \in LiveIds(index) :
               other # id /\ ShareBand(index.sketches[id], index.sketches[other])}
      BY <1>1, <2>4, PartnersExact
    <2>6. PartnersOf(index', id) =
            {other \in LiveIds(index') :
               other # id /\ ShareBand(index'.sketches[id], index'.sketches[other])}
      BY <2>2, <2>4, PartnersExact
    <2>7. QED
      BY <2>2, <2>3, <2>5, <2>6
  <1>2. GoodIndex(index) => Answers
    BY <1>1
  <1>3. GoodIndex(index) /\ [LshNext]_index => [Answers]_index
    BY <1>2
  <1>4. QED
    BY <1>3, GoodInvariant, PTL DEF LshSpec, RemovedStayQueryable

-----------------------------------------------------------------------------
(* The refinement of LiveEntries.                                          *)

EntryIn(ix, id) == [path |-> ix.files[id].path, granule |-> ix.files[id].granule,
                    sketch |-> ix.sketches[id]]

(* The live ids of one entry.                                              *)
IdsOfEntry(ix, e) == {id \in LiveIds(ix) : EntryIn(ix, id) = e}

LiveBag(ix) == [e \in IndexEntry |-> Cardinality(IdsOfEntry(ix, e))]

LEMMA LiveBagIsLive ==
  /\ BagOfEntries(LiveIds(index)) = LiveBag(index)
  /\ BagOfEntries(LiveIds(index))' = LiveBag(index')
  BY DEF BagOfEntries, LiveBag, IdsOfEntry, EntryIn, EntryOf, IndexEntry, LiveIds, IsAlive, Ids

LEMMA IdsOfEntryFinite ==
  ASSUME NEW ix, GoodIndex(ix), NEW e
  PROVE  IsFiniteSet(IdsOfEntry(ix, e)) /\ Cardinality(IdsOfEntry(ix, e)) \in Nat
  <1>1. IsFiniteSet(LiveIds(ix)) /\ IdsOfEntry(ix, e) \in SUBSET LiveIds(ix)
    BY IndexShape DEF GoodIndex, IdsOfEntry
  <1>2. QED
    BY <1>1, FS_Subset, FS_CardinalityType

(* An addition inserts its entry.                                          *)
LEMMA AddInserts ==
  ASSUME NEW ix, GoodIndex(ix), NEW p \in Paths, NEW g \in Granules, NEW s \in Sketches
  PROVE  LET e == [path |-> p, granule |-> g, sketch |-> s]
         IN  LiveBag(AddAll(ix, <<e>>)) = [LiveBag(ix) EXCEPT ![e] = @ + 1]
  <1> DEFINE e == [path |-> p, granule |-> g, sketch |-> s]
             one == <<e>>
             ixA == AddAll(ix, one)
             n == Len(ix.files)
  <1>1. one \in Seq(IndexEntry) /\ Len(one) = 1 /\ one[1] = e
    BY OneEntry
  <1> HIDE DEF one
  <1>2. e \in IndexEntry /\ e.path = p /\ e.granule = g /\ e.sketch = s
    BY DEF IndexEntry
  <1>3. n \in Nat /\ Ids(ix) = 1..n /\ LiveIds(ix) \subseteq Ids(ix)
    BY IndexShape DEF GoodIndex
  <1>4. LiveIds(ixA) = LiveIds(ix) \cup {n + 1}
    <2>1. LiveIds(ixA) = LiveIds(ix) \cup {n + m : m \in 1..Len(one)}
      BY <1>1, AddAllGood
    <2>2. {n + m : m \in 1..Len(one)} = {n + 1}
      BY <1>1
    <2>3. QED
      BY <2>1, <2>2
  <1>5. /\ \A id \in 1..n : ixA.files[id] = ix.files[id] /\ ixA.sketches[id] = ix.sketches[id]
        /\ \A m \in 1..Len(one) : /\ ixA.files[n + m].path = one[m].path
                                   /\ ixA.files[n + m].granule = one[m].granule
                                   /\ ixA.sketches[n + m] = one[m].sketch
    BY <1>1, AddAllFields
  <1> HIDE DEF e, ixA
  <1>6. EntryIn(ixA, n + 1) = e
    <2>1. 1 \in 1..Len(one)
      BY <1>1
    <2>2. /\ ixA.files[n + 1].path = e.path /\ ixA.files[n + 1].granule = e.granule
          /\ ixA.sketches[n + 1] = e.sketch
      BY <1>1, <1>5, <2>1
    <2>3. QED
      BY <1>2, <2>2 DEF EntryIn, e
  <1>7. \A id \in LiveIds(ix) : EntryIn(ixA, id) = EntryIn(ix, id)
    BY <1>3, <1>5 DEF EntryIn
  <1>8. n + 1 \notin LiveIds(ix)
    BY <1>3
  <1>9. ASSUME NEW x \in IndexEntry
        PROVE  Cardinality(IdsOfEntry(ixA, x)) =
                 IF x = e THEN Cardinality(IdsOfEntry(ix, x)) + 1
                 ELSE Cardinality(IdsOfEntry(ix, x))
    <2>1. IsFiniteSet(IdsOfEntry(ix, x))
      BY IdsOfEntryFinite
    <2>2. CASE x = e
      <3>1. IdsOfEntry(ixA, x) = IdsOfEntry(ix, x) \cup {n + 1}
        BY <1>4, <1>6, <1>7, <2>2 DEF IdsOfEntry
      <3>2. n + 1 \notin IdsOfEntry(ix, x)
        BY <1>8 DEF IdsOfEntry
      <3>3. QED
        <4>1. Cardinality(IdsOfEntry(ix, x) \cup {n + 1}) = Cardinality(IdsOfEntry(ix, x)) + 1
          BY <2>1, <3>2, FS_AddElement, Zenon
        <4>2. QED
          BY <2>2, <3>1, <4>1
    <2>3. CASE x # e
      <3>1. IdsOfEntry(ixA, x) = IdsOfEntry(ix, x)
        BY <1>4, <1>6, <1>7, <2>3 DEF IdsOfEntry
      <3>2. QED
        BY <2>3, <3>1
    <2>4. QED
      BY <2>2, <2>3
  <1>10. LiveBag(ixA) = [LiveBag(ix) EXCEPT ![e] = @ + 1]
    BY <1>2, <1>9 DEF LiveBag
  <1>11. QED
    BY <1>10 DEF e, one, ixA

(* A removal drops the entries of its path.                                *)
LEMMA RemoveDrops ==
  ASSUME NEW ix, GoodIndex(ix), NEW p \in Paths
  PROVE  LiveBag(RemoveAll(ix, {p})) =
           [e \in IndexEntry |-> IF e.path = p THEN 0 ELSE LiveBag(ix)[e]]
  <1> DEFINE ixR == RemoveAll(ix, {p})
  <1>1. {p} \in SUBSET Paths
    OBVIOUS
  <1>2. /\ LiveIds(ixR) = LiveIds(ix) \ RemovedIds(ix, {p})
        /\ ixR.sketches = ix.sketches
        /\ \A id \in Ids(ix) : /\ ixR.files[id].path = ix.files[id].path
                               /\ ixR.files[id].granule = ix.files[id].granule
    BY <1>1, RemoveAllGood
  <1> HIDE DEF ixR
  <1>3. \A id \in LiveIds(ix) : EntryIn(ixR, id) = EntryIn(ix, id)
    BY <1>2 DEF EntryIn, LiveIds
  <1>4. LiveIds(ixR) = {id \in LiveIds(ix) : ix.files[id].path # p}
    BY <1>2 DEF RemovedIds
  <1>5. ASSUME NEW e \in IndexEntry
        PROVE  Cardinality(IdsOfEntry(ixR, e)) =
                 IF e.path = p THEN 0 ELSE Cardinality(IdsOfEntry(ix, e))
    <2>1. \A id : EntryIn(ix, id) = e => ix.files[id].path = e.path
      BY DEF EntryIn
    <2>2. CASE e.path = p
      <3>1. IdsOfEntry(ixR, e) = {}
        BY <1>3, <1>4, <2>1, <2>2 DEF IdsOfEntry
      <3>2. QED
        BY <2>2, <3>1, FS_EmptySet
    <2>3. CASE e.path # p
      <3>1. IdsOfEntry(ixR, e) = IdsOfEntry(ix, e)
        BY <1>3, <1>4, <2>1, <2>3 DEF IdsOfEntry
      <3>2. QED
        BY <2>3, <3>1
    <2>4. QED
      BY <2>2, <2>3
  <1>6. QED
    BY <1>5 DEF LiveBag, ixR

(* Compaction does nothing to the live entries.                            *)
LEMMA CompactStutters ==
  ASSUME NEW ix, GoodIndex(ix)
  PROVE  LiveBag(Compact(ix)) = LiveBag(ix)
  <1> DEFINE ixC == Compact(ix)
  <1>1. GoodIndex(ixC)
    BY CompactGood
  <1>2. PICK g \in [LiveIds(ixC) -> LiveIds(ix)] :
          /\ \A m, n \in LiveIds(ixC) : g[m] = g[n] => m = n
          /\ \A id \in LiveIds(ix) : \E n \in LiveIds(ixC) : g[n] = id
          /\ \A n \in LiveIds(ixC) : SameEntry(ixC, n, ix, g[n])
    BY CompactGood
  <1> HIDE DEF ixC
  <1>3. \A n \in LiveIds(ixC) : EntryIn(ixC, n) = EntryIn(ix, g[n])
    BY <1>2 DEF EntryIn, SameEntry
  <1>4. ASSUME NEW e \in IndexEntry
        PROVE  Cardinality(IdsOfEntry(ixC, e)) = Cardinality(IdsOfEntry(ix, e))
    <2> DEFINE C == IdsOfEntry(ixC, e)
               X == IdsOfEntry(ix, e)
               f == [n \in C |-> g[n]]
    <2>1. f \in [C -> X]
      BY <1>2, <1>3 DEF IdsOfEntry
    <2>2. \A m, n \in C : f[m] = f[n] => m = n
      BY <1>2 DEF IdsOfEntry
    <2>3. \A id \in X : \E n \in C : f[n] = id
      <3>1. ASSUME NEW id \in X
            PROVE  \E n \in C : f[n] = id
        <4>1. PICK n \in LiveIds(ixC) : g[n] = id
          BY <1>2 DEF IdsOfEntry
        <4>2. n \in C
          BY <1>3, <4>1 DEF IdsOfEntry
        <4>3. QED
          BY <4>1, <4>2
      <3>2. QED
        BY <3>1
    <2> HIDE DEF C, X, f
    <2>4. ExistsBijection(C, X)
      BY <2>1, <2>2, <2>3 DEF ExistsBijection, Bijection, Injection, Surjection, IsInjective
    <2>5. IsFiniteSet(C)
      BY <1>1, IdsOfEntryFinite DEF C
    <2>6. QED
      BY <2>4, <2>5, FS_Bijection DEF C, X
  <1>5. QED
    BY <1>4 DEF LiveBag, ixC

LEMMA NothingLive == LiveBag(EmptyIndex) = [e \in IndexEntry |-> 0]
  <1>1. \A e : IdsOfEntry(EmptyIndex, e) = {}
    BY EmptyGood DEF IdsOfEntry
  <1>2. QED
    BY <1>1, FS_EmptySet DEF LiveBag

(***************************************************************************)
(* The LSH index implements the bag of its live entries: ids, buckets,     *)
(* tombstones and compaction do not show.                                  *)
(***************************************************************************)
THEOREM IndexImplementsLiveEntries == LshSpec => ImplementsLiveEntries
  <1> USE DEF Live!Entry, IndexEntry
  <1>1. LshInit => Live!LiveInit
    BY NothingLive, LiveBagIsLive DEF LshInit, Live!LiveInit
  <1>2. ASSUME GoodIndex(index), [LshNext]_index
        PROVE  [Live!LiveNext]_(BagOfEntries(LiveIds(index)))
    <2>1. ASSUME NEW p \in Paths, NEW g \in Granules, NEW s \in Sketches, AddStep(p, g, s)
          PROVE  Live!LiveNext
      <3> DEFINE e == [path |-> p, granule |-> g, sketch |-> s]
      <3>1. e \in Live!Entry
        OBVIOUS
      <3>2. LiveBag(index') = [LiveBag(index) EXCEPT ![e] = @ + 1]
        BY <1>2, <2>1, AddInserts DEF AddStep
      <3> HIDE DEF e
      <3>3. Live!Insert(e)
        BY <3>2, LiveBagIsLive DEF Live!Insert
      <3>4. QED
        BY <3>1, <3>3 DEF Live!LiveNext
    <2>2. ASSUME NEW p \in Paths, RemoveStep(p)
          PROVE  Live!LiveNext
      <3>1. LiveBag(index') = [e \in IndexEntry |-> IF e.path = p THEN 0 ELSE LiveBag(index)[e]]
        BY <1>2, <2>2, RemoveDrops DEF RemoveStep
      <3>2. Live!Drop(p)
        BY <3>1, LiveBagIsLive DEF Live!Drop
      <3>3. QED
        BY <3>2 DEF Live!LiveNext
    <2>3. CASE CompactStep
      <3>1. LiveBag(index') = LiveBag(index)
        BY <1>2, <2>3, CompactStutters DEF CompactStep
      <3>2. QED
        BY <3>1, LiveBagIsLive
    <2>4. CASE UNCHANGED index
      <3>1. LiveBag(index') = LiveBag(index)
        BY <2>4
      <3>2. QED
        BY <3>1, LiveBagIsLive
    <2>5. QED
      BY <1>2, <2>1, <2>2, <2>3, <2>4 DEF LshNext
  <1>3. QED
    BY <1>1, <1>2, GoodInvariant, PTL DEF LshSpec, ImplementsLiveEntries, Live!LiveSpec
=============================================================================
