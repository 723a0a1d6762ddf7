---------------------- MODULE IncrementalEngineProofs -----------------------
(***************************************************************************)
(* The incremental engine, proved to keep its index, exact sets, findings  *)
(* and diffs in step with the contents it was told of, for any files,      *)
(* contents and history of edits, scans and updates.                       *)
(*                                                                         *)
(* The findings of an update are those the algebra of IncrementalFindings  *)
(* gives; the round trip is then proved there.                             *)
(***************************************************************************)
EXTENDS IncrementalEngine, LshIndexProofs

(* No two items of one content have one ItemKey: the round trip fails      *)
(* without it, for the second set then replaces the first.                 *)
DistinctGranules ==
  \A c \in Contents : \A m, n \in DOMAIN Items[c] :
    Items[c][m].granule = Items[c][n].granule => m = n

-----------------------------------------------------------------------------
(* The invariant.                                                          *)

Item == [granule : Granules, sketch : Sketches, set : SUBSET Nat]

Entry == [path : Paths, item : Item]

(* The live id of the index that stands for an entry.                      *)
StandsFor(ix, unique, id, e) ==
  /\ ix.files[id].path = e.path
  /\ ix.files[id].granule = e.item.granule
  /\ ix.sketches[id] = e.item.sketch
  /\ unique[ItemKeyOf(ix, id)] = e.item.set

(* The index and the exact sets hold these entries: each once, each under  *)
(* a key of its own, and no others.                                        *)
Holds(ix, unique, E) ==
  /\ GoodIndex(ix)
  /\ \A i, j \in LiveIds(ix) : ItemKeyOf(ix, i) = ItemKeyOf(ix, j) => i = j
  /\ \A i \in LiveIds(ix) : ItemKeyOf(ix, i) \in DOMAIN unique
  /\ \A i \in LiveIds(ix) : \E e \in E : StandsFor(ix, unique, i, e)
  /\ \A e \in E : \E i \in LiveIds(ix) : StandsFor(ix, unique, i, e)

Entries(S, files) == Algebra!EntriesOf(S, files)

KeysOf(E) == {Algebra!Key(e) : e \in E}

ItemPairs == {{k, l} : k \in ItemKeys, l \in ItemKeys}

IsMap(f) == f = [pk \in DOMAIN f |-> f[pk]]

FindingsTyped ==
  /\ IsMap(findings)
  /\ DOMAIN findings \subseteq ItemPairs
  /\ Range(findings) \subseteq Verdicts

EngineIInv ==
  /\ Algebra!FindingsTypeOK
  /\ Holds(index, unique_sets, Entries(Paths, indexed))
  /\ DOMAIN unique_sets = KeysOf(Entries(Paths, indexed))
  /\ FindingsTyped

-----------------------------------------------------------------------------
(* Flattening a sequence of sequences, by FlattenExists.                   *)

(* The cells of a sequence of sequences, and that no two hold the same.    *)
CellIn(seqs, k, i, m) == i \in 1..k /\ m \in 1..Len(seqs[i])

DistinctCells(seqs) ==
  \A i, j, m, n : /\ CellIn(seqs, Len(seqs), i, m) /\ CellIn(seqs, Len(seqs), j, n)
                  /\ seqs[i][m] = seqs[j][n]
                  => i = j /\ m = n

(* A sequence lists the first k rows, each cell once.                      *)
Lists(s, seqs, k) ==
  /\ \A j \in 1..Len(s) : \E i, m : CellIn(seqs, k, i, m) /\ s[j] = seqs[i][m]
  /\ \A i, m : CellIn(seqs, k, i, m) => \E j \in 1..Len(s) : s[j] = seqs[i][m]
  /\ \A j, l \in 1..Len(s) : s[j] = s[l] => j = l

(* FlattenSeq lists each cell once.                                        *)
LEMMA FlattenLists ==
  ASSUME NEW T, NEW seqs \in Seq(Seq(T)), DistinctCells(seqs)
  PROVE  FlattenSeq(seqs) \in Seq(T) /\ Lists(FlattenSeq(seqs), seqs, Len(seqs))
  <1>1. CASE Len(seqs) = 0
    BY <1>1 DEF FlattenSeq, Lists, CellIn
  <1>2. CASE Len(seqs) # 0
    <2> DEFINE n == Len(seqs)
               g == CHOOSE f : f = [i \in 1..n |->
                                      IF i = 1 THEN seqs[i] ELSE f[i - 1] \o seqs[i]]
               Right(k) == g[k] \in Seq(T) /\ Lists(g[k], seqs, k)
    <2>1. n \in Nat /\ n # 0
      BY <1>2
    <2>2. FlattenSeq(seqs) = g[n]
      BY <2>1 DEF FlattenSeq
    <2>3. IsFlatten(g, seqs, n)
      BY <2>1, FlattenExists DEF IsFlatten
    <2> HIDE DEF g
    <2>4. \A k \in 1..n : seqs[k] \in Seq(T)
      OBVIOUS
    <2>5. g[1] = seqs[1] /\ \A k \in 2..n : g[k] = g[k - 1] \o seqs[k]
      <3>1. \A i \in 1..n : g[i] = IF i = 1 THEN seqs[i] ELSE g[i - 1] \o seqs[i]
        <4> HIDE DEF n
        <4>1. g = [i \in 1..n |-> IF i = 1 THEN seqs[i] ELSE g[i - 1] \o seqs[i]]
          BY <2>3 DEF IsFlatten
        <4>2. QED
          BY <4>1
      <3> HIDE DEF n
      <3>2. 1 \in 1..n /\ \A k \in 2..n : k \in 1..n /\ k # 1
        BY <2>1
      <3>3. g[1] = seqs[1]
        BY <3>1, <3>2
      <3>4. ASSUME NEW k \in 2..n PROVE g[k] = g[k - 1] \o seqs[k]
        <4>1. k \in 1..n /\ k # 1
          BY <3>2
        <4>2. g[k] = IF k = 1 THEN seqs[k] ELSE g[k - 1] \o seqs[k]
          BY <3>1, <4>1
        <4>3. QED
          BY <4>1, <4>2
      <3>5. QED
        BY <3>3, <3>4
    <2>6. Right(1)
      <3>1. g[1] = seqs[1] /\ seqs[1] \in Seq(T)
        BY <2>1, <2>4, <2>5
      <3>2. \A i, m : CellIn(seqs, 1, i, m) <=> i = 1 /\ m \in 1..Len(seqs[1])
        BY DEF CellIn
      <3>3. \A j, l \in 1..Len(seqs[1]) : seqs[1][j] = seqs[1][l] => j = l
        <4>1. \A j \in 1..Len(seqs[1]) : CellIn(seqs, Len(seqs), 1, j)
          BY <2>1 DEF CellIn
        <4>2. QED
          BY <4>1 DEF DistinctCells
      <3>4. QED
        BY <3>1, <3>2, <3>3 DEF Lists
    <2>7. ASSUME NEW k \in 2..n, Right(k - 1)
          PROVE  Right(k)
      <3> DEFINE s == g[k - 1]
                 t == seqs[k]
      <3>1. /\ g[k] = s \o t /\ s \in Seq(T) /\ t \in Seq(T)
            /\ k \in 1..n /\ k - 1 \in 1..n /\ k \in Nat
        <4>1. k \in 1..n /\ k - 1 \in 1..n /\ k \in Nat
          BY <2>1
        <4>2. g[k] = g[k - 1] \o seqs[k]
          BY <2>5
        <4>3. QED
          BY <4>1, <4>2, <2>4, <2>7
      <3>2. /\ g[k] \in Seq(T) /\ Len(g[k]) = Len(s) + Len(t)
            /\ Len(s) \in Nat /\ Len(t) \in Nat
            /\ \A j \in 1..Len(s) : g[k][j] = s[j]
            /\ \A m \in 1..Len(t) : g[k][Len(s) + m] = t[m]
        <4> HIDE DEF s, t
        <4>1. QED
          BY <3>1
      <3>3. \A j \in 1..Len(g[k]) : j \in 1..Len(s) \/ \E m \in 1..Len(t) : j = Len(s) + m
        <4>1. ASSUME NEW j \in 1..Len(g[k]), j \notin 1..Len(s)
              PROVE  j - Len(s) \in 1..Len(t) /\ j = Len(s) + (j - Len(s))
          <5> HIDE DEF s, t
          <5>1. QED
            BY <3>2, <4>1
        <4>2. QED
          BY <4>1
      <3>4. /\ \A j \in 1..Len(s) : j \in 1..Len(g[k])
            /\ \A m \in 1..Len(t) : Len(s) + m \in 1..Len(g[k])
        <4> HIDE DEF s, t
        <4>1. QED
          BY <3>2
      <3>5. \A i, m : CellIn(seqs, k, i, m) <=>
                        CellIn(seqs, k - 1, i, m) \/ (i = k /\ m \in 1..Len(t))
        BY <3>1 DEF CellIn
      <3>6. \A i, m : CellIn(seqs, k, i, m) => CellIn(seqs, n, i, m)
        BY <3>1, <2>1 DEF CellIn
      <3>7. Lists(s, seqs, k - 1)
        BY <2>7
      <3> HIDE DEF s
      <3>8. ASSUME NEW j \in 1..Len(g[k])
            PROVE  \E i, m : CellIn(seqs, k, i, m) /\ g[k][j] = seqs[i][m]
        <4>1. ASSUME j \in 1..Len(s) PROVE \E i, m : CellIn(seqs, k, i, m) /\ g[k][j] = seqs[i][m]
          <5>1. PICK i, m : CellIn(seqs, k - 1, i, m) /\ s[j] = seqs[i][m]
            BY <4>1, <3>7 DEF Lists
          <5>2. CellIn(seqs, k, i, m) /\ g[k][j] = seqs[i][m]
            BY <4>1, <5>1, <3>2, <3>5
          <5>3. QED
            BY <5>2
        <4>2. ASSUME NEW m \in 1..Len(t), j = Len(s) + m
              PROVE  \E i, l : CellIn(seqs, k, i, l) /\ g[k][j] = seqs[i][l]
          <5>1. CellIn(seqs, k, k, m) /\ g[k][j] = seqs[k][m]
            BY <4>2, <3>2, <3>5
          <5>2. QED
            BY <5>1
        <4>3. QED
          BY <4>1, <4>2, <3>3
      <3>9. ASSUME NEW i, NEW m, CellIn(seqs, k, i, m)
            PROVE  \E j \in 1..Len(g[k]) : g[k][j] = seqs[i][m]
        <4>1. ASSUME CellIn(seqs, k - 1, i, m)
              PROVE  \E j \in 1..Len(g[k]) : g[k][j] = seqs[i][m]
          <5>1. PICK j \in 1..Len(s) : s[j] = seqs[i][m]
            BY <4>1, <3>7 DEF Lists
          <5>2. QED
            BY <5>1, <3>2, <3>4
        <4>2. ASSUME i = k, m \in 1..Len(t)
              PROVE  \E j \in 1..Len(g[k]) : g[k][j] = seqs[i][m]
          <5>1. g[k][Len(s) + m] = seqs[i][m] /\ Len(s) + m \in 1..Len(g[k])
            BY <4>2, <3>2, <3>4
          <5>2. QED
            BY <5>1
        <4>3. QED
          BY <3>9, <4>1, <4>2, <3>5
      <3>10. ASSUME NEW j \in 1..Len(s), NEW m \in 1..Len(t)
             PROVE  s[j] # t[m]
        <4>1. PICK i, l : CellIn(seqs, k - 1, i, l) /\ s[j] = seqs[i][l]
          BY <3>7 DEF Lists
        <4>2. i # k
          BY <4>1, <3>1 DEF CellIn
        <4>3. CellIn(seqs, n, i, l) /\ CellIn(seqs, n, k, m)
          BY <4>1, <3>5, <3>6
        <4>4. QED
          BY <4>1, <4>2, <4>3 DEF DistinctCells
      <3>11. ASSUME NEW m \in 1..Len(t), NEW l \in 1..Len(t), t[m] = t[l]
             PROVE  m = l
        <4>1. CellIn(seqs, n, k, m) /\ CellIn(seqs, n, k, l)
          BY <3>5, <3>6
        <4>2. QED
          BY <4>1, <3>11 DEF DistinctCells
      <3>12. ASSUME NEW j \in 1..Len(g[k]), NEW l \in 1..Len(g[k]), g[k][j] = g[k][l]
             PROVE  j = l
        <4> HIDE DEF t
        <4>1. CASE j \in 1..Len(s) /\ l \in 1..Len(s)
          BY <4>1, <3>12, <3>2, <3>7 DEF Lists
        <4>2. CASE j \in 1..Len(s) /\ l \notin 1..Len(s)
          <5>1. PICK m \in 1..Len(t) : l = Len(s) + m
            BY <4>2, <3>3
          <5>2. s[j] = t[m]
            BY <4>2, <5>1, <3>12, <3>2
          <5>3. QED
            BY <4>2, <5>2, <3>10
        <4>3. CASE j \notin 1..Len(s) /\ l \in 1..Len(s)
          <5>1. PICK m \in 1..Len(t) : j = Len(s) + m
            BY <4>3, <3>3
          <5>2. s[l] = t[m]
            BY <4>3, <5>1, <3>12, <3>2
          <5>3. QED
            BY <4>3, <5>2, <3>10
        <4>4. CASE j \notin 1..Len(s) /\ l \notin 1..Len(s)
          <5>1. PICK m1 \in 1..Len(t) : j = Len(s) + m1
            BY <4>4, <3>3
          <5>2. PICK m2 \in 1..Len(t) : l = Len(s) + m2
            BY <4>4, <3>3
          <5>3. t[m1] = t[m2]
            BY <5>1, <5>2, <3>12, <3>2
          <5>4. QED
            BY <5>1, <5>2, <5>3, <3>11
        <4>5. QED
          BY <4>1, <4>2, <4>3, <4>4
      <3>13. QED
        BY <3>2, <3>8, <3>9, <3>12 DEF Lists
    <2> HIDE DEF Right
    <2>8. ASSUME NEW k \in 1..n, ~Right(k) PROVE FALSE
      <3> DEFINE Bad == {j \in 1..n : ~Right(j)}
      <3>1. Bad \in SUBSET Nat /\ Bad # {}
        <4>1. k \in Bad
          BY <2>8
        <4>2. \A j \in 1..n : j \in Nat
          OBVIOUS
        <4>3. QED
          BY <4>1, <4>2
      <3>2. PICK j \in Bad : \A l \in Bad : j <= l
        <4> HIDE DEF Bad
        <4>1. QED
          BY <3>1, LeastNumber
      <3>3. j # 1 /\ j \in 2..n
        BY <2>6, <2>1
      <3>4. j - 1 \in 1..n /\ j - 1 \notin Bad
        BY <3>2, <3>3, <2>1
      <3>5. QED
        BY <3>3, <3>4, <2>7
    <2>9. QED
      BY <2>1, <2>2, <2>8 DEF Right
  <1>3. QED
    BY <1>1, <1>2
-----------------------------------------------------------------------------
(* Items and entries.                                                      *)

(* A content makes a sequence of items, each of some fingerprints.         *)
LEMMA ItemTypes ==
  ASSUME NEW c \in Contents
  PROVE  /\ Items[c] \in Seq(Item)
         /\ \A n \in 1..Len(Items[c]) :
              /\ Items[c][n] \in Item
              /\ IsFiniteSet(Items[c][n].set) /\ Items[c][n].set # {}
         /\ \A i : i \in ItemSets[c] <=> \E n \in 1..Len(Items[c]) : i = Items[c][n]
  <1>1. Items[c] \in Seq(Item)
    BY EngineAssumption DEF Item
  <1>2. DOMAIN Items[c] = 1..Len(Items[c])
    BY <1>1
  <1>3. \A n \in 1..Len(Items[c]) : Items[c][n] \in Item
    BY <1>1
  <1>4. \A n \in 1..Len(Items[c]) : IsFiniteSet(Items[c][n].set) /\ Items[c][n].set # {}
    BY <1>2, EngineAssumption
  <1>5. ItemSets[c] = {Items[c][n] : n \in 1..Len(Items[c])}
    BY <1>2 DEF ItemSets, Range
  <1>6. QED
    BY <1>1, <1>3, <1>4, <1>5

(* So has every item of the algebra.                                       *)
LEMMA AllItemTypes ==
  ASSUME NEW i \in Algebra!AllItems
  PROVE  i \in Item /\ IsFiniteSet(i.set) /\ i.set # {}
  <1>1. PICK c \in Contents : i \in ItemSets[c]
    BY DEF Algebra!AllItems
  <1>2. PICK n \in 1..Len(Items[c]) : i = Items[c][n]
    BY <1>1, ItemTypes
  <1>3. QED
    BY <1>2, ItemTypes

(* An entry is an item of the content at its path.                         *)
LEMMA EntryTypes ==
  ASSUME NEW S \in SUBSET Paths, NEW files \in [Paths -> Contents]
  PROVE  \A e : e \in Entries(S, files) <=>
                  /\ e \in [path : S, item : Algebra!AllItems]
                  /\ \E n \in 1..Len(Items[files[e.path]]) :
                       e.item = Items[files[e.path]][n]
  <1>1. ASSUME NEW e \in [path : S, item : Algebra!AllItems]
        PROVE  e.item \in ItemSets[files[e.path]] <=>
                 \E n \in 1..Len(Items[files[e.path]]) : e.item = Items[files[e.path]][n]
    <2>1. files[e.path] \in Contents
      OBVIOUS
    <2>2. QED
      BY <2>1, ItemTypes
  <1>2. QED
    BY <1>1 DEF Entries, Algebra!EntriesOf

(* The parts of an entry and of its key.                                   *)
LEMMA EntryFacts ==
  ASSUME NEW S \in SUBSET Paths, NEW files \in [Paths -> Contents],
         NEW e \in Entries(S, files)
  PROVE  /\ e.path \in S /\ e.item \in Item /\ e \in Entry
         /\ e.item.granule \in Granules /\ e.item.sketch \in Sketches
         /\ IsFiniteSet(e.item.set) /\ e.item.set # {}
         /\ Algebra!Key(e) \in ItemKeys
         /\ Algebra!Key(e).path = e.path /\ Algebra!Key(e).granule = e.item.granule
  <1>1. e.path \in S /\ e.item \in Algebra!AllItems /\ e = [path |-> e.path, item |-> e.item]
    BY EntryTypes
  <1>2. e.item \in Item /\ IsFiniteSet(e.item.set) /\ e.item.set # {}
    BY <1>1, AllItemTypes
  <1>3. e.item.granule \in Granules /\ e.item.sketch \in Sketches
    BY <1>2 DEF Item
  <1>4. e \in Entry
    BY <1>1, <1>2 DEF Entry
  <1>5. QED
    BY <1>1, <1>2, <1>3, <1>4 DEF Algebra!Key, ItemKeys

(* The key of an entry says which it is.                                   *)
LEMMA KeyIdentifies ==
  ASSUME DistinctGranules,
         NEW S \in SUBSET Paths, NEW files \in [Paths -> Contents],
         NEW e \in Entries(S, files), NEW f \in Entries(S, files),
         Algebra!Key(e) = Algebra!Key(f)
  PROVE  e = f
  <1>1. /\ e \in [path : S, item : Algebra!AllItems] /\ f \in [path : S, item : Algebra!AllItems]
        /\ e.path = f.path /\ e.item.granule = f.item.granule
    <2>1. e \in [path : S, item : Algebra!AllItems] /\ f \in [path : S, item : Algebra!AllItems]
      BY EntryTypes, Zenon
    <2>2. /\ Algebra!Key(e).path = e.path /\ Algebra!Key(e).granule = e.item.granule
          /\ Algebra!Key(f).path = f.path /\ Algebra!Key(f).granule = f.item.granule
      BY DEF Algebra!Key
    <2>3. QED
      BY <2>1, <2>2
  <1> DEFINE c == files[e.path]
  <1>2. c \in Contents
    BY <1>1
  <1>3. PICK m \in 1..Len(Items[c]) : e.item = Items[c][m]
    BY EntryTypes
  <1>4. PICK n \in 1..Len(Items[c]) : f.item = Items[c][n]
    <2>1. \E n \in 1..Len(Items[files[f.path]]) : f.item = Items[files[f.path]][n]
      BY EntryTypes, ZenonT(60)
    <2>2. QED
      BY <1>1, <2>1
  <1> HIDE DEF c
  <1>5. DOMAIN Items[c] = 1..Len(Items[c])
    BY <1>2, ItemTypes
  <1>6. m = n
    BY <1>1, <1>2, <1>3, <1>4, <1>5 DEF DistinctGranules
  <1>7. QED
    BY <1>1, <1>3, <1>4, <1>6

(* A file that does not exist has no entries.                              *)
LEMMA NoEntries ==
  ASSUME NEW S \in SUBSET Paths, NEW files \in [Paths -> Contents],
         \A p \in S : files[p] = Absent
  PROVE  Entries(S, files) = {}
  <1>1. Items[Absent] = <<>> /\ Len(Items[Absent]) = 0
    BY EngineAssumption
  <1>2. QED
    <2>1. ASSUME NEW e \in Entries(S, files) PROVE FALSE
      <3>1. /\ e \in [path : S, item : Algebra!AllItems]
            /\ \E n \in 1..Len(Items[files[e.path]]) : e.item = Items[files[e.path]][n]
        BY EntryTypes, ZenonT(60)
      <3>2. files[e.path] = Absent
        BY <3>1
      <3>3. QED
        BY <1>1, <3>1, <3>2
    <2>2. QED
      BY <2>1

(* Entries of some paths are those of the contents there.                  *)
LEMMA EntriesSplit ==
  ASSUME NEW S \in SUBSET Paths, NEW T \in SUBSET Paths, S \cap T = {},
         NEW old \in [Paths -> Contents], NEW new \in [Paths -> Contents],
         NEW files \in [Paths -> Contents],
         \A p \in S : files[p] = new[p], \A p \in T : files[p] = old[p]
  PROVE  Entries(S \cup T, files) = Entries(T, old) \cup Entries(S, new)
  <1>1. ASSUME NEW e
        PROVE  e \in Entries(S \cup T, files) <=> e \in Entries(T, old) \/ e \in Entries(S, new)
    <2> DEFINE In(U, g) == /\ e \in [path : U, item : Algebra!AllItems]
                           /\ \E n \in 1..Len(Items[g[e.path]]) :
                                e.item = Items[g[e.path]][n]
    <2>1. S \cup T \in SUBSET Paths
      OBVIOUS
    <2>2. /\ e \in Entries(S \cup T, files) <=> In(S \cup T, files)
          /\ e \in Entries(T, old) <=> In(T, old)
          /\ e \in Entries(S, new) <=> In(S, new)
      <3>1. e \in Entries(S \cup T, files) <=> In(S \cup T, files)
        <4>1. \A x : x \in Entries(S \cup T, files) <=>
                       /\ x \in [path : S \cup T, item : Algebra!AllItems]
                       /\ \E n \in 1..Len(Items[files[x.path]]) : x.item = Items[files[x.path]][n]
          BY <2>1, EntryTypes
        <4>2. QED
          BY <4>1, Zenon
      <3>2. e \in Entries(T, old) <=> In(T, old)
        <4>1. \A x : x \in Entries(T, old) <=>
                       /\ x \in [path : T, item : Algebra!AllItems]
                       /\ \E n \in 1..Len(Items[old[x.path]]) : x.item = Items[old[x.path]][n]
          BY EntryTypes
        <4>2. QED
          BY <4>1, Zenon
      <3>3. e \in Entries(S, new) <=> In(S, new)
        <4>1. \A x : x \in Entries(S, new) <=>
                       /\ x \in [path : S, item : Algebra!AllItems]
                       /\ \E n \in 1..Len(Items[new[x.path]]) : x.item = Items[new[x.path]][n]
          BY EntryTypes
        <4>2. QED
          BY <4>1, Zenon
      <3>4. QED
        BY <3>1, <3>2, <3>3
    <2>3. /\ e \in [path : S \cup T, item : Algebra!AllItems] <=>
               \/ e \in [path : S, item : Algebra!AllItems]
               \/ e \in [path : T, item : Algebra!AllItems]
          /\ e \in [path : S, item : Algebra!AllItems] => e.path \in S
          /\ e \in [path : T, item : Algebra!AllItems] => e.path \in T
      OBVIOUS
    <2>4. /\ e.path \in S => files[e.path] = new[e.path]
          /\ e.path \in T => files[e.path] = old[e.path]
      OBVIOUS
    <2>5. QED
      BY <2>2, <2>3, <2>4
  <1>2. QED
    BY <1>1

-----------------------------------------------------------------------------
(* process_path on each path.                                              *)

(* The order of the paths lists each of them once.                         *)
LEMMA PathOrderLists ==
  /\ Cardinality(Paths) \in Nat
  /\ PathOrder \in [1..Cardinality(Paths) -> Paths]
  /\ \A i, j \in 1..Cardinality(Paths) : PathOrder[i] = PathOrder[j] => i = j
  /\ \A p \in Paths : \E i \in 1..Cardinality(Paths) : PathOrder[i] = p
  <1> DEFINE N == Cardinality(Paths)
  <1>1. N \in Nat /\ Bijection(1..N, Paths) # {}
    BY EngineAssumption, FS_CardinalityType DEF ExistsBijection
  <1>2. PICK f \in [1..N -> Paths] : IsInjective(f)
    BY <1>1 DEF Bijection, Injection
  <1>3. PathOrder \in [1..N -> Paths] /\ IsInjective(PathOrder)
    BY <1>2 DEF PathOrder, SetToSeq
  <1>4. \A i, j \in 1..N : PathOrder[i] = PathOrder[j] => i = j
    BY <1>3 DEF IsInjective
  <1>5. PathOrder \in Surjection(1..N, Paths)
    <2>1. Cardinality(1..N) = N
      BY <1>1, FS_Interval
    <2>2. PathOrder \in Injection(1..N, Paths)
      BY <1>3 DEF Injection
    <2> HIDE DEF N
    <2>3. Cardinality(1..N) = Cardinality(Paths) <=> PathOrder \in Surjection(1..N, Paths)
      BY <2>2, EngineAssumption, FS_Injection
    <2>4. QED
      BY <2>1, <2>3 DEF N
  <1>6. \A p \in Paths : \E i \in 1..N : PathOrder[i] = p
    BY <1>5 DEF Surjection
  <1>7. QED
    BY <1>1, <1>3, <1>4, <1>6

(* The items made of a set of entries, each under its own key.             *)
Enumerates(items, E) ==
  /\ items \in Seq(Entry)
  /\ \A n \in 1..Len(items) : items[n] \in E
  /\ \A e \in E : \E n \in 1..Len(items) : items[n] = e
  /\ \A m, n \in 1..Len(items) : Algebra!Key(items[m]) = Algebra!Key(items[n]) => m = n

(* The items made of some files are their entries, each once.              *)
LEMMA ItemsOnDiskExact ==
  ASSUME DistinctGranules, disk \in [Paths -> Contents], NEW S \in SUBSET Paths
  PROVE  Enumerates(ItemsOnDisk(S), Entries(S, disk))
  <1> DEFINE N == Cardinality(Paths)
             Row(p) == [m \in DOMAIN Items[disk[p]] |->
                          [path |-> p, item |-> Items[disk[p]][m]]]
             seqs == [n \in DOMAIN PathOrder |->
                        IF PathOrder[n] \notin S THEN <<>> ELSE Row(PathOrder[n])]
  <1>1. /\ N \in Nat /\ PathOrder \in [1..N -> Paths]
        /\ \A i, j \in 1..N : PathOrder[i] = PathOrder[j] => i = j
        /\ \A p \in Paths : \E i \in 1..N : PathOrder[i] = p
    BY PathOrderLists
  <1>2. ItemsOnDisk(S) = FlattenSeq(seqs)
    BY DEF ItemsOnDisk
  <1>3. ASSUME NEW p \in Paths
        PROVE  /\ Row(p) \in Seq(Entry) /\ Len(Row(p)) = Len(Items[disk[p]])
               /\ \A m \in 1..Len(Items[disk[p]]) :
                    /\ Row(p)[m] = [path |-> p, item |-> Items[disk[p]][m]]
                    /\ p \in S => Row(p)[m] \in Entries(S, disk)
    <2> DEFINE c == disk[p]
    <2>1. /\ c \in Contents /\ Items[c] \in Seq(Item)
          /\ \A m \in 1..Len(Items[c]) : Items[c][m] \in Item
      BY ItemTypes
    <2>2. DOMAIN Items[c] = 1..Len(Items[c]) /\ Len(Items[c]) \in Nat
      BY <2>1
    <2>3. \A m \in 1..Len(Items[c]) : [path |-> p, item |-> Items[c][m]] \in Entry
      BY <2>1 DEF Entry
    <2>4. Row(p) \in [1..Len(Items[c]) -> Entry]
      BY <2>2, <2>3
    <2>5. \A m \in 1..Len(Items[c]) : Row(p)[m] = [path |-> p, item |-> Items[c][m]]
      BY <2>2
    <2>6. ASSUME NEW m \in 1..Len(Items[c]), p \in S
          PROVE  [path |-> p, item |-> Items[c][m]] \in Entries(S, disk)
      <3> DEFINE e == [path |-> p, item |-> Items[c][m]]
      <3>1. e.item = Items[c][m] /\ e.path = p
        OBVIOUS
      <3>2. Items[c][m] \in ItemSets[c]
        BY <2>1, ItemTypes
      <3>3. e.item \in Algebra!AllItems
        BY <2>1, <3>1, <3>2 DEF Algebra!AllItems
      <3>4. QED
        BY <2>6, <3>1, <3>2, <3>3 DEF Entries, Algebra!EntriesOf
    <2>7. Row(p) \in Seq(Entry) /\ Len(Row(p)) = Len(Items[c])
      <3> HIDE DEF Row
      <3>1. QED
        BY <2>2, <2>4
    <2>8. QED
      BY <2>5, <2>6, <2>7
  <1> HIDE DEF Row
  <1>4. /\ seqs \in Seq(Seq(Entry)) /\ Len(seqs) = N
        /\ \A n \in 1..N : seqs[n] = IF PathOrder[n] \notin S THEN <<>> ELSE Row(PathOrder[n])
    <2>1. DOMAIN PathOrder = 1..N
      BY <1>1
    <2>2. <<>> \in Seq(Entry)
      OBVIOUS
    <2>3. seqs \in [1..N -> Seq(Entry)]
      BY <1>1, <1>3, <2>1, <2>2
    <2>4. \A n \in 1..N : seqs[n] = IF PathOrder[n] \notin S THEN <<>> ELSE Row(PathOrder[n])
      BY <2>1
    <2> HIDE DEF seqs, N
    <2>5. QED
      BY <1>1, <2>3, <2>4
  <1> HIDE DEF seqs, N
  <1>5. ASSUME NEW n, NEW m, CellIn(seqs, N, n, m)
        PROVE  /\ n \in 1..N /\ PathOrder[n] \in S /\ m \in 1..Len(Items[disk[PathOrder[n]]])
               /\ seqs[n] = Row(PathOrder[n])
               /\ seqs[n][m] = [path |-> PathOrder[n], item |-> Items[disk[PathOrder[n]]][m]]
               /\ seqs[n][m] \in Entries(S, disk)
    <2>1. n \in 1..N /\ m \in 1..Len(seqs[n])
      BY <1>5 DEF CellIn
    <2>2. PathOrder[n] \in S
      BY <1>4, <2>1
    <2>3. seqs[n] = Row(PathOrder[n]) /\ PathOrder[n] \in Paths
      BY <1>4, <2>1, <2>2
    <2>4. m \in 1..Len(Items[disk[PathOrder[n]]])
      BY <1>3, <2>1, <2>3
    <2>5. QED
      BY <1>3, <2>1, <2>2, <2>3, <2>4
  <1>6. ASSUME NEW i, NEW j, NEW m, NEW n, CellIn(seqs, N, i, m), CellIn(seqs, N, j, n),
               Algebra!Key(seqs[i][m]) = Algebra!Key(seqs[j][n])
        PROVE  i = j /\ m = n
    <2> DEFINE p == PathOrder[i]
               q == PathOrder[j]
    <2>1. /\ i \in 1..N /\ p \in S /\ m \in 1..Len(Items[disk[p]])
          /\ seqs[i][m] = [path |-> p, item |-> Items[disk[p]][m]]
      BY <1>5, <1>6
    <2>2. /\ j \in 1..N /\ q \in S /\ n \in 1..Len(Items[disk[q]])
          /\ seqs[j][n] = [path |-> q, item |-> Items[disk[q]][n]]
      BY <1>5, <1>6
    <2> HIDE DEF p, q
    <2>3. p = q /\ Items[disk[p]][m].granule = Items[disk[q]][n].granule
      BY <1>6, <2>1, <2>2 DEF Algebra!Key
    <2>4. i = j
      BY <1>1, <2>1, <2>2, <2>3 DEF p, q
    <2>5. DOMAIN Items[disk[p]] = 1..Len(Items[disk[p]]) /\ disk[p] \in Contents
      BY <2>1, ItemTypes
    <2>6. m = n
      BY <2>1, <2>2, <2>3, <2>5 DEF DistinctGranules
    <2>7. QED
      BY <2>4, <2>6
  <1>7. DistinctCells(seqs)
    BY <1>4, <1>6 DEF DistinctCells
  <1> DEFINE items == FlattenSeq(seqs)
  <1>8. items \in Seq(Entry) /\ Lists(items, seqs, N)
    BY <1>4, <1>7, FlattenLists
  <1> HIDE DEF items
  <1>9. ASSUME NEW n \in 1..Len(items)
        PROVE  items[n] \in Entries(S, disk)
    <2>1. PICK i, m : CellIn(seqs, N, i, m) /\ items[n] = seqs[i][m]
      BY <1>8 DEF Lists
    <2>2. QED
      BY <1>5, <2>1, ZenonT(60)
  <1>10. ASSUME NEW e \in Entries(S, disk)
         PROVE  \E n \in 1..Len(items) : items[n] = e
    <2>1. /\ e \in [path : S, item : Algebra!AllItems]
          /\ \E m \in 1..Len(Items[disk[e.path]]) : e.item = Items[disk[e.path]][m]
      BY EntryTypes, Zenon
    <2>2. PICK m \in 1..Len(Items[disk[e.path]]) : e.item = Items[disk[e.path]][m]
      BY <2>1
    <2>3. e.path \in S /\ e = [path |-> e.path, item |-> e.item]
      BY <2>1
    <2>4. PICK i \in 1..N : PathOrder[i] = e.path
      BY <1>1, <2>3
    <2>5. seqs[i] = Row(e.path) /\ seqs[i][m] = e /\ Len(seqs[i]) = Len(Items[disk[e.path]])
      BY <1>3, <1>4, <2>2, <2>3, <2>4
    <2>6. CellIn(seqs, N, i, m)
      BY <2>2, <2>4, <2>5 DEF CellIn
    <2>7. QED
      BY <1>8, <2>5, <2>6 DEF Lists
  <1>11. ASSUME NEW m \in 1..Len(items), NEW n \in 1..Len(items),
                Algebra!Key(items[m]) = Algebra!Key(items[n])
         PROVE  m = n
    <2>1. PICK i, j : CellIn(seqs, N, i, j) /\ items[m] = seqs[i][j]
      BY <1>8 DEF Lists
    <2>2. PICK k, l : CellIn(seqs, N, k, l) /\ items[n] = seqs[k][l]
      BY <1>8 DEF Lists
    <2>3. i = k /\ j = l
      BY <1>6, <1>11, <2>1, <2>2
    <2>4. QED
      BY <1>8, <2>1, <2>2, <2>3 DEF Lists
  <1>12. QED
    BY <1>2, <1>8, <1>9, <1>10, <1>11 DEF Enumerates, items

-----------------------------------------------------------------------------
(* What the operations on the index and the exact sets do to the entries.  *)

(* An id has the key of the entry it stands for.                           *)
LEMMA StandsForKey ==
  ASSUME NEW ix, NEW unique, NEW id, NEW e, StandsFor(ix, unique, id, e)
  PROVE  ItemKeyOf(ix, id) = Algebra!Key(e)
  BY DEF StandsFor, ItemKeyOf, Algebra!Key

(* A new index holds nothing.                                              *)
LEMMA HoldsNothing ==
  ASSUME NEW unique
  PROVE  Holds(EmptyIndex, unique, {})
  BY EmptyGood DEF Holds

(* Tombstoning the entries of some paths.                                  *)
LEMMA RemoveHolds ==
  ASSUME NEW ix, NEW unique, NEW E, E \subseteq Entry, Holds(ix, unique, E),
         NEW S \in SUBSET Paths
  PROVE  Holds(RemoveAll(ix, S), unique, {e \in E : e.path \notin S})
  <1> DEFINE ixR == RemoveAll(ix, S)
             kept == {e \in E : e.path \notin S}
  <1>1. GoodIndex(ix)
    BY DEF Holds
  <1>2. /\ GoodIndex(ixR)
        /\ LiveIds(ixR) = LiveIds(ix) \ RemovedIds(ix, S)
        /\ ixR.sketches = ix.sketches
        /\ \A id \in Ids(ix) : /\ ixR.files[id].path = ix.files[id].path
                               /\ ixR.files[id].granule = ix.files[id].granule
    BY <1>1, RemoveAllGood
  <1> HIDE DEF ixR
  <1>3. LiveIds(ix) \subseteq Ids(ix) /\ \A id \in LiveIds(ix) : ix.files[id].path \in Paths
    <2>1. ix \in IndexRecord /\ Len(ix.sketches) = Len(ix.files)
      BY <1>1 DEF GoodIndex
    <2>2. LiveIds(ix) \subseteq Ids(ix) /\ \A id \in Ids(ix) : ix.files[id] \in FileMeta
      BY <2>1, IndexShape
    <2>3. QED
      BY <2>2 DEF FileMeta
  <1>4. \A id \in LiveIds(ix) : id \in LiveIds(ixR) <=> ix.files[id].path \notin S
    BY <1>2, <1>3 DEF RemovedIds
  <1>5. LiveIds(ixR) \subseteq LiveIds(ix)
    BY <1>2
  <1>6. \A id \in LiveIds(ix) : ItemKeyOf(ixR, id) = ItemKeyOf(ix, id)
    BY <1>2, <1>3 DEF ItemKeyOf
  <1>7. \A id \in LiveIds(ix) : \A e : StandsFor(ixR, unique, id, e) <=> StandsFor(ix, unique, id, e)
    BY <1>2, <1>3, <1>6 DEF StandsFor
  <1>8. ASSUME NEW i \in LiveIds(ixR)
        PROVE  \E e \in kept : StandsFor(ixR, unique, i, e)
    <2>1. PICK e \in E : StandsFor(ix, unique, i, e)
      BY <1>5 DEF Holds
    <2>2. e.path \notin S
      BY <1>4, <1>5, <2>1 DEF StandsFor
    <2>3. QED
      BY <1>5, <1>7, <2>1, <2>2
  <1>9. ASSUME NEW e \in kept
        PROVE  \E i \in LiveIds(ixR) : StandsFor(ixR, unique, i, e)
    <2>1. PICK i \in LiveIds(ix) : StandsFor(ix, unique, i, e)
      BY DEF Holds
    <2>2. i \in LiveIds(ixR)
      BY <1>4, <2>1 DEF StandsFor
    <2>3. QED
      BY <1>7, <2>1, <2>2
  <1>10. /\ \A i, j \in LiveIds(ixR) : ItemKeyOf(ixR, i) = ItemKeyOf(ixR, j) => i = j
         /\ \A i \in LiveIds(ixR) : ItemKeyOf(ixR, i) \in DOMAIN unique
    BY <1>5, <1>6 DEF Holds
  <1> HIDE DEF kept
  <1>11. Holds(ixR, unique, kept)
    BY <1>2, <1>8, <1>9, <1>10 DEF Holds
  <1>12. QED
    BY <1>11 DEF ixR, kept

(* Renumbering.                                                            *)
LEMMA CompactHolds ==
  ASSUME NEW ix, NEW unique, NEW E, Holds(ix, unique, E)
  PROVE  Holds(Compact(ix), unique, E)
  <1> DEFINE ixC == Compact(ix)
  <1>1. GoodIndex(ix)
    BY DEF Holds
  <1>2. /\ GoodIndex(ixC)
        /\ \E g \in [LiveIds(ixC) -> LiveIds(ix)] :
             /\ \A m, n \in LiveIds(ixC) : g[m] = g[n] => m = n
             /\ \A id \in LiveIds(ix) : \E n \in LiveIds(ixC) : g[n] = id
             /\ \A n \in LiveIds(ixC) : SameEntry(ixC, n, ix, g[n])
    BY <1>1, CompactGood
  <1> HIDE DEF ixC
  <1>3. PICK g \in [LiveIds(ixC) -> LiveIds(ix)] :
          /\ \A m, n \in LiveIds(ixC) : g[m] = g[n] => m = n
          /\ \A id \in LiveIds(ix) : \E n \in LiveIds(ixC) : g[n] = id
          /\ \A n \in LiveIds(ixC) : SameEntry(ixC, n, ix, g[n])
    BY <1>2
  <1>4. \A n \in LiveIds(ixC) : g[n] \in LiveIds(ix) /\ ItemKeyOf(ixC, n) = ItemKeyOf(ix, g[n])
    BY <1>3 DEF SameEntry, ItemKeyOf
  <1>5. \A n \in LiveIds(ixC) : \A e :
          StandsFor(ixC, unique, n, e) <=> StandsFor(ix, unique, g[n], e)
    BY <1>3, <1>4 DEF SameEntry, StandsFor
  <1>6. /\ \A i, j \in LiveIds(ixC) : ItemKeyOf(ixC, i) = ItemKeyOf(ixC, j) => i = j
        /\ \A i \in LiveIds(ixC) : ItemKeyOf(ixC, i) \in DOMAIN unique
    BY <1>3, <1>4 DEF Holds
  <1>7. \A i \in LiveIds(ixC) : \E e \in E : StandsFor(ixC, unique, i, e)
    BY <1>4, <1>5 DEF Holds
  <1>8. ASSUME NEW e \in E
        PROVE  \E i \in LiveIds(ixC) : StandsFor(ixC, unique, i, e)
    <2>1. PICK id \in LiveIds(ix) : StandsFor(ix, unique, id, e)
      BY DEF Holds
    <2>2. PICK n \in LiveIds(ixC) : g[n] = id
      BY <1>3
    <2>3. QED
      BY <1>5, <2>1, <2>2
  <1>9. Holds(ixC, unique, E)
    BY <1>2, <1>6, <1>7, <1>8 DEF Holds
  <1>10. QED
    BY <1>9 DEF ixC

(* Dropping exact sets of keys that no entry has.                          *)
LEMMA RestrictHolds ==
  ASSUME NEW ix, NEW unique, NEW E, Holds(ix, unique, E),
         NEW D, D \subseteq DOMAIN unique, \A e \in E : Algebra!Key(e) \in D
  PROVE  Holds(ix, Restrict(unique, D), E) /\ DOMAIN Restrict(unique, D) = D
  <1> DEFINE cut == Restrict(unique, D)
  <1>1. DOMAIN cut = D /\ \A k \in D : cut[k] = unique[k]
    BY DEF Restrict
  <1> HIDE DEF cut
  <1>2. \A i \in LiveIds(ix) : ItemKeyOf(ix, i) \in D
    <2>1. TAKE i \in LiveIds(ix)
    <2>2. PICK e \in E : StandsFor(ix, unique, i, e)
      BY DEF Holds
    <2>3. QED
      BY <2>2, StandsForKey
  <1>3. \A i \in LiveIds(ix) : \A e :
          StandsFor(ix, cut, i, e) <=> StandsFor(ix, unique, i, e)
    BY <1>1, <1>2 DEF StandsFor
  <1>4. Holds(ix, cut, E)
    BY <1>1, <1>2, <1>3 DEF Holds
  <1>5. QED
    BY <1>1, <1>4 DEF cut

(* The exact sets of the items are put in, under their keys.               *)
SetsOf(E, unique, sets) ==
  /\ DOMAIN sets = DOMAIN unique \cup KeysOf(E)
  /\ \A k \in DOMAIN unique \ KeysOf(E) : sets[k] = unique[k]
  /\ \A e \in E : sets[Algebra!Key(e)] = e.item.set

(* Each inserted entry has its exact set, the other sets stay.             *)
LEMMA InsertSetsFields ==
  ASSUME NEW unique, NEW items, NEW E, E \subseteq Entry, Enumerates(items, E)
  PROVE  SetsOf(E, unique, InsertSets(unique, items))
  <1> DEFINE keys == KeysOf(E)
             sets == InsertSets(unique, items)
             KeyAt(n) == [path |-> items[n].path, granule |-> items[n].item.granule]
  <1>1. /\ Len(items) \in Nat /\ DOMAIN items = 1..Len(items)
        /\ \A n \in 1..Len(items) : KeyAt(n) = Algebra!Key(items[n]) /\ items[n] \in E
    BY DEF Enumerates, Algebra!Key
  <1>2. {KeyAt(n) : n \in DOMAIN items} = keys
    <2>1. ASSUME NEW n \in DOMAIN items PROVE KeyAt(n) \in keys
      BY <1>1 DEF KeysOf
    <2>2. ASSUME NEW e \in E PROVE \E n \in DOMAIN items : KeyAt(n) = Algebra!Key(e)
      BY <1>1 DEF Enumerates
    <2> HIDE DEF KeyAt
    <2>3. QED
      BY <2>1, <2>2 DEF KeysOf
  <1>3. sets = [k \in DOMAIN unique \cup keys |->
                  IF k \in keys
                  THEN items[Max({n \in DOMAIN items : KeyAt(n) = k})].item.set
                  ELSE unique[k]]
    BY <1>2 DEF InsertSets
  <1> HIDE DEF sets
  <1>4. ASSUME NEW e \in E
        PROVE  items[Max({n \in DOMAIN items : KeyAt(n) = Algebra!Key(e)})].item.set = e.item.set
    <2>1. PICK m \in 1..Len(items) : items[m] = e
      BY DEF Enumerates
    <2>2. \A n \in 1..Len(items) : KeyAt(n) = Algebra!Key(e) <=> n = m
      BY <1>1, <2>1 DEF Enumerates
    <2> HIDE DEF KeyAt
    <2>3. {n \in DOMAIN items : KeyAt(n) = Algebra!Key(e)} = {m}
      BY <1>1, <2>2
    <2>4. Max({m}) = m
      BY <2>1 DEF Max
    <2>5. QED
      BY <2>1, <2>3, <2>4
  <1> HIDE DEF KeyAt
  <1>5. \A e \in E : Algebra!Key(e) \in keys
    BY DEF KeysOf
  <1> HIDE DEF keys
  <1>6. DOMAIN sets = DOMAIN unique \cup keys
    BY <1>3
  <1>7. \A k \in DOMAIN unique \ keys : sets[k] = unique[k]
    BY <1>3
  <1>8. \A e \in E : sets[Algebra!Key(e)] = e.item.set
    BY <1>3, <1>4, <1>5
  <1>9. QED
    BY <1>6, <1>7, <1>8 DEF sets, keys, SetsOf

(* The new ids stand for the new entries.                                  *)
LEMMA InsertIndexFields ==
  ASSUME NEW ix, GoodIndex(ix), NEW items, NEW E, E \subseteq Entry, Enumerates(items, E)
  PROVE  LET n == Len(ix.files)
             ixI == InsertIndex(ix, items)
         IN  /\ GoodIndex(ixI)
             /\ n \in Nat /\ Len(items) \in Nat
             /\ Len(ixI.files) = n + Len(items)
             /\ LiveIds(ix) \subseteq 1..n
             /\ LiveIds(ixI) = LiveIds(ix) \cup (n + 1)..(n + Len(items))
             /\ \A id \in LiveIds(ix) : /\ ixI.files[id] = ix.files[id]
                                        /\ ixI.sketches[id] = ix.sketches[id]
             /\ \A m \in 1..Len(items) :
                  /\ ixI.files[n + m].path = items[m].path
                  /\ ixI.files[n + m].granule = items[m].item.granule
                  /\ ixI.sketches[n + m] = items[m].item.sketch
  <1> DEFINE n == Len(ix.files)
             ixI == InsertIndex(ix, items)
             entries == [m \in DOMAIN items |->
                           [path |-> items[m].path, granule |-> items[m].item.granule,
                            sketch |-> items[m].item.sketch]]
  <1>1. /\ items \in Seq(Entry) /\ Len(items) \in Nat /\ DOMAIN items = 1..Len(items)
        /\ \A m \in 1..Len(items) : items[m] \in Entry
    BY DEF Enumerates
  <1>2. \A m \in 1..Len(items) :
          [path |-> items[m].path, granule |-> items[m].item.granule,
           sketch |-> items[m].item.sketch] \in IndexEntry
    BY <1>1 DEF Entry, Item, IndexEntry
  <1>3. entries \in [1..Len(items) -> IndexEntry]
    BY <1>1, <1>2
  <1>4. \A m \in 1..Len(items) : /\ entries[m].path = items[m].path
                                 /\ entries[m].granule = items[m].item.granule
                                 /\ entries[m].sketch = items[m].item.sketch
    BY <1>1
  <1>5. ixI = AddAll(ix, entries)
    BY DEF InsertIndex
  <1> HIDE DEF entries, ixI
  <1>6. entries \in Seq(IndexEntry) /\ Len(entries) = Len(items)
    BY <1>1, <1>3
  <1>7. /\ GoodIndex(ixI)
        /\ LiveIds(ixI) = LiveIds(ix) \cup {n + m : m \in 1..Len(entries)}
    BY <1>5, <1>6, AddAllGood
  <1>8. /\ Len(ixI.files) = n + Len(entries)
        /\ \A id \in 1..n : /\ ixI.files[id] = ix.files[id]
                            /\ ixI.sketches[id] = ix.sketches[id]
        /\ \A m \in 1..Len(entries) :
             /\ ixI.files[n + m].path = entries[m].path
             /\ ixI.files[n + m].granule = entries[m].granule
             /\ ixI.sketches[n + m] = entries[m].sketch
    <2> DEFINE added == AddAll(ix, entries)
    <2>1. /\ Len(added.files) = Len(ix.files) + Len(entries)
          /\ \A id \in 1..Len(ix.files) : /\ added.files[id] = ix.files[id]
                                         /\ added.sketches[id] = ix.sketches[id]
          /\ \A m \in 1..Len(entries) :
               /\ added.files[Len(ix.files) + m].path = entries[m].path
               /\ added.files[Len(ix.files) + m].granule = entries[m].granule
               /\ added.sketches[Len(ix.files) + m] = entries[m].sketch
      BY <1>6, AddAllFields, ZenonT(60)
    <2>2. added = ixI
      BY <1>5
    <2> HIDE DEF added
    <2>3. QED
      BY <2>1, <2>2, Zenon
  <1>9. n \in Nat /\ LiveIds(ix) \subseteq 1..n
    BY IndexShape DEF GoodIndex
  <1> HIDE DEF n
  <1>10. {n + m : m \in 1..Len(items)} = (n + 1)..(n + Len(items))
    <2>1. \A id \in (n + 1)..(n + Len(items)) : id - n \in 1..Len(items) /\ n + (id - n) = id
      BY <1>1, <1>9
    <2>2. \A m \in 1..Len(items) : n + m \in (n + 1)..(n + Len(items))
      BY <1>1, <1>9
    <2>3. QED
      BY <2>1, <2>2
  <1>11. QED
    BY <1>1, <1>4, <1>6, <1>7, <1>8, <1>9, <1>10, SMTT(40) DEF n, ixI

(* Inserting the items of some entries beside entries under other keys.    *)
LEMMA InsertHolds ==
  ASSUME NEW ix, NEW unique, NEW E, E \subseteq Entry, Holds(ix, unique, E),
         NEW items, NEW F, F \subseteq Entry, Enumerates(items, F),
         \A e \in E : \A f \in F : Algebra!Key(e) # Algebra!Key(f)
  PROVE  LET ixI == InsertIndex(ix, items)
             sets == InsertSets(unique, items)
             new == (Len(ix.files) + 1)..Len(ixI.files)
         IN  /\ Holds(ixI, sets, E \cup F)
             /\ LiveIds(ixI) = LiveIds(ix) \cup new
             /\ \A id \in LiveIds(ix) : \E e \in E : StandsFor(ixI, sets, id, e)
             /\ \A id \in new : \E f \in F : StandsFor(ixI, sets, id, f)
             /\ \A f \in F : \E id \in new : StandsFor(ixI, sets, id, f)
             /\ \A i \in LiveIds(ix), j \in new : i < j
  <1> DEFINE n == Len(ix.files)
             ixI == InsertIndex(ix, items)
             sets == InsertSets(unique, items)
             new == (Len(ix.files) + 1)..Len(ixI.files)
             keys == KeysOf(F)
  <1>0. GoodIndex(ix)
    BY DEF Holds
  <1>1. /\ GoodIndex(ixI)
        /\ n \in Nat /\ Len(items) \in Nat
        /\ Len(ixI.files) = n + Len(items)
        /\ LiveIds(ix) \subseteq 1..n
        /\ LiveIds(ixI) = LiveIds(ix) \cup (n + 1)..(n + Len(items))
        /\ \A id \in LiveIds(ix) : /\ ixI.files[id] = ix.files[id]
                                   /\ ixI.sketches[id] = ix.sketches[id]
        /\ \A m \in 1..Len(items) :
             /\ ixI.files[n + m].path = items[m].path
             /\ ixI.files[n + m].granule = items[m].item.granule
             /\ ixI.sketches[n + m] = items[m].item.sketch
    BY <1>0, InsertIndexFields
  <1>2. /\ DOMAIN sets = DOMAIN unique \cup keys
        /\ \A k \in DOMAIN unique \ keys : sets[k] = unique[k]
        /\ \A e \in F : sets[Algebra!Key(e)] = e.item.set
    <2>1. SetsOf(F, unique, sets)
      BY InsertSetsFields
    <2>2. QED
      BY <2>1 DEF SetsOf
  <1> HIDE DEF ixI, sets
  <1>3. new = (n + 1)..(n + Len(items)) /\ LiveIds(ixI) = LiveIds(ix) \cup new
    BY <1>1
  <1>4. \A m \in 1..Len(items) : n + m \in new
    BY <1>1
  <1>5. \A id \in new : id - n \in 1..Len(items) /\ n + (id - n) = id
    BY <1>1
  <1>6. \A i \in LiveIds(ix), j \in new : i < j
    BY <1>1
  <1> HIDE DEF n, new
  <1>7. ASSUME NEW id \in LiveIds(ix), NEW e \in E, StandsFor(ix, unique, id, e)
        PROVE  StandsFor(ixI, sets, id, e) /\ ItemKeyOf(ixI, id) = ItemKeyOf(ix, id)
    <2>1. ItemKeyOf(ixI, id) = ItemKeyOf(ix, id)
      BY <1>1 DEF ItemKeyOf
    <2>2. ItemKeyOf(ix, id) = Algebra!Key(e)
      BY <1>7, StandsForKey
    <2>3. ItemKeyOf(ix, id) \in DOMAIN unique \ keys
      BY <2>2 DEF Holds, KeysOf
    <2>4. sets[ItemKeyOf(ix, id)] = unique[ItemKeyOf(ix, id)]
      BY <1>2, <2>3
    <2>5. QED
      BY <1>1, <1>7, <2>1, <2>4 DEF StandsFor
  <1>8. \A id \in LiveIds(ix) : \E e \in E : /\ StandsFor(ix, unique, id, e)
                                            /\ StandsFor(ixI, sets, id, e)
    BY <1>7 DEF Holds
  <1>9. ASSUME NEW m \in 1..Len(items)
        PROVE  StandsFor(ixI, sets, n + m, items[m]) /\ items[m] \in F
    <2>1. items[m] \in F
      BY DEF Enumerates
    <2>2. ItemKeyOf(ixI, n + m) = Algebra!Key(items[m])
      BY <1>1 DEF ItemKeyOf, Algebra!Key
    <2>3. sets[Algebra!Key(items[m])] = items[m].item.set
      BY <1>2, <2>1
    <2>4. QED
      BY <1>1, <2>1, <2>2, <2>3 DEF StandsFor
  <1>10. ASSUME NEW id \in new
         PROVE  \E m \in 1..Len(items) : id = n + m /\ StandsFor(ixI, sets, id, items[m])
    <2>1. id - n \in 1..Len(items) /\ n + (id - n) = id
      BY <1>5
    <2>2. StandsFor(ixI, sets, n + (id - n), items[id - n])
      BY <1>9, <2>1
    <2>3. QED
      BY <2>1, <2>2
  <1>11. \A id \in new : \E f \in F : StandsFor(ixI, sets, id, f)
    BY <1>9, <1>10
  <1>12. ASSUME NEW f \in F
         PROVE  \E id \in new : StandsFor(ixI, sets, id, f)
    <2>1. PICK m \in 1..Len(items) : items[m] = f
      BY DEF Enumerates
    <2>2. QED
      BY <1>4, <1>9, <2>1
  <1>13. ASSUME NEW i \in LiveIds(ixI), NEW j \in LiveIds(ixI),
                ItemKeyOf(ixI, i) = ItemKeyOf(ixI, j)
         PROVE  i = j
    <2>1. CASE i \in LiveIds(ix) /\ j \in LiveIds(ix)
      BY <1>7, <1>8, <1>13, <2>1 DEF Holds
    <2>2. CASE i \in new /\ j \in new
      <3>1. PICK k \in 1..Len(items) : i = n + k /\ StandsFor(ixI, sets, i, items[k])
        BY <1>10, <2>2
      <3>2. PICK l \in 1..Len(items) : j = n + l /\ StandsFor(ixI, sets, j, items[l])
        BY <1>10, <2>2
      <3>3. Algebra!Key(items[k]) = Algebra!Key(items[l])
        BY <1>13, <3>1, <3>2, StandsForKey
      <3>4. QED
        BY <3>1, <3>2, <3>3 DEF Enumerates
    <2>3. ASSUME NEW a \in LiveIds(ix), NEW b \in new, ItemKeyOf(ixI, a) = ItemKeyOf(ixI, b)
          PROVE  FALSE
      <3>1. PICK e \in E : StandsFor(ixI, sets, a, e)
        BY <1>8
      <3>2. PICK f \in F : StandsFor(ixI, sets, b, f)
        BY <1>11
      <3>3. QED
        BY <2>3, <3>1, <3>2, StandsForKey
    <2>4. QED
      BY <1>3, <1>13, <2>1, <2>2, <2>3
  <1>14. \A i \in LiveIds(ixI) : \E e \in E \cup F : StandsFor(ixI, sets, i, e)
    BY <1>3, <1>8, <1>11
  <1>15. \A e \in E \cup F : \E i \in LiveIds(ixI) : StandsFor(ixI, sets, i, e)
    <2>1. ASSUME NEW e \in E PROVE \E i \in LiveIds(ix) : StandsFor(ixI, sets, i, e)
      BY <1>7 DEF Holds
    <2>2. QED
      BY <1>3, <1>12, <2>1
  <1>16. \A i \in LiveIds(ixI) : ItemKeyOf(ixI, i) \in DOMAIN sets
    <2>1. TAKE i \in LiveIds(ixI)
    <2>2. CASE i \in LiveIds(ix)
      BY <1>2, <1>7, <1>8, <2>2 DEF Holds
    <2>3. CASE i \in new
      <3>1. PICK f \in F : StandsFor(ixI, sets, i, f)
        BY <1>11, <2>3
      <3>2. QED
        BY <1>2, <3>1, StandsForKey DEF KeysOf
    <2>4. QED
      BY <1>3, <2>2, <2>3
  <1> HIDE DEF keys
  <1>17. Holds(ixI, sets, E \cup F)
    BY <1>1, <1>13, <1>14, <1>15, <1>16 DEF Holds
  <1>18. QED
    BY <1>3, <1>6, <1>8, <1>11, <1>12, <1>17 DEF n, new, ixI, sets

-----------------------------------------------------------------------------
(* Verification.                                                           *)

(* Two different keys are two keys.                                        *)
LEMMA PairHasTwo ==
  ASSUME NEW a, NEW b, a # b
  PROVE  Cardinality({a, b}) = 2
  <1>1. IsFiniteSet({a}) /\ Cardinality({a}) = 1
    BY FS_Singleton
  <1>2. Cardinality({a} \cup {b}) = Cardinality({a}) + 1
    BY <1>1, FS_AddElement
  <1>3. {a} \cup {b} = {a, b}
    OBVIOUS
  <1>4. QED
    BY <1>1, <1>2, <1>3

OverlapAt(ix, unique, ij) ==
  ExactOverlap(unique[ItemKeyOf(ix, ij[1])], unique[ItemKeyOf(ix, ij[2])])

(* The findings of candidate pairs: one for each that passes, and no two   *)
(* candidates compete for a key.                                           *)
FindingsOf(ix, unique, candidates, f) ==
  /\ \A ij \in candidates : ExactPasses(OverlapAt(ix, unique, ij)) =>
       /\ PairKeyOf(ix, ij[1], ij[2]) \in DOMAIN f
       /\ f[PairKeyOf(ix, ij[1], ij[2])] = OverlapAt(ix, unique, ij)
  /\ \A pk \in DOMAIN f : \E ij \in candidates :
       /\ pk = PairKeyOf(ix, ij[1], ij[2])
       /\ ExactPasses(OverlapAt(ix, unique, ij))
       /\ f[pk] = OverlapAt(ix, unique, ij)

(* It is a map from pair keys of candidates.                               *)
LEMMA FindingMapsAreMaps ==
  ASSUME NEW ix, NEW unique, NEW candidates, NEW f \in FindingMaps(ix, unique, candidates)
  PROVE  /\ IsMap(f)
         /\ DOMAIN f \subseteq {PairKeyOf(ix, ij[1], ij[2]) : ij \in candidates}
  <1> DEFINE pairs == {PairKeyOf(ix, ij[1], ij[2]) : ij \in candidates}
             verdicts == [pk \in pairs |->
                            UNION {VerifyAndClassify(ix, unique, ij[1], ij[2]) :
                                     ij \in {c \in candidates :
                                               PairKeyOf(ix, c[1], c[2]) = pk}}]
             keys == {pk \in DOMAIN verdicts : verdicts[pk] # {} /\ Cardinality(pk) = 2}
             clashes == {pk \in keys : Cardinality(verdicts[pk]) > 1}
             choices == {c \in [clashes -> UNION {verdicts[pk] : pk \in clashes}] :
                           \A pk \in clashes : c[pk] \in verdicts[pk]}
  <1>1. FindingMaps(ix, unique, candidates) =
          {[pk \in keys |-> IF pk \in clashes THEN c[pk]
                            ELSE CHOOSE v \in verdicts[pk] : TRUE] : c \in choices}
    BY DEF FindingMaps
  <1>2. keys \subseteq pairs
    OBVIOUS
  <1> HIDE DEF pairs, verdicts, keys, clashes, choices
  <1>3. PICK c \in choices : f = [pk \in keys |-> IF pk \in clashes THEN c[pk]
                                                  ELSE CHOOSE v \in verdicts[pk] : TRUE]
    BY <1>1
  <1>4. QED
    BY <1>2, <1>3 DEF IsMap, pairs

OrderedPairs(ix) == {ij \in LiveIds(ix) \X LiveIds(ix) : ij[1] < ij[2]}

(* Two candidate pairs with one pair key are the same pair of ids.         *)
LEMMA PairKeyIdentifies ==
  ASSUME NEW ix, NEW unique, NEW E, Holds(ix, unique, E),
         NEW c \in OrderedPairs(ix), NEW d \in OrderedPairs(ix),
         PairKeyOf(ix, c[1], c[2]) = PairKeyOf(ix, d[1], d[2])
  PROVE  c = d
  <1>1. /\ c = <<c[1], c[2]>> /\ c[1] \in LiveIds(ix) /\ c[2] \in LiveIds(ix) /\ c[1] < c[2]
        /\ d = <<d[1], d[2]>> /\ d[1] \in LiveIds(ix) /\ d[2] \in LiveIds(ix) /\ d[1] < d[2]
    BY DEF OrderedPairs
  <1>2. LiveIds(ix) \subseteq Nat
    <2>1. GoodIndex(ix)
      BY DEF Holds
    <2>2. Ids(ix) = 1..Len(ix.files) /\ LiveIds(ix) \subseteq Ids(ix)
      BY <2>1, IndexShape DEF GoodIndex
    <2>3. QED
      BY <2>2
  <1>3. \A i, j \in LiveIds(ix) : ItemKeyOf(ix, i) = ItemKeyOf(ix, j) => i = j
    BY DEF Holds
  <1>4. \/ c[1] = d[1] /\ c[2] = d[2]
        \/ c[1] = d[2] /\ c[2] = d[1]
        \/ c[1] = c[2] \/ d[1] = d[2]
    BY <1>1, <1>3 DEF PairKeyOf
  <1>5. QED
    BY <1>1, <1>2, <1>4

(* So the map of findings is the one map that has the overlap of each      *)
(* candidate that passes, in whatever order they are verified.             *)
LEMMA FindingMapsExact ==
  ASSUME NEW ix, NEW unique, NEW E, Holds(ix, unique, E),
         NEW candidates, candidates \subseteq OrderedPairs(ix),
         NEW f \in FindingMaps(ix, unique, candidates)
  PROVE  FindingsOf(ix, unique, candidates, f)
  <1> DEFINE PK(c) == PairKeyOf(ix, c[1], c[2])
             VC(c) == VerifyAndClassify(ix, unique, c[1], c[2])
             Ov(c) == OverlapAt(ix, unique, c)
             verdicts == [pk \in {PK(c) : c \in candidates} |->
                            UNION {VC(c) : c \in {d \in candidates : PK(d) = pk}}]
             keys == {pk \in DOMAIN verdicts : verdicts[pk] # {} /\ Cardinality(pk) = 2}
             clashes == {pk \in keys : Cardinality(verdicts[pk]) > 1}
             choices == {c \in [clashes -> UNION {verdicts[pk] : pk \in clashes}] :
                           \A pk \in clashes : c[pk] \in verdicts[pk]}
  <1>1. FindingMaps(ix, unique, candidates) =
          {[pk \in keys |-> IF pk \in clashes THEN c[pk]
                            ELSE CHOOSE v \in verdicts[pk] : TRUE] : c \in choices}
    BY DEF FindingMaps
  <1>2. ASSUME NEW c \in candidates
        PROVE  VC(c) = IF ExactPasses(Ov(c)) THEN {Ov(c)} ELSE {}
    <2>1. c[1] \in LiveIds(ix) /\ c[2] \in LiveIds(ix)
      BY DEF OrderedPairs
    <2>2. ItemKeyOf(ix, c[1]) \in DOMAIN unique /\ ItemKeyOf(ix, c[2]) \in DOMAIN unique
      BY <2>1 DEF Holds
    <2>3. /\ {ItemKeyOf(ix, c[1])} \cap DOMAIN unique = {ItemKeyOf(ix, c[1])}
          /\ {ItemKeyOf(ix, c[2])} \cap DOMAIN unique = {ItemKeyOf(ix, c[2])}
      BY <2>2
    <2>4. VC(c) = {v \in {Ov(c)} : ExactPasses(v)}
      BY <2>3 DEF VerifyAndClassify, OverlapAt
    <2>5. QED
      BY <2>4
  <1>3. ASSUME NEW c \in candidates, NEW d \in candidates, PK(c) = PK(d)
        PROVE  c = d
    BY <1>3, PairKeyIdentifies
  <1>4. ASSUME NEW c \in candidates
        PROVE  Cardinality(PK(c)) = 2
    <2>1. c \in OrderedPairs(ix)
      OBVIOUS
    <2>2. c[1] \in LiveIds(ix) /\ c[2] \in LiveIds(ix) /\ c[1] < c[2] /\ c[1] # c[2]
      <3>1. LiveIds(ix) \subseteq Nat
        <4>1. GoodIndex(ix)
          BY DEF Holds
        <4>2. Ids(ix) = 1..Len(ix.files) /\ LiveIds(ix) \subseteq Ids(ix)
          BY <4>1, IndexShape DEF GoodIndex
        <4>3. QED
          BY <4>2
      <3>2. QED
        BY <2>1, <3>1 DEF OrderedPairs
    <2>3. ItemKeyOf(ix, c[1]) # ItemKeyOf(ix, c[2])
      BY <2>2 DEF Holds
    <2>4. QED
      BY <2>3, PairHasTwo DEF PairKeyOf
  <1> HIDE DEF PK, VC, Ov
  <1>5. /\ DOMAIN verdicts = {PK(c) : c \in candidates}
        /\ \A c \in candidates : verdicts[PK(c)] = VC(c)
    <2>1. ASSUME NEW c \in candidates
          PROVE  {VC(b) : b \in {d \in candidates : PK(d) = PK(c)}} = {VC(c)}
      BY <1>3
    <2>2. \A c \in candidates : UNION {VC(c)} = VC(c)
      OBVIOUS
    <2>3. QED
      BY <2>1, <2>2
  <1> HIDE DEF verdicts
  <1>6. \A c \in candidates : PK(c) \in keys <=> ExactPasses(Ov(c))
    BY <1>2, <1>4, <1>5, SMTT(40)
  <1>7. keys \subseteq {PK(c) : c \in candidates}
    BY <1>5
  <1>8. ASSUME NEW c \in candidates, ExactPasses(Ov(c))
        PROVE  PK(c) \notin clashes
    <2>1. verdicts[PK(c)] = {Ov(c)}
      BY <1>2, <1>5, <1>8
    <2>2. Cardinality(verdicts[PK(c)]) = 1
      BY <2>1, FS_Singleton
    <2>3. QED
      BY <2>2
  <1> HIDE DEF keys
  <1>9. PICK c \in choices :
          f = [pk \in keys |-> IF pk \in clashes THEN c[pk]
                               ELSE CHOOSE v \in verdicts[pk] : TRUE]
    BY <1>1
  <1>10. /\ DOMAIN f = keys
         /\ \A pk \in keys : pk \notin clashes => f[pk] = CHOOSE v \in verdicts[pk] : TRUE
    BY <1>9
  <1> HIDE DEF clashes, choices
  <1>11. ASSUME NEW d \in candidates, ExactPasses(Ov(d))
         PROVE  PK(d) \in DOMAIN f /\ f[PK(d)] = Ov(d)
    <2>1. PK(d) \in keys /\ PK(d) \notin clashes
      BY <1>6, <1>8, <1>11
    <2>2. verdicts[PK(d)] = {Ov(d)}
      BY <1>2, <1>5, <1>11
    <2>3. (CHOOSE v \in {Ov(d)} : TRUE) = Ov(d)
      OBVIOUS
    <2>4. QED
      BY <1>10, <2>1, <2>2, <2>3
  <1>12. ASSUME NEW pk \in DOMAIN f
         PROVE  \E d \in candidates : pk = PK(d) /\ ExactPasses(Ov(d)) /\ f[pk] = Ov(d)
    <2>1. PICK d \in candidates : pk = PK(d)
      BY <1>7, <1>10
    <2>2. ExactPasses(Ov(d))
      BY <1>6, <1>10, <2>1
    <2>3. QED
      BY <1>11, <2>1, <2>2
  <1>13. QED
    BY <1>11, <1>12 DEF FindingsOf, PK, Ov

-----------------------------------------------------------------------------
(* The filters on items are those on ids, and symmetric.                   *)

(* The estimate does not depend on which sketch is first.                  *)
LEMMA SketchAgreementSymmetric ==
  ASSUME NEW s \in Sketches, NEW t \in Sketches
  PROVE  SketchPasses(s, t) <=> SketchPasses(t, s)
  <1>1. DOMAIN s = 1..(Bands * Rows) /\ DOMAIN t = 1..(Bands * Rows)
    BY LshIndexAssumption
  <1>2. {i \in DOMAIN s : s[i] = t[i]} = {i \in DOMAIN t : t[i] = s[i]}
    BY <1>1
  <1>3. QED
    BY <1>2 DEF SketchPasses, SketchAgreement

(* Nor does the exact overlap.                                             *)
LEMMA OverlapSymmetric ==
  ASSUME NEW A, NEW B
  PROVE  ExactOverlap(A, B) = ExactOverlap(B, A)
  <1>1. A \cap B = B \cap A /\ A \cup B = B \cup A
    OBVIOUS
  <1>2. {Cardinality(A), Cardinality(B)} = {Cardinality(B), Cardinality(A)}
    OBVIOUS
  <1>3. QED
    BY <1>1, <1>2 DEF ExactOverlap

(* The overlap of two items is a verdict, and never the rejected one.      *)
LEMMA OverlapTypes ==
  ASSUME NEW A, NEW B, IsFiniteSet(A), IsFiniteSet(B), A # {}
  PROVE  ExactOverlap(A, B) \in Verdicts /\ ExactOverlap(A, B) # NoOverlap
  <1>1. IsFiniteSet(A \cap B) /\ IsFiniteSet(A \cup B)
    BY FS_Intersection, FS_Union
  <1>2. Cardinality(A \cap B) \in Nat /\ Cardinality(A \cup B) \in Nat
    BY <1>1, FS_CardinalityType
  <1>3. Cardinality(A \cup B) # 0
    BY <1>1, FS_EmptySet
  <1>4. ExactOverlap(A, B).union = Cardinality(A \cup B) /\ NoOverlap.union = 0
    BY DEF ExactOverlap, NoOverlap
  <1>5. ExactOverlap(A, B) \in Verdicts
    <2>1. {Cardinality(A), Cardinality(B)} \in SUBSET Nat
      BY FS_CardinalityType
    <2>2. QED
      BY <1>2, <2>1 DEF ExactOverlap, Verdicts
  <1>6. QED
    BY <1>3, <1>4, <1>5

(* The hypotheses of the algebra.                                          *)
LEMMA FiltersSymmetric ==
  /\ Excluded \subseteq Paths
  /\ Absent \in Contents
  /\ ItemSets[Absent] = {}
  /\ \A i, j \in Algebra!AllItems :
       /\ ItemsShareBand(i, j) <=> ItemsShareBand(j, i)
       /\ ItemsClose(i, j) <=> ItemsClose(j, i)
       /\ ItemsVerdict(i, j) = ItemsVerdict(j, i)
  <1>1. ItemSets[Absent] = {}
    <2>1. Absent \in Contents /\ Items[Absent] = <<>> /\ Len(Items[Absent]) = 0
      BY EngineAssumption
    <2>2. QED
      BY <2>1, ItemTypes
  <1>2. ASSUME NEW i \in Algebra!AllItems, NEW j \in Algebra!AllItems
        PROVE  /\ ItemsShareBand(i, j) <=> ItemsShareBand(j, i)
               /\ ItemsClose(i, j) <=> ItemsClose(j, i)
               /\ ItemsVerdict(i, j) = ItemsVerdict(j, i)
    <2>1. i.sketch \in Sketches /\ j.sketch \in Sketches
      BY AllItemTypes DEF Item
    <2>2. ItemsShareBand(i, j) <=> ItemsShareBand(j, i)
      BY ShareBandSymmetric DEF ItemsShareBand
    <2>3. ItemsClose(i, j) <=> ItemsClose(j, i)
      BY <2>1, SketchAgreementSymmetric DEF ItemsClose
    <2>4. ItemsVerdict(i, j) = ItemsVerdict(j, i)
      BY OverlapSymmetric DEF ItemsVerdict
    <2>5. QED
      BY <2>2, <2>3, <2>4
  <1>3. QED
    BY <1>1, <1>2, EngineAssumption

-----------------------------------------------------------------------------
(* A pair of ids and the pair of entries they stand for.                   *)

Meets(ix, unique, i, j, e, g) ==
  StandsFor(ix, unique, i, e) /\ StandsFor(ix, unique, j, g)

SameMeeting(ix, unique, i, j, e, g) ==
  /\ PairKeyOf(ix, i, j) = Algebra!PairKey(e, g)
  /\ i # j <=> e # g
  /\ e # g => Algebra!Key(e) # Algebra!Key(g)
  /\ ShareBand(ix.sketches[i], ix.sketches[j]) <=> ItemsShareBand(e.item, g.item)
  /\ SketchPasses(ix.sketches[i], ix.sketches[j]) <=> ItemsClose(e.item, g.item)
  /\ OverlapAt(ix, unique, <<i, j>>) = ExactOverlap(e.item.set, g.item.set)

(* What holds of the ids holds of the entries they stand for.              *)
LEMMA MeetsFacts ==
  ASSUME DistinctGranules, NEW ix, NEW unique,
         NEW files \in [Paths -> Contents],
         Holds(ix, unique, Entries(Paths, files)),
         NEW i \in LiveIds(ix), NEW j \in LiveIds(ix),
         NEW e \in Entries(Paths, files), NEW g \in Entries(Paths, files),
         Meets(ix, unique, i, j, e, g)
  PROVE  SameMeeting(ix, unique, i, j, e, g)
  <1>1. ItemKeyOf(ix, i) = Algebra!Key(e) /\ ItemKeyOf(ix, j) = Algebra!Key(g)
    BY StandsForKey DEF Meets
  <1>2. PairKeyOf(ix, i, j) = Algebra!PairKey(e, g)
    BY <1>1 DEF PairKeyOf, Algebra!PairKey
  <1>3. Algebra!Key(e) = Algebra!Key(g) => e = g
    BY KeyIdentifies
  <1>4. i = j <=> e = g
    BY <1>1, <1>3 DEF Holds
  <1>5. ix.sketches[i] = e.item.sketch /\ ix.sketches[j] = g.item.sketch
    BY DEF Meets, StandsFor
  <1>6. unique[ItemKeyOf(ix, i)] = e.item.set /\ unique[ItemKeyOf(ix, j)] = g.item.set
    BY DEF Meets, StandsFor
  <1>7. QED
    BY <1>2, <1>3, <1>4, <1>5, <1>6 DEF ItemsShareBand, ItemsClose, OverlapAt, SameMeeting

(* What the verifier finds of a pair is the verdict on the items.          *)
LEMMA VerdictFacts ==
  ASSUME NEW files \in [Paths -> Contents],
         NEW e \in Entries(Paths, files), NEW g \in Entries(Paths, files)
  PROVE  LET v == ExactOverlap(e.item.set, g.item.set)
         IN  /\ v \in Verdicts
             /\ ExactPasses(v) <=> ItemsVerdict(e.item, g.item) # NoOverlap
             /\ ExactPasses(v) => ItemsVerdict(e.item, g.item) = v
  <1> DEFINE v == ExactOverlap(e.item.set, g.item.set)
  <1>1. /\ IsFiniteSet(e.item.set) /\ e.item.set # {}
        /\ IsFiniteSet(g.item.set) /\ g.item.set # {}
    BY EntryFacts
  <1>2. v \in Verdicts /\ v # NoOverlap
    BY <1>1, OverlapTypes
  <1>3. ItemsVerdict(e.item, g.item) = IF ExactPasses(v) THEN v ELSE NoOverlap
    BY DEF ItemsVerdict
  <1> HIDE DEF v
  <1>4. QED
    BY <1>2, <1>3 DEF v

(* The candidates of an update: the pairs of ids for the pairs of entries  *)
(* that share a band and look alike, one of them new.                      *)
NewFor(ix, unique, new, F) ==
  /\ new \subseteq LiveIds(ix)
  /\ \A id \in new : \E f \in F : StandsFor(ix, unique, id, f)
  /\ \A f \in F : \E id \in new : StandsFor(ix, unique, id, f)
  /\ \A i \in LiveIds(ix) \ new, j \in new : i < j

(* The candidates, as pairs of live ids.                                   *)
LEMMA CandidatesOrdered ==
  ASSUME NEW ix, GoodIndex(ix), NEW new
  PROVE  /\ NewCandidates(ix, new) \subseteq OrderedPairs(ix)
         /\ \A i, j \in LiveIds(ix) :
              <<i, j>> \in NewCandidates(ix, new) <=>
                /\ i < j /\ j \in new
                /\ ShareBand(ix.sketches[i], ix.sketches[j])
                /\ SketchPasses(ix.sketches[i], ix.sketches[j])
  <1>1. CandidatePairs(ix) =
          {ij \in LiveIds(ix) \X LiveIds(ix) :
             ij[1] < ij[2] /\ ShareBand(ix.sketches[ij[1]], ix.sketches[ij[2]])}
    BY PairsExact
  <1>2. QED
    BY <1>1 DEF NewCandidates, OrderedPairs

(* One step from a pair of ids to the pair of entries ...                  *)
LEMMA CandidateMeets ==
  ASSUME DistinctGranules, NEW ix, NEW unique,
         NEW files \in [Paths -> Contents],
         Holds(ix, unique, Entries(Paths, files)),
         NEW new, NEW F, F \subseteq Entries(Paths, files), NewFor(ix, unique, new, F),
         NEW ij \in NewCandidates(ix, new)
  PROVE  \E e \in F, g \in Entries(Paths, files) :
           /\ PairKeyOf(ix, ij[1], ij[2]) = Algebra!PairKey(e, g)
           /\ Algebra!Partners(e, g) /\ ItemsClose(e.item, g.item)
           /\ Algebra!Key(e) # Algebra!Key(g)
           /\ OverlapAt(ix, unique, ij) = ExactOverlap(e.item.set, g.item.set)
  <1>0. GoodIndex(ix)
    BY DEF Holds
  <1>1. ij \in OrderedPairs(ix)
    BY <1>0, CandidatesOrdered
  <1>2. PICK i \in LiveIds(ix), j \in LiveIds(ix) : ij = <<i, j>> /\ i < j
    BY <1>1 DEF OrderedPairs
  <1>3. /\ j \in new
        /\ ShareBand(ix.sketches[i], ix.sketches[j])
        /\ SketchPasses(ix.sketches[i], ix.sketches[j])
    BY <1>0, <1>2, CandidatesOrdered
  <1>4. PICK e \in F : StandsFor(ix, unique, j, e)
    BY <1>3 DEF NewFor
  <1>5. PICK g \in Entries(Paths, files) : StandsFor(ix, unique, i, g)
    BY DEF Holds
  <1>6. /\ Meets(ix, unique, i, j, g, e) /\ Meets(ix, unique, j, i, e, g)
        /\ e \in Entries(Paths, files)
    BY <1>4, <1>5 DEF Meets
  <1>7. /\ PairKeyOf(ix, i, j) = Algebra!PairKey(g, e)
        /\ i # j <=> g # e
        /\ g # e => Algebra!Key(g) # Algebra!Key(e)
        /\ ItemsShareBand(g.item, e.item) /\ ItemsClose(g.item, e.item)
        /\ OverlapAt(ix, unique, <<i, j>>) = ExactOverlap(g.item.set, e.item.set)
    BY <1>3, <1>6, MeetsFacts DEF SameMeeting
  <1>8. i # j
    <2>1. i \in Nat /\ j \in Nat
      BY <1>0, IndexShape DEF GoodIndex
    <2>2. QED
      BY <1>2, <2>1
  <1>9. e.item \in Algebra!AllItems /\ g.item \in Algebra!AllItems
    BY <1>6, <1>5 DEF Entries, Algebra!EntriesOf
  <1>10. ItemsShareBand(e.item, g.item) /\ ItemsClose(e.item, g.item)
    BY <1>7, <1>9, FiltersSymmetric
  <1>11. Algebra!PairKey(e, g) = Algebra!PairKey(g, e)
    BY DEF Algebra!PairKey
  <1>12. ExactOverlap(e.item.set, g.item.set) = ExactOverlap(g.item.set, e.item.set)
    BY OverlapSymmetric
  <1>13. QED
    BY <1>2, <1>7, <1>8, <1>10, <1>11, <1>12 DEF Algebra!Partners

(* ... and back.                                                           *)
LEMMA MeetsCandidate ==
  ASSUME DistinctGranules, NEW ix, NEW unique,
         NEW files \in [Paths -> Contents],
         Holds(ix, unique, Entries(Paths, files)),
         NEW new, NEW F, F \subseteq Entries(Paths, files), NewFor(ix, unique, new, F),
         NEW e \in F, NEW g \in Entries(Paths, files),
         Algebra!Partners(e, g), ItemsClose(e.item, g.item)
  PROVE  \E ij \in NewCandidates(ix, new) :
           /\ PairKeyOf(ix, ij[1], ij[2]) = Algebra!PairKey(e, g)
           /\ OverlapAt(ix, unique, ij) = ExactOverlap(e.item.set, g.item.set)
  <1>0. GoodIndex(ix)
    BY DEF Holds
  <1>1. PICK i \in new : StandsFor(ix, unique, i, e)
    BY DEF NewFor
  <1>2. PICK j \in LiveIds(ix) : StandsFor(ix, unique, j, g)
    BY DEF Holds
  <1>3. i \in LiveIds(ix) /\ e \in Entries(Paths, files)
    BY DEF NewFor
  <1>4. Meets(ix, unique, i, j, e, g) /\ Meets(ix, unique, j, i, g, e)
    BY <1>1, <1>2 DEF Meets
  <1>5. e # g /\ ItemsShareBand(e.item, g.item)
    BY DEF Algebra!Partners
  <1>6. e.item \in Algebra!AllItems /\ g.item \in Algebra!AllItems
    BY <1>3 DEF Entries, Algebra!EntriesOf
  <1>7. ItemsShareBand(g.item, e.item) /\ ItemsClose(g.item, e.item)
    BY <1>5, <1>6, FiltersSymmetric
  <1>8. /\ PairKeyOf(ix, i, j) = Algebra!PairKey(e, g) /\ i # j
        /\ ShareBand(ix.sketches[i], ix.sketches[j])
        /\ SketchPasses(ix.sketches[i], ix.sketches[j])
        /\ OverlapAt(ix, unique, <<i, j>>) = ExactOverlap(e.item.set, g.item.set)
    BY <1>3, <1>4, <1>5, MeetsFacts DEF SameMeeting
  <1>9. /\ PairKeyOf(ix, j, i) = Algebra!PairKey(g, e)
        /\ ShareBand(ix.sketches[j], ix.sketches[i])
        /\ SketchPasses(ix.sketches[j], ix.sketches[i])
        /\ OverlapAt(ix, unique, <<j, i>>) = ExactOverlap(g.item.set, e.item.set)
    BY <1>3, <1>4, <1>7, MeetsFacts DEF SameMeeting
  <1>10. i \in Nat /\ j \in Nat
    BY <1>0, <1>3, IndexShape DEF GoodIndex
  <1>11. CASE i < j
    <2>1. j \in new
      BY <1>10, <1>11 DEF NewFor
    <2>2. <<i, j>> \in NewCandidates(ix, new)
      BY <1>0, <1>3, <1>8, <1>11, <2>1, CandidatesOrdered
    <2>3. QED
      BY <1>8, <2>2
  <1>12. CASE j < i
    <2>1. <<j, i>> \in NewCandidates(ix, new)
      BY <1>0, <1>3, <1>9, <1>12, CandidatesOrdered
    <2>2. Algebra!PairKey(e, g) = Algebra!PairKey(g, e)
      BY DEF Algebra!PairKey
    <2>3. ExactOverlap(e.item.set, g.item.set) = ExactOverlap(g.item.set, e.item.set)
      BY OverlapSymmetric
    <2>4. QED
      BY <1>9, <2>1, <2>2, <2>3
  <1>13. QED
    BY <1>8, <1>10, <1>11, <1>12

-----------------------------------------------------------------------------
(* What an update verifies and what it touches, in the algebra's terms.    *)

SetOfFindings(f) == {[pair |-> pk, verdict |-> f[pk]] : pk \in DOMAIN f}

(* The algebra's sets of pairs of entries, by their elements.              *)
LEMMA BetweenElements ==
  ASSUME NEW F, NEW E, NEW x
  PROVE  x \in Algebra!FindingsBetween(F, E) <=>
           \E e \in F, g \in E : Algebra!IsFinding(e, g) /\ x = Algebra!Finding(e, g)
  <1> DEFINE P == {y \in F \X E : Algebra!IsFinding(y[1], y[2])}
  <1>1. Algebra!FindingsBetween(F, E) = {Algebra!Finding(ef[1], ef[2]) : ef \in P}
    BY DEF Algebra!FindingsBetween
  <1>2. ASSUME x \in Algebra!FindingsBetween(F, E)
        PROVE  \E e \in F, g \in E : Algebra!IsFinding(e, g) /\ x = Algebra!Finding(e, g)
    <2>1. PICK ef \in P : x = Algebra!Finding(ef[1], ef[2])
      BY <1>1, <1>2
    <2>2. ef[1] \in F /\ ef[2] \in E /\ Algebra!IsFinding(ef[1], ef[2])
      OBVIOUS
    <2>3. QED
      BY <2>1, <2>2
  <1>3. ASSUME NEW e \in F, NEW g \in E, Algebra!IsFinding(e, g), x = Algebra!Finding(e, g)
        PROVE  x \in Algebra!FindingsBetween(F, E)
    <2>1. <<e, g>> \in P
      BY <1>3
    <2>2. <<e, g>>[1] = e /\ <<e, g>>[2] = g
      OBVIOUS
    <2>3. QED
      BY <1>1, <1>3, <2>1, <2>2
  <1>4. QED
    BY <1>2, <1>3

(* The pairs a new entry may be in.                                        *)
LEMMA TouchedAfterElements ==
  ASSUME NEW S, NEW files, NEW pk
  PROVE  pk \in Algebra!TouchedAfter(S, files) <=>
           \E e \in Entries(S, files), g \in Entries(Paths, files) :
             pk = Algebra!PairKey(e, g) /\ Algebra!Partners(e, g) /\ ItemsClose(e.item, g.item)
  <1> DEFINE F == Entries(S, files)
             E == Entries(Paths, files)
             P == {y \in F \X E : Algebra!Partners(y[1], y[2]) /\ ItemsClose(y[1].item, y[2].item)}
  <1>1. Algebra!TouchedAfter(S, files) = {Algebra!PairKey(ef[1], ef[2]) : ef \in P}
    BY DEF Algebra!TouchedAfter, Entries
  <1> HIDE DEF F, E
  <1>2. ASSUME pk \in Algebra!TouchedAfter(S, files)
        PROVE  \E e \in F, g \in E :
                 pk = Algebra!PairKey(e, g) /\ Algebra!Partners(e, g) /\ ItemsClose(e.item, g.item)
    <2>1. PICK ef \in P : pk = Algebra!PairKey(ef[1], ef[2])
      BY <1>1, <1>2
    <2>2. /\ ef[1] \in F /\ ef[2] \in E
          /\ Algebra!Partners(ef[1], ef[2]) /\ ItemsClose(ef[1].item, ef[2].item)
      OBVIOUS
    <2>3. QED
      BY <2>1, <2>2
  <1>3. ASSUME NEW e \in F, NEW g \in E, pk = Algebra!PairKey(e, g),
               Algebra!Partners(e, g), ItemsClose(e.item, g.item)
        PROVE  pk \in Algebra!TouchedAfter(S, files)
    <2>1. <<e, g>> \in P
      BY <1>3
    <2>2. <<e, g>>[1] = e /\ <<e, g>>[2] = g
      OBVIOUS
    <2>3. QED
      BY <1>1, <1>3, <2>1, <2>2
  <1>4. QED
    BY <1>2, <1>3 DEF F, E

(* The pairs an old entry may have been in.                                *)
LEMMA TouchedBeforeElements ==
  ASSUME NEW S, NEW pk
  PROVE  pk \in Algebra!TouchedBefore(S) <=>
           \E e \in Entries(S, indexed), g \in Entries(Paths, indexed) :
             pk = Algebra!PairKey(e, g) /\ Algebra!Partners(e, g)
  <1> DEFINE F == Entries(S, indexed)
             E == Entries(Paths, indexed)
             P == {y \in F \X E : Algebra!Partners(y[1], y[2])}
  <1>1. Algebra!TouchedBefore(S) = {Algebra!PairKey(ef[1], ef[2]) : ef \in P}
    BY DEF Algebra!TouchedBefore, Entries
  <1> HIDE DEF F, E
  <1>2. ASSUME pk \in Algebra!TouchedBefore(S)
        PROVE  \E e \in F, g \in E : pk = Algebra!PairKey(e, g) /\ Algebra!Partners(e, g)
    <2>1. PICK ef \in P : pk = Algebra!PairKey(ef[1], ef[2])
      BY <1>1, <1>2
    <2>2. ef[1] \in F /\ ef[2] \in E /\ Algebra!Partners(ef[1], ef[2])
      OBVIOUS
    <2>3. QED
      BY <2>1, <2>2
  <1>3. ASSUME NEW e \in F, NEW g \in E, pk = Algebra!PairKey(e, g), Algebra!Partners(e, g)
        PROVE  pk \in Algebra!TouchedBefore(S)
    <2>1. <<e, g>> \in P
      BY <1>3
    <2>2. <<e, g>>[1] = e /\ <<e, g>>[2] = g
      OBVIOUS
    <2>3. QED
      BY <1>1, <1>3, <2>1, <2>2
  <1>4. QED
    BY <1>2, <1>3 DEF F, E

(* The findings it verifies are those between the new entries and all.     *)
LEMMA FreshFindings ==
  ASSUME DistinctGranules, NEW ix, NEW unique,
         NEW files \in [Paths -> Contents],
         Holds(ix, unique, Entries(Paths, files)),
         NEW new, NEW F, F \subseteq Entries(Paths, files), NewFor(ix, unique, new, F),
         NEW f \in FindingMaps(ix, unique, NewCandidates(ix, new))
  PROVE  /\ SetOfFindings(f) = Algebra!FindingsBetween(F, Entries(Paths, files))
         /\ DOMAIN f \subseteq ItemPairs
         /\ \A pk \in DOMAIN f : f[pk] \in Verdicts
  <1> DEFINE E == Entries(Paths, files)
             candidates == NewCandidates(ix, new)
  <1>1. GoodIndex(ix)
    BY DEF Holds
  <1>2. candidates \subseteq OrderedPairs(ix)
    BY <1>1, CandidatesOrdered
  <1>3. FindingsOf(ix, unique, candidates, f)
    BY <1>2, FindingMapsExact
  <1>4. ASSUME NEW pk \in DOMAIN f
        PROVE  \E e \in F, g \in E :
                 /\ Algebra!IsFinding(e, g) /\ [pair |-> pk, verdict |-> f[pk]] = Algebra!Finding(e, g)
                 /\ pk = {Algebra!Key(e), Algebra!Key(g)} /\ f[pk] \in Verdicts
    <2>1. PICK ij \in candidates : /\ pk = PairKeyOf(ix, ij[1], ij[2])
                                   /\ ExactPasses(OverlapAt(ix, unique, ij))
                                   /\ f[pk] = OverlapAt(ix, unique, ij)
      BY <1>3 DEF FindingsOf
    <2>2. PICK e \in F, g \in E :
            /\ PairKeyOf(ix, ij[1], ij[2]) = Algebra!PairKey(e, g)
            /\ Algebra!Partners(e, g) /\ ItemsClose(e.item, g.item)
            /\ Algebra!Key(e) # Algebra!Key(g)
            /\ OverlapAt(ix, unique, ij) = ExactOverlap(e.item.set, g.item.set)
      BY CandidateMeets
    <2>3. e \in E
      OBVIOUS
    <2>4. /\ f[pk] \in Verdicts
          /\ ItemsVerdict(e.item, g.item) # NoOverlap
          /\ ItemsVerdict(e.item, g.item) = f[pk]
      BY <2>1, <2>2, <2>3, VerdictFacts
    <2>5. QED
      BY <2>1, <2>2, <2>4 DEF Algebra!IsFinding, Algebra!Finding, Algebra!PairKey
  <1>5. ASSUME NEW e \in F, NEW g \in E, Algebra!IsFinding(e, g)
        PROVE  \E pk \in DOMAIN f : [pair |-> pk, verdict |-> f[pk]] = Algebra!Finding(e, g)
    <2>1. /\ Algebra!Partners(e, g) /\ ItemsClose(e.item, g.item)
          /\ ItemsVerdict(e.item, g.item) # NoOverlap
      BY <1>5 DEF Algebra!IsFinding
    <2>2. PICK ij \in candidates :
            /\ PairKeyOf(ix, ij[1], ij[2]) = Algebra!PairKey(e, g)
            /\ OverlapAt(ix, unique, ij) = ExactOverlap(e.item.set, g.item.set)
      BY <2>1, MeetsCandidate
    <2>3. e \in E
      OBVIOUS
    <2>4. /\ ExactPasses(OverlapAt(ix, unique, ij))
          /\ ItemsVerdict(e.item, g.item) = OverlapAt(ix, unique, ij)
      BY <2>1, <2>2, <2>3, VerdictFacts
    <2>5. /\ Algebra!PairKey(e, g) \in DOMAIN f
          /\ f[Algebra!PairKey(e, g)] = ItemsVerdict(e.item, g.item)
      BY <1>3, <2>2, <2>4 DEF FindingsOf
    <2>6. QED
      BY <2>5 DEF Algebra!Finding
  <1>6. SetOfFindings(f) = Algebra!FindingsBetween(F, E)
    <2>1. \A x : x \in Algebra!FindingsBetween(F, E) <=>
                   \E e \in F, g \in E : Algebra!IsFinding(e, g) /\ x = Algebra!Finding(e, g)
      BY BetweenElements
    <2>2. \A x : x \in SetOfFindings(f) <=>
                   \E pk \in DOMAIN f : x = [pair |-> pk, verdict |-> f[pk]]
      BY DEF SetOfFindings
    <2>3. ASSUME NEW x \in SetOfFindings(f) PROVE x \in Algebra!FindingsBetween(F, E)
      <3>1. PICK pk \in DOMAIN f : x = [pair |-> pk, verdict |-> f[pk]]
        BY <2>2
      <3>2. PICK e \in F, g \in E :
              Algebra!IsFinding(e, g) /\ [pair |-> pk, verdict |-> f[pk]] = Algebra!Finding(e, g)
        BY <1>4
      <3>3. QED
        BY <2>1, <3>1, <3>2
    <2>4. ASSUME NEW x \in Algebra!FindingsBetween(F, E) PROVE x \in SetOfFindings(f)
      <3>1. PICK e \in F, g \in E : Algebra!IsFinding(e, g) /\ x = Algebra!Finding(e, g)
        BY <2>1
      <3>2. PICK pk \in DOMAIN f : [pair |-> pk, verdict |-> f[pk]] = Algebra!Finding(e, g)
        BY <1>5, <3>1
      <3>3. QED
        BY <2>2, <3>1, <3>2
    <2>5. QED
      BY <2>3, <2>4
  <1>7. \A e \in E : Algebra!Key(e) \in ItemKeys
    BY EntryFacts
  <1>8. DOMAIN f \subseteq ItemPairs
    <2>1. ASSUME NEW pk \in DOMAIN f PROVE \E k, l \in ItemKeys : pk = {k, l}
      <3>1. PICK e \in F, g \in E : pk = {Algebra!Key(e), Algebra!Key(g)}
        BY <1>4
      <3>2. Algebra!Key(e) \in ItemKeys /\ Algebra!Key(g) \in ItemKeys
        BY <1>7
      <3>3. QED
        BY <3>1, <3>2
    <2>2. QED
      BY <2>1 DEF ItemPairs
  <1>9. QED
    BY <1>4, <1>6, <1>8

(* The keys of the candidates are the pairs it may find.                   *)
LEMMA CandidateKeys ==
  ASSUME DistinctGranules, NEW ix, NEW unique,
         NEW files \in [Paths -> Contents], NEW S \in SUBSET Paths,
         Holds(ix, unique, Entries(Paths, files)),
         NEW new, Entries(S, files) \subseteq Entries(Paths, files),
         NewFor(ix, unique, new, Entries(S, files))
  PROVE  {PairKeyOf(ix, ij[1], ij[2]) : ij \in NewCandidates(ix, new)}
           = Algebra!TouchedAfter(S, files)
  <1> DEFINE F == Entries(S, files)
             E == Entries(Paths, files)
             candidates == NewCandidates(ix, new)
  <1>1. \A pk : pk \in Algebra!TouchedAfter(S, files) <=>
                  \E e \in F, g \in E :
                    pk = Algebra!PairKey(e, g) /\ Algebra!Partners(e, g) /\ ItemsClose(e.item, g.item)
    BY TouchedAfterElements
  <1>2. ASSUME NEW ij \in candidates
        PROVE  PairKeyOf(ix, ij[1], ij[2]) \in Algebra!TouchedAfter(S, files)
    <2>1. PICK e \in F, g \in E :
            /\ PairKeyOf(ix, ij[1], ij[2]) = Algebra!PairKey(e, g)
            /\ Algebra!Partners(e, g) /\ ItemsClose(e.item, g.item)
      BY CandidateMeets
    <2>2. QED
      BY <1>1, <2>1
  <1>3. ASSUME NEW pk \in Algebra!TouchedAfter(S, files)
        PROVE  \E ij \in candidates : pk = PairKeyOf(ix, ij[1], ij[2])
    <2>1. PICK e \in F, g \in E :
            pk = Algebra!PairKey(e, g) /\ Algebra!Partners(e, g) /\ ItemsClose(e.item, g.item)
      BY <1>1
    <2>2. PICK ij \in candidates : PairKeyOf(ix, ij[1], ij[2]) = Algebra!PairKey(e, g)
      BY <2>1, MeetsCandidate
    <2>3. QED
      BY <2>1, <2>2
  <1> HIDE DEF candidates
  <1>4. QED
    BY <1>2, <1>3 DEF candidates

(* The keys of the old entries and all their partners are the pairs that   *)
(* may have been findings.                                                 *)
LEMMA OldKeys ==
  ASSUME DistinctGranules, indexed \in [Paths -> Contents],
         Holds(index, unique_sets, Entries(Paths, indexed)), NEW S \in SUBSET Paths
  PROVE  /\ UNION {IdsForPath(index, p) : p \in S} = RemovedIds(index, S)
         /\ TouchedByOld(S) = Algebra!TouchedBefore(S)
  <1> DEFINE F == Entries(S, indexed)
             E == Entries(Paths, indexed)
  <1>1. GoodIndex(index)
    BY DEF Holds
  <1>2. UNION {IdsForPath(index, p) : p \in S} = RemovedIds(index, S)
    <2>1. \A p \in S : IdsForPath(index, p) = {id \in LiveIds(index) : index.files[id].path = p}
      BY <1>1 DEF GoodIndex, LiveIdsOf, IdsForPath
    <2>2. QED
      BY <2>1 DEF RemovedIds
  <1>3. RemovedIds(index, S) \subseteq LiveIds(index) /\ LiveIds(index) \subseteq Ids(index)
    BY DEF RemovedIds, LiveIds
  <1>4. \A i \in LiveIds(index) :
          PartnersOf(index, i) = {j \in LiveIds(index) :
                                    j # i /\ ShareBand(index.sketches[i], index.sketches[j])}
    BY <1>1, <1>3, PartnersExact
  <1>5. \A pk : pk \in TouchedByOld(S) <=>
                  \E i \in RemovedIds(index, S), j \in LiveIds(index) :
                    /\ pk = PairKeyOf(index, i, j) /\ j # i
                    /\ ShareBand(index.sketches[i], index.sketches[j])
    <2>1. TouchedByOld(S) = UNION {{PairKeyOf(index, i, j) : j \in PartnersOf(index, i)} :
                                     i \in RemovedIds(index, S)}
      BY <1>2 DEF TouchedByOld
    <2>2. ASSUME NEW pk \in TouchedByOld(S)
          PROVE  \E i \in RemovedIds(index, S), j \in LiveIds(index) :
                   /\ pk = PairKeyOf(index, i, j) /\ j # i
                   /\ ShareBand(index.sketches[i], index.sketches[j])
      <3>1. PICK i \in RemovedIds(index, S) :
              pk \in {PairKeyOf(index, i, j) : j \in PartnersOf(index, i)}
        BY <2>1
      <3>2. PICK j \in PartnersOf(index, i) : pk = PairKeyOf(index, i, j)
        BY <3>1
      <3>3. i \in LiveIds(index)
        BY <1>3
      <3>4. j \in LiveIds(index) /\ j # i /\ ShareBand(index.sketches[i], index.sketches[j])
        BY <1>4, <3>3
      <3>5. QED
        BY <3>2, <3>4
    <2>3. ASSUME NEW i \in RemovedIds(index, S), NEW j \in LiveIds(index), j # i,
                 ShareBand(index.sketches[i], index.sketches[j])
          PROVE  PairKeyOf(index, i, j) \in TouchedByOld(S)
      <3>1. i \in LiveIds(index)
        BY <1>3
      <3>2. j \in PartnersOf(index, i)
        BY <1>4, <2>3, <3>1
      <3>3. PairKeyOf(index, i, j) \in {PairKeyOf(index, i, k) : k \in PartnersOf(index, i)}
        BY <3>2
      <3>4. QED
        BY <2>1, <3>3
    <2>4. QED
      BY <2>2, <2>3
  <1>6. \A pk : pk \in Algebra!TouchedBefore(S) <=>
                  \E e \in F, g \in E : pk = Algebra!PairKey(e, g) /\ Algebra!Partners(e, g)
    BY TouchedBeforeElements
  <1>7. \A e : e \in F <=> e \in E /\ e.path \in S
    <2>1. ASSUME NEW e PROVE e \in F <=> e \in E /\ e.path \in S
      BY DEF Entries, Algebra!EntriesOf
    <2>2. QED
      BY <2>1
  <1>8. ASSUME NEW i \in LiveIds(index), NEW j \in LiveIds(index), NEW e \in E, NEW g \in E,
               StandsFor(index, unique_sets, i, e), StandsFor(index, unique_sets, j, g)
        PROVE  /\ PairKeyOf(index, i, j) = Algebra!PairKey(e, g)
               /\ i \in RemovedIds(index, S) <=> e \in F
               /\ (j # i /\ ShareBand(index.sketches[i], index.sketches[j]))
                    <=> Algebra!Partners(e, g)
    <2>1. Meets(index, unique_sets, i, j, e, g)
      BY <1>8 DEF Meets
    <2>2. SameMeeting(index, unique_sets, i, j, e, g)
      BY <2>1, MeetsFacts
    <2>3. i \in RemovedIds(index, S) <=> e \in F
      BY <1>7, <1>8 DEF RemovedIds, StandsFor
    <2>4. QED
      BY <2>2, <2>3 DEF Algebra!Partners, SameMeeting
  <1>9. /\ \A i \in LiveIds(index) : \E e \in E : StandsFor(index, unique_sets, i, e)
        /\ \A e \in E : \E i \in LiveIds(index) : StandsFor(index, unique_sets, i, e)
    BY DEF Holds
  <1>10. ASSUME NEW pk \in TouchedByOld(S)
         PROVE  pk \in Algebra!TouchedBefore(S)
    <2>1. PICK i \in RemovedIds(index, S), j \in LiveIds(index) :
            /\ pk = PairKeyOf(index, i, j) /\ j # i
            /\ ShareBand(index.sketches[i], index.sketches[j])
      BY <1>5
    <2>2. i \in LiveIds(index)
      BY <1>3
    <2>3. PICK e \in E : StandsFor(index, unique_sets, i, e)
      BY <1>9, <2>2
    <2>4. PICK g \in E : StandsFor(index, unique_sets, j, g)
      BY <1>9
    <2>5. e \in F /\ pk = Algebra!PairKey(e, g) /\ Algebra!Partners(e, g)
      BY <1>8, <2>1, <2>2, <2>3, <2>4
    <2>6. QED
      BY <1>6, <2>5
  <1>11. ASSUME NEW pk \in Algebra!TouchedBefore(S)
         PROVE  pk \in TouchedByOld(S)
    <2>1. PICK e \in F, g \in E : pk = Algebra!PairKey(e, g) /\ Algebra!Partners(e, g)
      BY <1>6
    <2>2. e \in E
      BY <1>7
    <2>3. PICK i \in LiveIds(index) : StandsFor(index, unique_sets, i, e)
      BY <1>9, <2>2
    <2>4. PICK j \in LiveIds(index) : StandsFor(index, unique_sets, j, g)
      BY <1>9
    <2>5. /\ i \in RemovedIds(index, S) /\ pk = PairKeyOf(index, i, j)
          /\ j # i /\ ShareBand(index.sketches[i], index.sketches[j])
      BY <1>8, <2>1, <2>2, <2>3, <2>4
    <2>6. QED
      BY <1>5, <2>5
  <1>12. TouchedByOld(S) = Algebra!TouchedBefore(S)
    BY <1>10, <1>11
  <1>13. QED
    BY <1>2, <1>12

-----------------------------------------------------------------------------
(* What an update makes of the index, the exact sets and the findings.     *)

Processed(S) == [p \in Paths |-> IF p \in S THEN disk[p] ELSE indexed[p]]

UpdatedIndex(S) == InsertIndex(RemoveAll(index, S), ItemsOnDisk(S))

NewIds(S) == (Len(index.files) + 1)..Len(UpdatedIndex(S).files)

OldItemKeys(S) == {ItemKeyOf(index, i) : i \in UNION {IdsForPath(index, p) : p \in S}}

NewItemKeys(S) == {ItemKeyOf(UpdatedIndex(S), i) : i \in NewIds(S)}

InsertedSets(S) == InsertSets(unique_sets, ItemsOnDisk(S))

UpdatedSets(S) ==
  Restrict(InsertedSets(S), DOMAIN InsertedSets(S) \ (OldItemKeys(S) \ NewItemKeys(S)))

UpdateCandidates(S) == NewCandidates(UpdatedIndex(S), NewIds(S))

Touched(S) ==
  TouchedByOld(S)
    \cup {PairKeyOf(UpdatedIndex(S), ij[1], ij[2]) : ij \in UpdateCandidates(S)}

Merged(fresh, gone) ==
  [pk \in (DOMAIN findings \ gone) \cup DOMAIN fresh |->
     IF pk \in DOMAIN fresh THEN fresh[pk] ELSE findings[pk]]

(* An update, in these terms.                                              *)
LEMMA UpdateUnfolds ==
  ASSUME NEW S, Update(S)
  PROVE  /\ \E fresh \in FindingMaps(UpdatedIndex(S), UpdatedSets(S), UpdateCandidates(S)) :
              TakeDiff(Touched(S), fresh)
         /\ index' = IF RatioAboveQuarter(UpdatedIndex(S)) THEN Compact(UpdatedIndex(S))
                                                           ELSE UpdatedIndex(S)
         /\ unique_sets' = UpdatedSets(S)
         /\ indexed' = Processed(S)
         /\ disk' = disk
  BY DEF Update, UpdatedIndex, NewIds, OldItemKeys, NewItemKeys, InsertedSets, UpdatedSets,
     UpdateCandidates, Touched, Processed

-----------------------------------------------------------------------------
(* The loop that takes the diff.                                           *)

(* Its state when it has been through the pairs of X, from the findings    *)
(* old and the verified ones new.                                          *)
FindingsAfter(X, old, new) ==
  [pk \in (DOMAIN old \ X) \cup (X \cap DOMAIN new) |-> IF pk \in X THEN new[pk] ELSE old[pk]]

ChangedPairs(X, old, new) ==
  {pk \in X : pk \in DOMAIN old /\ pk \in DOMAIN new /\ FindingChanged(pk, old[pk], new[pk])}

LoopState(X, old, new) ==
  [findings |-> FindingsAfter(X, old, new),
   fresh |-> [pk \in DOMAIN new \ X |-> new[pk]],
   added |-> (X \cap DOMAIN new) \ DOMAIN old,
   removed |-> (X \cap DOMAIN old) \ DOMAIN new,
   updated |-> ChangedPairs(X, old, new)]

(* A turn takes one more pair.                                             *)
LEMMA LoopTurn ==
  ASSUME NEW X, NEW old, NEW new, NEW pk, pk \notin X
  PROVE  DiffTurn(pk, LoopState(X, old, new)) = LoopState(X \cup {pk}, old, new)
  <1> DEFINE s == LoopState(X, old, new)
             t == LoopState(X \cup {pk}, old, new)
             Y == X \cup {pk}
             known == pk \in DOMAIN s.findings
             found == pk \in DOMAIN s.fresh
             gained == Put(s.findings, pk, s.fresh[pk])
             less == Without(s.fresh, pk)
  <1>1. /\ s.findings = FindingsAfter(X, old, new)
        /\ s.fresh = [k \in DOMAIN new \ X |-> new[k]]
        /\ s.added = (X \cap DOMAIN new) \ DOMAIN old
        /\ s.removed = (X \cap DOMAIN old) \ DOMAIN new
        /\ s.updated = ChangedPairs(X, old, new)
        /\ s = [findings |-> s.findings, fresh |-> s.fresh, added |-> s.added,
                removed |-> s.removed, updated |-> s.updated]
    BY DEF LoopState
  <1>2. known <=> pk \in DOMAIN old
    BY <1>1 DEF FindingsAfter
  <1>3. found <=> pk \in DOMAIN new
    BY <1>1
  <1>4. known => s.findings[pk] = old[pk]
    BY <1>1, <1>2 DEF FindingsAfter
  <1>5. found => s.fresh[pk] = new[pk]
    BY <1>1, <1>3
  <1>6. t = [findings |-> FindingsAfter(Y, old, new), fresh |-> [k \in DOMAIN new \ Y |-> new[k]],
             added |-> (Y \cap DOMAIN new) \ DOMAIN old,
             removed |-> (Y \cap DOMAIN old) \ DOMAIN new,
             updated |-> ChangedPairs(Y, old, new)]
    BY DEF LoopState
  <1>7. less = [k \in DOMAIN new \ Y |-> new[k]]
    BY <1>1 DEF Without
  <1>8. ~found => s.fresh = [k \in DOMAIN new \ Y |-> new[k]]
    BY <1>1, <1>3
  <1>9. found => gained = FindingsAfter(Y, old, new)
    BY <1>1, <1>3, <1>5 DEF Put, FindingsAfter
  <1>10. ~found => Without(s.findings, pk) = FindingsAfter(Y, old, new)
    BY <1>1, <1>3 DEF Without, FindingsAfter
  <1>11. ~known /\ ~found => s.findings = FindingsAfter(Y, old, new)
    BY <1>1, <1>2, <1>3 DEF FindingsAfter
  <1>12. /\ ~(known /\ found) => ChangedPairs(Y, old, new) = s.updated
         /\ known /\ found /\ FindingChanged(pk, old[pk], new[pk])
              => ChangedPairs(Y, old, new) = s.updated \cup {pk}
         /\ ~FindingChanged(pk, old[pk], new[pk]) => ChangedPairs(Y, old, new) = s.updated
    BY <1>1, <1>2, <1>3 DEF ChangedPairs
  <1>13. /\ ~known /\ found => (Y \cap DOMAIN new) \ DOMAIN old = s.added \cup {pk}
         /\ ~(~known /\ found) => (Y \cap DOMAIN new) \ DOMAIN old = s.added
         /\ known /\ ~found => (Y \cap DOMAIN old) \ DOMAIN new = s.removed \cup {pk}
         /\ ~(known /\ ~found) => (Y \cap DOMAIN old) \ DOMAIN new = s.removed
    BY <1>1, <1>2, <1>3
  <1> HIDE DEF s, t, Y, known, found, gained, less
  <1>14. DiffTurn(pk, s) = t
    <2>1. CASE ~known /\ ~found
      <3>1. DiffTurn(pk, s) = s
        BY <2>1 DEF DiffTurn, known, found
      <3>2. QED
        BY <3>1, <2>1, <1>1, <1>6, <1>8, <1>11, <1>12, <1>13
    <2>2. CASE ~known /\ found
      <3>1. DiffTurn(pk, s) = [findings |-> gained, fresh |-> less, added |-> s.added \cup {pk},
                               removed |-> s.removed, updated |-> s.updated]
        BY <2>2, <1>1 DEF DiffTurn, known, found, gained, less
      <3>2. QED
        BY <3>1, <2>2, <1>6, <1>7, <1>9, <1>12, <1>13
    <2>3. CASE known /\ ~found
      <3>1. DiffTurn(pk, s) = [findings |-> Without(s.findings, pk), fresh |-> s.fresh,
                               added |-> s.added, removed |-> s.removed \cup {pk},
                               updated |-> s.updated]
        BY <2>3, <1>1 DEF DiffTurn, known, found
      <3>2. QED
        BY <3>1, <2>3, <1>6, <1>8, <1>10, <1>12, <1>13
    <2>4. CASE known /\ found /\ FindingChanged(pk, s.findings[pk], s.fresh[pk])
      <3>1. DiffTurn(pk, s) = [findings |-> gained, fresh |-> less, added |-> s.added,
                               removed |-> s.removed, updated |-> s.updated \cup {pk}]
        BY <2>4, <1>1 DEF DiffTurn, known, found, gained, less
      <3>2. FindingChanged(pk, old[pk], new[pk])
        BY <2>4, <1>4, <1>5
      <3>3. QED
        BY <3>1, <3>2, <2>4, <1>6, <1>7, <1>9, <1>12, <1>13
    <2>5. CASE known /\ found /\ ~FindingChanged(pk, s.findings[pk], s.fresh[pk])
      <3>1. DiffTurn(pk, s) = [findings |-> gained, fresh |-> less, added |-> s.added,
                               removed |-> s.removed, updated |-> s.updated]
        BY <2>5, <1>1 DEF DiffTurn, known, found, gained, less
      <3>2. ~FindingChanged(pk, old[pk], new[pk])
        BY <2>5, <1>4, <1>5
      <3>3. QED
        BY <3>1, <3>2, <2>5, <1>6, <1>7, <1>9, <1>12, <1>13
    <2>6. QED
      BY <2>1, <2>2, <2>3, <2>4, <2>5
  <1>15. QED
    BY <1>14 DEF s, t

(* Going through a finite set of pairs, in whatever order, ends there.     *)
IsFold(iter, start, T) ==
  iter = [X \in SUBSET T |->
            IF X = {} THEN start
            ELSE LET pk == CHOOSE k \in X : TRUE IN DiffTurn(pk, iter[X \ {pk}])]

LEMMA LoopEnd ==
  ASSUME NEW T, IsFiniteSet(T), NEW old, NEW new
  PROVE  FoldSet(DiffTurn, LoopState({}, old, new), T) = LoopState(T, old, new)
  <1> DEFINE State(X) == LoopState(X, old, new)
             h == [X \in SUBSET T |-> State(X)]
             start == State({})
             g == CHOOSE f : IsFold(f, start, T)
  <1>1. \A X : \A pk \in X : DiffTurn(pk, State(X \ {pk})) = State(X)
    <2>1. ASSUME NEW X, NEW pk \in X PROVE DiffTurn(pk, State(X \ {pk})) = State(X)
      <3>1. pk \notin X \ {pk} /\ (X \ {pk}) \cup {pk} = X
        OBVIOUS
      <3>2. DiffTurn(pk, State(X \ {pk})) = State((X \ {pk}) \cup {pk})
        BY <3>1, LoopTurn
      <3>3. QED
        BY <3>1, <3>2
    <2>2. QED
      BY <2>1
  <1> HIDE DEF State
  <1>2. \A X \in SUBSET T : X # {} =>
          LET pk == CHOOSE k \in X : TRUE IN pk \in X /\ X \ {pk} \in SUBSET T
    OBVIOUS
  <1>3. IsFold(h, start, T)
    <2>1. ASSUME NEW X \in SUBSET T
          PROVE  h[X] = IF X = {} THEN start
                        ELSE LET pk == CHOOSE k \in X : TRUE IN DiffTurn(pk, h[X \ {pk}])
      <3>1. CASE X = {}
        BY <3>1
      <3>2. CASE X # {}
        <4> DEFINE pk == CHOOSE k \in X : TRUE
        <4>1. pk \in X /\ X \ {pk} \in SUBSET T
          BY <3>2, <1>2
        <4> HIDE DEF pk
        <4>2. h[X \ {pk}] = State(X \ {pk}) /\ h[X] = State(X)
          BY <4>1
        <4>3. DiffTurn(pk, h[X \ {pk}]) = h[X]
          BY <4>1, <4>2, <1>1
        <4>4. QED
          BY <3>2, <4>3 DEF pk
      <3>3. QED
        BY <3>1, <3>2
    <2>2. h = [X \in SUBSET T |-> h[X]]
      OBVIOUS
    <2> HIDE DEF h
    <2>3. QED
      BY <2>1, <2>2 DEF IsFold
  <1>4. IsFold(g, start, T)
    <2> HIDE DEF h, start
    <2>1. QED
      BY <1>3
  <1>5. FoldSet(DiffTurn, start, T) = g[T]
    BY DEF FoldSet, MapThenFoldSet, IsFold
  <1> HIDE DEF g, start, h
  <1>6. \A X \in SUBSET T :
          g[X] = IF X = {} THEN start
                 ELSE LET pk == CHOOSE k \in X : TRUE IN DiffTurn(pk, g[X \ {pk}])
    BY <1>4 DEF IsFold
  <1> DEFINE Bad == {X \in SUBSET T : g[X] # State(X)}
             Sizes == {Cardinality(X) : X \in Bad}
  <1>7. ASSUME NEW X \in Bad
        PROVE  \E Y \in Bad : Cardinality(Y) < Cardinality(X) /\ Cardinality(X) \in Nat
    <2>1. X \in SUBSET T /\ g[X] # State(X) /\ IsFiniteSet(X)
      BY FS_Subset
    <2>2. X # {}
      BY <2>1, <1>6 DEF start
    <2> DEFINE pk == CHOOSE k \in X : TRUE
    <2>3. pk \in X /\ X \ {pk} \in SUBSET T
      BY <2>1, <2>2, <1>2
    <2>4. g[X] = DiffTurn(pk, g[X \ {pk}])
      BY <2>1, <2>2, <1>6
    <2> HIDE DEF pk
    <2>5. g[X \ {pk}] # State(X \ {pk})
      BY <2>1, <2>3, <2>4, <1>1
    <2>6. Cardinality(X) \in Nat /\ Cardinality(X \ {pk}) = Cardinality(X) - 1
      BY <2>1, <2>3, FS_CardinalityType, FS_RemoveElement
    <2>7. X \ {pk} \in Bad
      BY <2>3, <2>5
    <2>8. Cardinality(X \ {pk}) < Cardinality(X)
      BY <2>6
    <2>9. QED
      BY <2>6, <2>7, <2>8
  <1>8. Bad = {}
    <2>1. SUFFICES ASSUME Bad # {} PROVE FALSE
      OBVIOUS
    <2>2. Sizes \in SUBSET Nat /\ Sizes # {}
      <3> HIDE DEF Bad
      <3>1. \A X \in Bad : Cardinality(X) \in Nat
        BY <1>7
      <3>2. QED
        BY <2>1, <3>1
    <2>3. PICK n \in Sizes : \A m \in Sizes : n <= m
      <3> HIDE DEF Sizes
      <3>1. QED
        BY <2>2, LeastNumber
    <2>4. PICK X \in Bad : n = Cardinality(X)
      <3> HIDE DEF Bad
      <3>1. QED
        OBVIOUS
    <2>5. PICK Y \in Bad : Cardinality(Y) < Cardinality(X)
      BY <1>7
    <2>6. Cardinality(Y) \in Sizes
      OBVIOUS
    <2>7. Cardinality(Y) \in Nat /\ Cardinality(X) \in Nat
      BY <1>7
    <2> HIDE DEF Sizes, Bad
    <2>8. QED
      BY <2>3, <2>4, <2>5, <2>6, <2>7
  <1>9. g[T] = State(T)
    <2>1. T \in SUBSET T
      OBVIOUS
    <2>2. QED
      BY <1>8, <2>1
  <1>10. QED
    BY <1>5, <1>9 DEF start, State

(* What it leaves of the findings and what it returns, when everything     *)
(* verified was touched.                                                   *)
DiffTaken(touched, fresh) ==
  /\ findings' = Merged(fresh, (touched \cap DOMAIN findings) \ DOMAIN fresh)
  /\ result'.added = DOMAIN fresh \ DOMAIN findings
  /\ result'.removed = (touched \cap DOMAIN findings) \ DOMAIN fresh
  /\ result'.updated = ChangedPairs(DOMAIN fresh, findings, fresh)

LEMMA TakeDiffEffect ==
  ASSUME NEW touched, IsFiniteSet(touched), NEW fresh, DOMAIN fresh \subseteq touched,
         IsMap(findings), IsMap(fresh), TakeDiff(touched, fresh)
  PROVE  DiffTaken(touched, fresh)
  <1> DEFINE end == FoldSet(DiffTurn, LoopStart(fresh), touched)
             stop == LoopState(touched, findings, fresh)
  <1>1. LoopStart(fresh) = LoopState({}, findings, fresh)
    <2>1. FindingsAfter({}, findings, fresh) = findings
      BY DEF FindingsAfter, IsMap
    <2>2. [pk \in DOMAIN fresh \ {} |-> fresh[pk]] = fresh
      BY DEF IsMap
    <2>3. ChangedPairs({}, findings, fresh) = {}
      BY DEF ChangedPairs
    <2>4. QED
      BY <2>1, <2>2, <2>3 DEF LoopStart, LoopState
  <1>2. FoldSet(DiffTurn, LoopState({}, findings, fresh), touched) = stop
    BY LoopEnd
  <1>3. end = stop
    BY <1>1, <1>2
  <1>4. /\ findings' = [pk \in DOMAIN end.findings \cup DOMAIN end.fresh |->
                         IF pk \in DOMAIN end.fresh THEN end.fresh[pk] ELSE end.findings[pk]]
        /\ result'.added = end.added \cup DOMAIN end.fresh
        /\ result'.removed = end.removed /\ result'.updated = end.updated
    BY DEF TakeDiff
  <1> HIDE DEF end
  <1>5. /\ end.findings = FindingsAfter(touched, findings, fresh)
        /\ end.fresh = [pk \in DOMAIN fresh \ touched |-> fresh[pk]]
        /\ end.added = (touched \cap DOMAIN fresh) \ DOMAIN findings
        /\ end.removed = (touched \cap DOMAIN findings) \ DOMAIN fresh
        /\ end.updated = ChangedPairs(touched, findings, fresh)
    BY <1>3 DEF LoopState
  <1>6. DOMAIN end.fresh = {}
    BY <1>5
  <1>7. findings' = [pk \in DOMAIN end.findings |-> end.findings[pk]]
    BY <1>4, <1>6
  <1>8. [pk \in DOMAIN end.findings |-> end.findings[pk]]
          = Merged(fresh, (touched \cap DOMAIN findings) \ DOMAIN fresh)
    BY <1>5 DEF FindingsAfter, Merged
  <1>9. ChangedPairs(touched, findings, fresh) = ChangedPairs(DOMAIN fresh, findings, fresh)
    BY DEF ChangedPairs
  <1>10. touched \cap DOMAIN fresh = DOMAIN fresh
    OBVIOUS
  <1>11. QED
    BY <1>4, <1>5, <1>6, <1>7, <1>8, <1>9, <1>10 DEF DiffTaken

(* The old keys are those of the old entries of the changed paths, the new *)
(* keys those of the new ones.                                             *)
LEMMA OldItemKeysExact ==
  ASSUME Holds(index, unique_sets, Entries(Paths, indexed)),
         indexed \in [Paths -> Contents], NEW S \in SUBSET Paths
  PROVE  OldItemKeys(S) = {Algebra!Key(e) : e \in {f \in Entries(Paths, indexed) : f.path \in S}}
  <1> DEFINE E == Entries(Paths, indexed)
             F == {f \in E : f.path \in S}
  <1>1. UNION {IdsForPath(index, p) : p \in S} = RemovedIds(index, S)
    <2>1. \A p \in S : IdsForPath(index, p) = {id \in LiveIds(index) : index.files[id].path = p}
      BY DEF Holds, GoodIndex, LiveIdsOf, IdsForPath
    <2>2. QED
      BY <2>1 DEF RemovedIds
  <1>2. ASSUME NEW i \in RemovedIds(index, S)
        PROVE  \E e \in F : ItemKeyOf(index, i) = Algebra!Key(e)
    <2>1. i \in LiveIds(index) /\ index.files[i].path \in S
      BY DEF RemovedIds
    <2>2. PICK e \in E : StandsFor(index, unique_sets, i, e)
      BY <2>1 DEF Holds
    <2>3. e \in F
      BY <2>1, <2>2 DEF StandsFor
    <2>4. QED
      BY <2>2, <2>3, StandsForKey
  <1>3. ASSUME NEW e \in F
        PROVE  \E i \in RemovedIds(index, S) : ItemKeyOf(index, i) = Algebra!Key(e)
    <2>1. PICK i \in LiveIds(index) : StandsFor(index, unique_sets, i, e)
      BY DEF Holds
    <2>2. i \in RemovedIds(index, S)
      BY <2>1 DEF StandsFor, RemovedIds
    <2>3. QED
      BY <2>1, <2>2, StandsForKey
  <1> HIDE DEF F
  <1>4. {ItemKeyOf(index, i) : i \in RemovedIds(index, S)} = {Algebra!Key(e) : e \in F}
    BY <1>2, <1>3
  <1>5. QED
    BY <1>1, <1>4 DEF OldItemKeys, F

(* An entry keeps its exact set when others are dropped.                   *)
LEMMA RestrictStands ==
  ASSUME NEW ix, NEW unique, NEW id, NEW e, StandsFor(ix, unique, id, e),
         NEW D, Algebra!Key(e) \in D
  PROVE  StandsFor(ix, Restrict(unique, D), id, e)
  <1>1. ItemKeyOf(ix, id) \in D
    BY StandsForKey
  <1>2. Restrict(unique, D)[ItemKeyOf(ix, id)] = unique[ItemKeyOf(ix, id)]
    BY <1>1 DEF Restrict
  <1>3. QED
    BY <1>2 DEF StandsFor

(* The entries after an update are those of the other paths before, and    *)
(* those the changed paths now have.                                       *)
LEMMA ProcessedEntries ==
  ASSUME disk \in [Paths -> Contents], indexed \in [Paths -> Contents], NEW S \in SUBSET Paths
  PROVE  /\ Processed(S) \in [Paths -> Contents]
         /\ Entries(S, Processed(S)) = Entries(S, disk)
         /\ Entries(Paths, Processed(S)) =
              {e \in Entries(Paths, indexed) : e.path \notin S} \cup Entries(S, disk)
         /\ \A e \in Entries(S, disk) : e.path \in S
  <1> DEFINE files == Processed(S)
  <1>1. /\ files \in [Paths -> Contents]
        /\ \A p \in S : files[p] = disk[p]
        /\ \A p \in Paths \ S : files[p] = indexed[p]
    BY DEF Processed
  <1> HIDE DEF files
  <1>2. Entries(S, files) = Entries(S, disk)
    BY <1>1 DEF Entries, Algebra!EntriesOf
  <1>3. Entries(Paths \ S, indexed) = {e \in Entries(Paths, indexed) : e.path \notin S}
    BY DEF Entries, Algebra!EntriesOf
  <1>4. Entries(S \cup (Paths \ S), files) = Entries(Paths \ S, indexed) \cup Entries(S, disk)
    <2>1. Paths \ S \in SUBSET Paths /\ S \cap (Paths \ S) = {}
      OBVIOUS
    <2>2. QED
      BY <1>1, <2>1, EntriesSplit
  <1>5. S \cup (Paths \ S) = Paths
    OBVIOUS
  <1>6. \A e \in Entries(S, disk) : e.path \in S
    BY DEF Entries, Algebra!EntriesOf
  <1>7. QED
    BY <1>1, <1>2, <1>3, <1>4, <1>5, <1>6 DEF files

(* The index and the exact sets hold the entries of the new contents, and  *)
(* the new ids are those of the changed paths.                             *)
LEMMA UpdatedHolds ==
  ASSUME DistinctGranules, EngineIInv, NEW S \in SUBSET Paths
  PROVE  /\ Holds(UpdatedIndex(S), UpdatedSets(S), Entries(Paths, Processed(S)))
         /\ DOMAIN UpdatedSets(S) = KeysOf(Entries(Paths, Processed(S)))
         /\ NewFor(UpdatedIndex(S), UpdatedSets(S), NewIds(S), Entries(S, Processed(S)))
  <1> DEFINE old == Entries(Paths, indexed)
             E == {e \in old : e.path \notin S}
             F == Entries(S, disk)
             items == ItemsOnDisk(S)
             ixR == RemoveAll(index, S)
             ixI == InsertIndex(ixR, items)
             sets == InsertSets(unique_sets, items)
             new == (Len(ixR.files) + 1)..Len(ixI.files)
             D == DOMAIN sets \ (OldItemKeys(S) \ NewItemKeys(S))
  <1>1. /\ disk \in [Paths -> Contents] /\ indexed \in [Paths -> Contents]
        /\ Holds(index, unique_sets, old) /\ DOMAIN unique_sets = KeysOf(old)
    BY DEF EngineIInv, Algebra!FindingsTypeOK
  <1>2. /\ Entries(S, Processed(S)) = F
        /\ Entries(Paths, Processed(S)) = E \cup F
        /\ \A f \in F : f.path \in S
    BY <1>1, ProcessedEntries
  <1>3. old \subseteq Entry /\ F \subseteq Entry /\ Paths \in SUBSET Paths
    <2>1. Paths \in SUBSET Paths
      OBVIOUS
    <2>2. QED
      BY <1>1, <2>1, EntryFacts
  <1>4. Enumerates(items, F)
    BY <1>1, ItemsOnDiskExact
  <1>5. Holds(ixR, unique_sets, E)
    BY <1>1, <1>3, RemoveHolds
  <1>6. Len(ixR.files) = Len(index.files)
    <2>1. GoodIndex(index)
      BY <1>1 DEF Holds
    <2>2. QED
      BY <2>1, RemoveAllGood
  <1>7. \A e \in E : \A f \in F : Algebra!Key(e) # Algebra!Key(f)
    BY <1>2 DEF Algebra!Key
  <1>8. E \subseteq Entry
    BY <1>3
  <1> HIDE DEF old, E, F, items, ixR
  <1>9. /\ Holds(ixI, sets, E \cup F)
        /\ LiveIds(ixI) = LiveIds(ixR) \cup new
        /\ \A id \in new : \E f \in F : StandsFor(ixI, sets, id, f)
        /\ \A f \in F : \E id \in new : StandsFor(ixI, sets, id, f)
        /\ \A i \in LiveIds(ixR), j \in new : i < j
    BY <1>3, <1>4, <1>5, <1>7, <1>8, InsertHolds
  <1>10. SetsOf(F, unique_sets, sets)
    BY <1>3, <1>4, InsertSetsFields
  <1> HIDE DEF ixI, sets
  <1>11. /\ UpdatedIndex(S) = ixI /\ InsertedSets(S) = sets /\ NewIds(S) = new
         /\ UpdatedSets(S) = Restrict(sets, D)
    BY <1>6 DEF UpdatedIndex, InsertedSets, NewIds, UpdatedSets, ixI, ixR, items, sets
  <1> HIDE DEF new
  <1>12. DOMAIN sets = KeysOf(old) \cup KeysOf(F)
    BY <1>1, <1>10 DEF SetsOf
  <1>13. OldItemKeys(S) = {Algebra!Key(e) : e \in {f \in old : f.path \in S}}
    BY <1>1, OldItemKeysExact DEF old
  <1>14. NewItemKeys(S) = KeysOf(F)
    <2>1. NewItemKeys(S) = {ItemKeyOf(ixI, i) : i \in new}
      BY <1>11 DEF NewItemKeys
    <2>2. ASSUME NEW i \in new PROVE \E f \in F : ItemKeyOf(ixI, i) = Algebra!Key(f)
      BY <1>9, StandsForKey
    <2>3. ASSUME NEW f \in F PROVE \E i \in new : ItemKeyOf(ixI, i) = Algebra!Key(f)
      BY <1>9, StandsForKey
    <2>4. QED
      BY <2>1, <2>2, <2>3 DEF KeysOf
  <1>15. D = KeysOf(E \cup F)
    <2>1. ASSUME NEW e \in E PROVE Algebra!Key(e) \in D
      <3>1. e \in old /\ e.path \notin S
        BY DEF E
      <3>2. Algebra!Key(e) \notin OldItemKeys(S)
        BY <1>13, <3>1 DEF Algebra!Key
      <3>3. QED
        BY <1>12, <3>1, <3>2 DEF KeysOf
    <2>2. ASSUME NEW f \in F PROVE Algebra!Key(f) \in D
      BY <1>12, <1>14 DEF KeysOf
    <2>3. ASSUME NEW k \in D PROVE k \in KeysOf(E \cup F)
      <3>1. CASE k \in KeysOf(F)
        BY <3>1 DEF KeysOf
      <3>2. CASE k \notin KeysOf(F)
        <4>1. PICK e \in old : k = Algebra!Key(e)
          BY <1>12, <3>2 DEF KeysOf
        <4>2. k \notin OldItemKeys(S)
          BY <1>14, <3>2
        <4>3. e.path \notin S
          BY <1>13, <4>1, <4>2
        <4>4. QED
          BY <4>1, <4>3 DEF KeysOf, E
      <3>3. QED
        BY <3>1, <3>2
    <2> HIDE DEF D
    <2>4. QED
      BY <2>1, <2>2, <2>3 DEF KeysOf
  <1>16. D \subseteq DOMAIN sets
    OBVIOUS
  <1> HIDE DEF D
  <1>17. \A e \in E \cup F : Algebra!Key(e) \in D
    BY <1>15 DEF KeysOf
  <1>18. Holds(ixI, Restrict(sets, D), E \cup F) /\ DOMAIN Restrict(sets, D) = D
    BY <1>9, <1>16, <1>17, RestrictHolds
  <1>19. NewFor(ixI, Restrict(sets, D), new, F)
    <2>1. new \subseteq LiveIds(ixI)
      BY <1>9
    <2>2. \A i \in LiveIds(ixI) \ new, j \in new : i < j
      BY <1>9
    <2>3. \A f \in F : Algebra!Key(f) \in D
      BY <1>17
    <2>4. ASSUME NEW id \in new PROVE \E f \in F : StandsFor(ixI, Restrict(sets, D), id, f)
      BY <1>9, <2>3, RestrictStands
    <2>5. ASSUME NEW f \in F PROVE \E id \in new : StandsFor(ixI, Restrict(sets, D), id, f)
      BY <1>9, <2>3, RestrictStands
    <2>6. QED
      BY <2>1, <2>2, <2>4, <2>5 DEF NewFor
  <1>20. QED
    BY <1>2, <1>11, <1>15, <1>18, <1>19

(* An index has finitely many live keys.                                   *)
LiveKeys(ix) == {ItemKeyOf(ix, i) : i \in LiveIds(ix)}

LEMMA LiveKeysFinite ==
  ASSUME NEW ix, GoodIndex(ix)
  PROVE  IsFiniteSet(LiveKeys(ix))
  <1> DEFINE f == [i \in LiveIds(ix) |-> ItemKeyOf(ix, i)]
  <1>1. f \in Surjection(LiveIds(ix), LiveKeys(ix))
    BY DEF Surjection, LiveKeys
  <1>2. IsFiniteSet(LiveIds(ix))
    BY IndexShape DEF GoodIndex
  <1> HIDE DEF f
  <1>3. QED
    BY <1>1, <1>2, FS_Surjection

(* So an update touches finitely many pairs.                               *)
LEMMA TouchedFinite ==
  ASSUME DistinctGranules, EngineIInv, NEW S \in SUBSET Paths
  PROVE  IsFiniteSet(Touched(S))
  <1> DEFINE ix == UpdatedIndex(S)
             K == LiveKeys(index) \cup LiveKeys(ix)
  <1>1. GoodIndex(index) /\ GoodIndex(ix) /\ indexed \in [Paths -> Contents]
        /\ Holds(index, unique_sets, Entries(Paths, indexed))
    <2>1. Holds(index, unique_sets, Entries(Paths, indexed)) /\ indexed \in [Paths -> Contents]
      BY DEF EngineIInv, Algebra!FindingsTypeOK
    <2>2. Holds(ix, UpdatedSets(S), Entries(Paths, Processed(S)))
      BY UpdatedHolds
    <2>3. QED
      BY <2>1, <2>2 DEF Holds
  <1>2. IsFiniteSet(SUBSET K)
    <2>1. IsFiniteSet(LiveKeys(index)) /\ IsFiniteSet(LiveKeys(ix))
      BY <1>1, LiveKeysFinite
    <2>2. IsFiniteSet(K)
      BY <2>1, FS_Union
    <2>3. QED
      BY <2>2, FS_SUBSET
  <1>3. \A i, j \in LiveIds(index) : PairKeyOf(index, i, j) \in SUBSET K
    BY DEF PairKeyOf, LiveKeys
  <1>4. \A i, j \in LiveIds(ix) : PairKeyOf(ix, i, j) \in SUBSET K
    BY DEF PairKeyOf, LiveKeys
  <1> HIDE DEF ix, K
  <1>5. ASSUME NEW pk \in TouchedByOld(S) PROVE pk \in SUBSET K
    <2>1. PICK i \in UNION {IdsForPath(index, p) : p \in S} :
            \E j \in PartnersOf(index, i) : pk = PairKeyOf(index, i, j)
      BY DEF TouchedByOld
    <2>2. i \in RemovedIds(index, S)
      BY <1>1, <2>1, OldKeys
    <2>3. i \in LiveIds(index) /\ i \in Ids(index)
      BY <2>2 DEF RemovedIds, LiveIds
    <2>4. PICK j \in LiveIds(index) : pk = PairKeyOf(index, i, j)
      BY <1>1, <2>1, <2>3, PartnersExact
    <2>5. QED
      BY <1>3, <2>3, <2>4
  <1>6. ASSUME NEW ij \in UpdateCandidates(S) PROVE PairKeyOf(ix, ij[1], ij[2]) \in SUBSET K
    <2>1. ij \in OrderedPairs(ix)
      BY <1>1, CandidatesOrdered DEF UpdateCandidates, ix
    <2>2. ij[1] \in LiveIds(ix) /\ ij[2] \in LiveIds(ix)
      BY <2>1 DEF OrderedPairs
    <2>3. QED
      BY <1>4, <2>2
  <1>7. Touched(S) \in SUBSET (SUBSET K)
    BY <1>5, <1>6 DEF Touched, ix
  <1>8. QED
    BY <1>2, <1>7, FS_Subset

(* An update takes the diff.                                               *)
LEMMA UpdateTakesDiff ==
  ASSUME DistinctGranules, EngineIInv, NEW S \in SUBSET Paths, Update(S)
  PROVE  \E fresh \in FindingMaps(UpdatedIndex(S), UpdatedSets(S), UpdateCandidates(S)) :
           DiffTaken(Touched(S), fresh)
  <1>1. PICK fresh \in FindingMaps(UpdatedIndex(S), UpdatedSets(S), UpdateCandidates(S)) :
          TakeDiff(Touched(S), fresh)
    BY UpdateUnfolds
  <1>2. IsMap(fresh) /\ DOMAIN fresh \subseteq Touched(S)
    <2>1. /\ IsMap(fresh)
          /\ DOMAIN fresh \subseteq {PairKeyOf(UpdatedIndex(S), ij[1], ij[2]) :
                                       ij \in UpdateCandidates(S)}
      BY FindingMapsAreMaps
    <2>2. QED
      BY <2>1 DEF Touched
  <1>3. IsMap(findings)
    BY DEF EngineIInv, FindingsTyped
  <1>4. DiffTaken(Touched(S), fresh)
    BY <1>1, <1>2, <1>3, TouchedFinite, TakeDiffEffect
  <1>5. QED
    BY <1>4

(* The findings are updated as the algebra does it.                        *)
UpdatedAs(S, f) ==
  /\ SetOfFindings(f) =
       {x \in FindingSet :
          x.pair \notin Algebra!TouchedBefore(S) \cup Algebra!TouchedAfter(S, Processed(S))}
       \cup Algebra!FindingsBetween(Algebra!EntriesOf(S, Processed(S)),
                                    Algebra!EntriesOf(Paths, Processed(S)))
  /\ DOMAIN f \subseteq ItemPairs
  /\ Range(f) \subseteq Verdicts

(* What the update merges into the findings is what the algebra says.      *)
LEMMA UpdatedFindings ==
  ASSUME DistinctGranules, EngineIInv, NEW S \in SUBSET Paths,
         NEW fresh \in FindingMaps(UpdatedIndex(S), UpdatedSets(S), UpdateCandidates(S))
  PROVE  UpdatedAs(S, Merged(fresh, (Touched(S) \cap DOMAIN findings) \ DOMAIN fresh))
  <1> DEFINE files == Processed(S)
             F == Entries(S, files)
             E == Entries(Paths, files)
             gone == (Touched(S) \cap DOMAIN findings) \ DOMAIN fresh
             f == Merged(fresh, gone)
             touched == Algebra!TouchedBefore(S) \cup Algebra!TouchedAfter(S, files)
  <1>1. /\ disk \in [Paths -> Contents] /\ indexed \in [Paths -> Contents]
        /\ Holds(index, unique_sets, Entries(Paths, indexed))
        /\ DOMAIN findings \subseteq ItemPairs /\ Range(findings) \subseteq Verdicts
    BY DEF EngineIInv, FindingsTyped, Algebra!FindingsTypeOK
  <1>2. files \in [Paths -> Contents] /\ F \subseteq E
    <2>1. /\ files \in [Paths -> Contents]
          /\ Entries(S, files) = Entries(S, disk)
          /\ Entries(Paths, files) =
               {e \in Entries(Paths, indexed) : e.path \notin S} \cup Entries(S, disk)
      BY <1>1, ProcessedEntries
    <2>2. QED
      BY <2>1
  <1>3. /\ Holds(UpdatedIndex(S), UpdatedSets(S), E)
        /\ NewFor(UpdatedIndex(S), UpdatedSets(S), NewIds(S), F)
    BY UpdatedHolds
  <1> HIDE DEF F, E, files
  <1>4. fresh \in FindingMaps(UpdatedIndex(S), UpdatedSets(S),
                              NewCandidates(UpdatedIndex(S), NewIds(S)))
    BY DEF UpdateCandidates
  <1>5. /\ SetOfFindings(fresh) = Algebra!FindingsBetween(F, E)
        /\ DOMAIN fresh \subseteq ItemPairs
        /\ \A pk \in DOMAIN fresh : fresh[pk] \in Verdicts
    <2> USE DEF E
    <2>1. F \subseteq Entries(Paths, files) /\ Holds(UpdatedIndex(S), UpdatedSets(S), Entries(Paths, files))
      BY <1>2, <1>3
    <2>2. QED
      BY <1>2, <1>3, <1>4, <2>1, FreshFindings
  <1>6. Touched(S) = touched
    <2>1. TouchedByOld(S) = Algebra!TouchedBefore(S)
      BY <1>1, OldKeys
    <2>2. {PairKeyOf(UpdatedIndex(S), ij[1], ij[2]) : ij \in NewCandidates(UpdatedIndex(S), NewIds(S))}
            = Algebra!TouchedAfter(S, files)
      BY <1>2, <1>3, CandidateKeys DEF E, F
    <2>3. QED
      BY <2>1, <2>2 DEF Touched, UpdateCandidates
  <1>7. DOMAIN fresh \subseteq touched
    <2>1. ASSUME NEW pk \in DOMAIN fresh PROVE pk \in Algebra!TouchedAfter(S, files)
      <3>1. [pair |-> pk, verdict |-> fresh[pk]] \in Algebra!FindingsBetween(F, E)
        BY <1>5 DEF SetOfFindings
      <3>2. PICK e \in F, g \in E :
              /\ Algebra!IsFinding(e, g)
              /\ [pair |-> pk, verdict |-> fresh[pk]] = Algebra!Finding(e, g)
        BY <3>1, BetweenElements
      <3>3. /\ pk = Algebra!PairKey(e, g)
            /\ Algebra!Partners(e, g) /\ ItemsClose(e.item, g.item)
        BY <3>2 DEF Algebra!IsFinding, Algebra!Finding
      <3>4. QED
        BY <3>3, TouchedAfterElements DEF E, F
    <2>2. QED
      BY <2>1
  <1> HIDE DEF touched
  <1>8. /\ DOMAIN f = (DOMAIN findings \ gone) \cup DOMAIN fresh
        /\ \A pk \in DOMAIN f :
             f[pk] = IF pk \in DOMAIN fresh THEN fresh[pk] ELSE findings[pk]
    BY DEF Merged
  <1>9. \A pk : pk \in DOMAIN findings /\ pk \notin gone /\ pk \notin DOMAIN fresh <=>
                  pk \in DOMAIN findings /\ pk \notin touched
    BY <1>6, <1>7
  <1> HIDE DEF f, gone
  <1>10. SetOfFindings(f) = {x \in FindingSet : x.pair \notin touched} \cup SetOfFindings(fresh)
    <2>1. ASSUME NEW pk \in DOMAIN f
          PROVE  \/ [pair |-> pk, verdict |-> f[pk]] \in SetOfFindings(fresh)
                 \/ [pair |-> pk, verdict |-> f[pk]] \in {x \in FindingSet : x.pair \notin touched}
      <3>1. CASE pk \in DOMAIN fresh
        BY <1>8, <3>1 DEF SetOfFindings
      <3>2. CASE pk \notin DOMAIN fresh
        <4>1. pk \in DOMAIN findings /\ pk \notin touched /\ f[pk] = findings[pk]
          BY <1>8, <1>9, <3>2
        <4>2. QED
          BY <4>1 DEF FindingSet
      <3>3. QED
        BY <3>1, <3>2
    <2>2. ASSUME NEW pk \in DOMAIN fresh
          PROVE  [pair |-> pk, verdict |-> fresh[pk]] \in SetOfFindings(f)
      BY <1>8 DEF SetOfFindings
    <2>3. ASSUME NEW x \in FindingSet, x.pair \notin touched
          PROVE  x \in SetOfFindings(f)
      <3>1. PICK pk \in DOMAIN findings : x = [pair |-> pk, verdict |-> findings[pk]]
        BY DEF FindingSet
      <3>2. pk \in DOMAIN f /\ f[pk] = findings[pk]
        BY <1>8, <1>9, <2>3, <3>1
      <3>3. QED
        BY <3>1, <3>2 DEF SetOfFindings
    <2>4. QED
      BY <2>1, <2>2, <2>3 DEF SetOfFindings
  <1>11. DOMAIN f \subseteq ItemPairs
    BY <1>1, <1>5, <1>8
  <1>12. Range(f) \subseteq Verdicts
    <2>1. ASSUME NEW pk \in DOMAIN f PROVE f[pk] \in Verdicts
      <3>1. CASE pk \in DOMAIN fresh
        BY <1>5, <1>8, <3>1
      <3>2. CASE pk \notin DOMAIN fresh
        BY <1>1, <1>8, <3>2 DEF Range
      <3>3. QED
        BY <3>1, <3>2
    <2>2. QED
      BY <2>1 DEF Range
  <1>13. SetOfFindings(f) = {x \in FindingSet : x.pair \notin touched}
                            \cup Algebra!FindingsBetween(Algebra!EntriesOf(S, files),
                                                         Algebra!EntriesOf(Paths, files))
    BY <1>5, <1>10 DEF E, F, Entries
  <1>14. UpdatedAs(S, f)
    BY <1>11, <1>12, <1>13, Zenon DEF UpdatedAs, files, touched
  <1>15. QED
    BY <1>14 DEF f, gone

-----------------------------------------------------------------------------
(* What the initial scan makes of them.                                    *)

ScanFiles == [p \in Paths |-> IF p \in Excluded THEN Absent ELSE disk[p]]

ScanIndex == InsertIndex(EmptyIndex, ItemsOnDisk(Paths \ Excluded))

ScanSets == InsertSets(NoSets, ItemsOnDisk(Paths \ Excluded))

ScanCandidates ==
  {ij \in CandidatePairs(ScanIndex) :
     SketchPasses(ScanIndex.sketches[ij[1]], ScanIndex.sketches[ij[2]])}

(* The initial scan, in these terms.                                       *)
LEMMA ScanUnfolds ==
  ASSUME InitialScan
  PROVE  /\ findings' \in FindingMaps(ScanIndex, ScanSets, ScanCandidates)
         /\ index' = ScanIndex /\ unique_sets' = ScanSets /\ indexed' = ScanFiles
         /\ disk' = disk
  BY DEF InitialScan, ScanIndex, ScanSets, ScanCandidates, ScanFiles

(* The files it does not walk have no entries.                             *)
LEMMA ScanEntries ==
  ASSUME disk \in [Paths -> Contents]
  PROVE  /\ ScanFiles \in [Paths -> Contents]
         /\ Entries(Paths, ScanFiles) = Entries(Paths \ Excluded, disk)
  <1> DEFINE S == Paths \ Excluded
             files == ScanFiles
  <1>1. Absent \in Contents /\ Excluded \in SUBSET Paths /\ S \in SUBSET Paths
    BY EngineAssumption
  <1>2. /\ files \in [Paths -> Contents]
        /\ \A p \in S : files[p] = disk[p]
        /\ \A p \in Excluded : files[p] = Absent
    BY <1>1 DEF ScanFiles
  <1> HIDE DEF files
  <1>3. S \cap Excluded = {}
    BY <1>1
  <1>4. S \cup Excluded = Paths
    BY <1>1
  <1> HIDE DEF S
  <1>5. Entries(S \cup Excluded, files) = Entries(Excluded, files) \cup Entries(S, disk)
    BY <1>1, <1>2, <1>3, EntriesSplit
  <1>6. Entries(Excluded, files) = {}
    BY <1>1, <1>2, NoEntries
  <1>7. QED
    BY <1>2, <1>5, <1>6, <1>4 DEF files, S

(* The index and the exact sets hold the entries of the files it walks,    *)
(* and every live id is new.                                               *)
LEMMA ScanHolds ==
  ASSUME DistinctGranules, disk \in [Paths -> Contents]
  PROVE  /\ Holds(ScanIndex, ScanSets, Entries(Paths, ScanFiles))
         /\ DOMAIN ScanSets = KeysOf(Entries(Paths, ScanFiles))
         /\ NewFor(ScanIndex, ScanSets, LiveIds(ScanIndex), Entries(Paths, ScanFiles))
         /\ ScanCandidates = NewCandidates(ScanIndex, LiveIds(ScanIndex))
  <1> DEFINE S == Paths \ Excluded
             items == ItemsOnDisk(S)
             E == Entries(S, disk)
  <1>1. S \in SUBSET Paths
    OBVIOUS
  <1>2. Entries(Paths, ScanFiles) = E
    BY ScanEntries
  <1>3. Enumerates(items, E) /\ E \subseteq Entry
    BY <1>1, ItemsOnDiskExact, EntryFacts
  <1> HIDE DEF S, E, items
  <1>4. Holds(EmptyIndex, NoSets, {})
    BY HoldsNothing
  <1>5. Holds(ScanIndex, ScanSets, E)
    <2>1. /\ {} \subseteq Entry
          /\ \A e \in {} : \A f \in E : Algebra!Key(e) # Algebra!Key(f)
      OBVIOUS
    <2>2. Holds(InsertIndex(EmptyIndex, items), InsertSets(NoSets, items), {} \cup E)
      BY <1>3, <1>4, <2>1, InsertHolds
    <2>3. {} \cup E = E
      OBVIOUS
    <2>4. QED
      BY <2>2, <2>3 DEF ScanIndex, ScanSets, items, S
  <1>6. DOMAIN ScanSets = KeysOf(E)
    <2>1. SetsOf(E, NoSets, InsertSets(NoSets, items))
      BY <1>3, InsertSetsFields
    <2>2. DOMAIN NoSets = {}
      BY DEF NoSets
    <2>3. QED
      BY <2>1, <2>2 DEF SetsOf, ScanSets, items, S
  <1>7. NewFor(ScanIndex, ScanSets, LiveIds(ScanIndex), E)
    BY <1>5 DEF Holds, NewFor
  <1>8. ScanCandidates = NewCandidates(ScanIndex, LiveIds(ScanIndex))
    <2>1. GoodIndex(ScanIndex)
      BY <1>5 DEF Holds
    <2>2. \A ij \in CandidatePairs(ScanIndex) : ij[2] \in LiveIds(ScanIndex)
      BY <2>1, PairsExact
    <2>3. QED
      BY <2>2 DEF ScanCandidates, NewCandidates
  <1>9. QED
    BY <1>2, <1>5, <1>6, <1>7, <1>8

(* What it finds is what the algebra finds among them.                     *)
LEMMA ScannedFindings ==
  ASSUME DistinctGranules, disk \in [Paths -> Contents],
         NEW f \in FindingMaps(ScanIndex, ScanSets, ScanCandidates)
  PROVE  /\ SetOfFindings(f) = Algebra!FindingsAmong(ScanFiles)
         /\ DOMAIN f \subseteq ItemPairs
         /\ Range(f) \subseteq Verdicts
  <1> DEFINE E == Entries(Paths, ScanFiles)
  <1>1. ScanFiles \in [Paths -> Contents]
    BY ScanEntries
  <1>2. /\ Holds(ScanIndex, ScanSets, E)
        /\ NewFor(ScanIndex, ScanSets, LiveIds(ScanIndex), E)
        /\ f \in FindingMaps(ScanIndex, ScanSets, NewCandidates(ScanIndex, LiveIds(ScanIndex)))
        /\ E \subseteq Entries(Paths, ScanFiles)
    BY ScanHolds
  <1>3. /\ SetOfFindings(f) = Algebra!FindingsBetween(E, E)
        /\ DOMAIN f \subseteq ItemPairs
        /\ \A pk \in DOMAIN f : f[pk] \in Verdicts
    BY <1>1, <1>2, FreshFindings
  <1>4. QED
    BY <1>3 DEF Algebra!FindingsAmong, Entries, Range

-----------------------------------------------------------------------------
(* The steps.                                                              *)

InStep(ix, unique, files, f) ==
  /\ Holds(ix, unique, Entries(Paths, files))
  /\ DOMAIN unique = KeysOf(Entries(Paths, files))
  /\ IsMap(f)
  /\ DOMAIN f \subseteq ItemPairs
  /\ Range(f) \subseteq Verdicts

(* The invariant, as a predicate on the values of the variables.           *)
LEMMA InStepIsInvariant ==
  /\ EngineIInv <=>
       Algebra!FindingsTypeOK /\ InStep(index, unique_sets, indexed, findings)
  /\ EngineIInv' <=>
       Algebra!FindingsTypeOK' /\ InStep(index', unique_sets', indexed', findings')
  BY DEF EngineIInv, InStep, FindingsTyped, IsMap, ItemPairs, ItemKeys, Verdicts, Range,
     Holds, GoodIndex, IndexRecord, FileMeta, BucketsOf, BandKeys, BandKey, BandHash,
     LiveIdsOf, LiveIds, IsAlive, Ids, StandsFor, ItemKeyOf, KeysOf, Algebra!Key, Entries,
     Algebra!EntriesOf, Algebra!AllItems, ItemSets

(* Nothing was indexed.                                                    *)
LEMMA EngineStarts ==
  ASSUME EngineInit
  PROVE  EngineIInv /\ Algebra!FindingsInit
  <1>1. /\ disk \in [Paths -> Contents] /\ indexed = [p \in Paths |-> Absent]
        /\ index = EmptyIndex /\ unique_sets = NoSets /\ DOMAIN findings = {}
        /\ findings = [pk \in {} |-> {}]
    BY DEF EngineInit
  <1>2. indexed \in [Paths -> Contents] /\ \A p \in Paths : indexed[p] = Absent
    BY <1>1, EngineAssumption
  <1>3. Entries(Paths, indexed) = {}
    <2>1. Paths \in SUBSET Paths
      OBVIOUS
    <2>2. QED
      BY <1>2, <2>1, NoEntries
  <1>4. Holds(index, unique_sets, Entries(Paths, indexed))
    BY <1>1, <1>3, HoldsNothing
  <1>5. DOMAIN unique_sets = KeysOf(Entries(Paths, indexed))
    BY <1>1, <1>3 DEF KeysOf, NoSets
  <1>6. FindingsTyped
    BY <1>1 DEF FindingsTyped, Range, IsMap
  <1>7. Algebra!FindingsTypeOK
    BY <1>1, <1>2 DEF Algebra!FindingsTypeOK
  <1>8. Algebra!FindingsInit
    BY <1>1 DEF Algebra!FindingsInit, FindingSet
  <1>9. QED
    BY <1>4, <1>5, <1>6, <1>7, <1>8 DEF EngineIInv

(* An edit changes nothing the engine keeps.                               *)
LEMMA EditKeeps ==
  ASSUME EngineIInv, NEW p \in Paths, NEW c \in Contents, EditFile(p, c)
  PROVE  EngineIInv' /\ Algebra!Edit(p, c)
  <1>1. /\ disk' = [disk EXCEPT ![p] = c]
        /\ UNCHANGED <<indexed, index, unique_sets, findings>>
    BY DEF EditFile
  <1>2. Algebra!FindingsTypeOK'
    BY <1>1 DEF EngineIInv, Algebra!FindingsTypeOK
  <1>3. InStep(index', unique_sets', indexed', findings')
    BY <1>1, InStepIsInvariant
  <1>4. FindingSet' = FindingSet
    BY <1>1 DEF FindingSet
  <1>5. QED
    BY <1>1, <1>2, <1>3, <1>4, InStepIsInvariant DEF Algebra!Edit

(* The initial scan puts everything in step, as ScanAll.                   *)
LEMMA ScanKeeps ==
  ASSUME DistinctGranules, EngineIInv, InitialScan
  PROVE  EngineIInv' /\ Algebra!ScanAll
  <1>1. disk \in [Paths -> Contents]
    BY DEF EngineIInv, Algebra!FindingsTypeOK
  <1>2. /\ findings' \in FindingMaps(ScanIndex, ScanSets, ScanCandidates)
        /\ index' = ScanIndex /\ unique_sets' = ScanSets /\ indexed' = ScanFiles
        /\ disk' = disk
    BY ScanUnfolds
  <1>3. ScanFiles \in [Paths -> Contents]
    BY <1>1, ScanEntries
  <1>4. /\ Holds(ScanIndex, ScanSets, Entries(Paths, ScanFiles))
        /\ DOMAIN ScanSets = KeysOf(Entries(Paths, ScanFiles))
    BY <1>1, ScanHolds
  <1>5. /\ SetOfFindings(findings') = Algebra!FindingsAmong(ScanFiles)
        /\ DOMAIN findings' \subseteq ItemPairs
        /\ Range(findings') \subseteq Verdicts
    BY <1>1, <1>2, ScannedFindings
  <1>6. InStep(index', unique_sets', indexed', findings')
    <2>1. IsMap(findings')
      BY <1>2, FindingMapsAreMaps
    <2>2. QED
      BY <1>2, <1>4, <1>5, <2>1 DEF InStep
  <1>7. Algebra!FindingsTypeOK'
    BY <1>1, <1>2, <1>3 DEF Algebra!FindingsTypeOK
  <1>8. FindingSet' = SetOfFindings(findings')
    BY DEF FindingSet, SetOfFindings
  <1>9. Algebra!ScanAll
    <2>1. Algebra!Visited(disk) = ScanFiles
      BY DEF ScanFiles, Algebra!Visited
    <2>2. FindingSet' = Algebra!FindingsAmong(ScanFiles)
      BY <1>5, <1>8
    <2>3. FindingSet' = Algebra!ScanFindings(disk)
      BY <2>1, <2>2 DEF Algebra!ScanFindings
    <2>4. QED
      BY <1>2, <2>1, <2>3 DEF Algebra!ScanAll
  <1>10. QED
    BY <1>6, <1>7, <1>9, InStepIsInvariant

(* An update keeps everything in step, as UpdatePaths.                     *)
LEMMA UpdateKeeps ==
  ASSUME DistinctGranules, EngineIInv, NEW S \in SUBSET Paths, Update(S)
  PROVE  EngineIInv' /\ Algebra!UpdatePaths(S)
  <1>1. disk \in [Paths -> Contents] /\ indexed \in [Paths -> Contents]
    BY DEF EngineIInv, Algebra!FindingsTypeOK
  <1>2. PICK fresh \in FindingMaps(UpdatedIndex(S), UpdatedSets(S), UpdateCandidates(S)) :
          DiffTaken(Touched(S), fresh)
    BY UpdateTakesDiff
  <1>3. /\ index' = IF RatioAboveQuarter(UpdatedIndex(S)) THEN Compact(UpdatedIndex(S))
                                                         ELSE UpdatedIndex(S)
        /\ unique_sets' = UpdatedSets(S) /\ indexed' = Processed(S) /\ disk' = disk
    BY UpdateUnfolds
  <1>4. UpdatedAs(S, findings') /\ IsMap(findings')
    <2>1. findings' = Merged(fresh, (Touched(S) \cap DOMAIN findings) \ DOMAIN fresh)
      BY <1>2 DEF DiffTaken
    <2>2. IsMap(Merged(fresh, (Touched(S) \cap DOMAIN findings) \ DOMAIN fresh))
      BY DEF Merged, IsMap
    <2>3. QED
      BY <2>1, <2>2, UpdatedFindings
  <1>5. Processed(S) \in [Paths -> Contents]
    BY <1>1, ProcessedEntries
  <1>6. /\ Holds(UpdatedIndex(S), UpdatedSets(S), Entries(Paths, Processed(S)))
        /\ DOMAIN UpdatedSets(S) = KeysOf(Entries(Paths, Processed(S)))
    BY UpdatedHolds
  <1>7. Holds(index', UpdatedSets(S), Entries(Paths, Processed(S)))
    BY <1>3, <1>6, CompactHolds
  <1>8. InStep(index', unique_sets', indexed', findings')
    BY <1>3, <1>4, <1>6, <1>7 DEF InStep, UpdatedAs
  <1>9. Algebra!FindingsTypeOK'
    BY <1>1, <1>3, <1>5 DEF Algebra!FindingsTypeOK
  <1>10. FindingSet' = SetOfFindings(findings')
    BY DEF FindingSet, SetOfFindings
  <1>11. Algebra!UpdatePaths(S)
    BY <1>3, <1>4, <1>10 DEF Algebra!UpdatePaths, UpdatedAs, Processed
  <1>12. QED
    BY <1>8, <1>9, <1>11, InStepIsInvariant

(* Every step keeps the invariant and is a step of the algebra, or none.   *)
LEMMA EngineStep ==
  ASSUME DistinctGranules, EngineIInv, [EngineNext]_engineVars
  PROVE  EngineIInv' /\ [Algebra!FindingsNext]_(Algebra!findingsVars)
  <1>1. ASSUME NEW p \in Paths, NEW c \in Contents, EditFile(p, c)
        PROVE  EngineIInv' /\ Algebra!FindingsNext
    BY <1>1, EditKeeps DEF Algebra!FindingsNext
  <1>2. CASE InitialScan
    BY <1>2, ScanKeeps DEF Algebra!FindingsNext
  <1>3. ASSUME NEW S \in SUBSET Paths, Update(S)
        PROVE  EngineIInv' /\ Algebra!FindingsNext
    BY <1>3, UpdateKeeps DEF Algebra!FindingsNext
  <1>4. CASE UNCHANGED engineVars
    <2>1. UNCHANGED <<disk, indexed, index, unique_sets, findings>>
      BY <1>4 DEF engineVars
    <2>2. Algebra!FindingsTypeOK'
      BY <2>1 DEF EngineIInv, Algebra!FindingsTypeOK
    <2>3. InStep(index', unique_sets', indexed', findings')
      BY <2>1, InStepIsInvariant
    <2>4. UNCHANGED Algebra!findingsVars
      BY <2>1 DEF Algebra!findingsVars, FindingSet
    <2>5. QED
      BY <2>2, <2>3, <2>4, InStepIsInvariant
  <1>5. QED
    BY <1>1, <1>2, <1>3, <1>4 DEF EngineNext

(* The invariant holds for ever.                                           *)
LEMMA EngineInvariant ==
  ASSUME DistinctGranules
  PROVE  EngineSpec => []EngineIInv
  <1>1. EngineInit => EngineIInv
    BY EngineStarts
  <1>2. EngineIInv /\ [EngineNext]_engineVars => EngineIInv'
    BY EngineStep
  <1>3. QED
    BY <1>1, <1>2, PTL DEF EngineSpec

(* The exact sets and live entries are current when they hold the entries. *)
LEMMA InvariantIsConsistent ==
  ASSUME EngineIInv
  PROVE  EngineConsistent
  <1> DEFINE E == Entries(Paths, indexed)
             Line(e) == [path |-> e.path, granule |-> e.item.granule, sketch |-> e.item.sketch]
             Row(i) == [path |-> index.files[i].path, granule |-> index.files[i].granule,
                        sketch |-> index.sketches[i]]
  <1>1. /\ Holds(index, unique_sets, E) /\ DOMAIN unique_sets = KeysOf(E)
        /\ indexed \in [Paths -> Contents] /\ Algebra!FindingsTypeOK /\ FindingsTyped
    BY DEF EngineIInv, Algebra!FindingsTypeOK
  <1>2. IndexTypeOK
    BY <1>1, GoodIsConsistent DEF Holds, IndexConsistent
  <1>3. \A e \in E : Algebra!Key(e) \in ItemKeys
    <2>1. Paths \in SUBSET Paths
      OBVIOUS
    <2>2. QED
      BY <1>1, <2>1, EntryFacts
  <1>4. EngineTypeOK
    BY <1>1, <1>2, <1>3 DEF EngineTypeOK, KeysOf, FindingsTyped, ItemPairs
  <1>5. \A i : \A e : StandsFor(index, unique_sets, i, e) => Row(i) = Line(e)
    BY DEF StandsFor
  <1>6. \A e \in E : \E i \in LiveIds(index) : StandsFor(index, unique_sets, i, e)
    BY <1>1 DEF Holds
  <1>7. \A i \in LiveIds(index) : \E e \in E : StandsFor(index, unique_sets, i, e)
    BY <1>1 DEF Holds
  <1> HIDE DEF E, Row, Line
  <1>8. {Row(i) : i \in LiveIds(index)} = {Line(e) : e \in E}
    BY <1>5, <1>6, <1>7
  <1>9. ASSUME NEW e \in E
        PROVE  unique_sets[Algebra!Key(e)] = e.item.set
    <2>1. PICK i \in LiveIds(index) : StandsFor(index, unique_sets, i, e)
      BY <1>6
    <2>2. QED
      BY <2>1, StandsForKey DEF StandsFor
  <1>10. CachesCurrent
    BY <1>1, <1>8, <1>9 DEF CachesCurrent, E, Row, Line, Entries, KeysOf
  <1>11. QED
    BY <1>4, <1>10 DEF EngineConsistent

-----------------------------------------------------------------------------
(***************************************************************************)
(* What the engine keeps of the contents is in step with them: the live    *)
(* entries of the index and the exact sets are those of the contents last  *)
(* processed, through any history of edits, scans and updates, if no two   *)
(* items of a content have one key.                                        *)
(***************************************************************************)
THEOREM EngineStaysConsistent ==
  ASSUME DistinctGranules
  PROVE  EngineSpec => []EngineConsistent
  <1>1. EngineIInv => EngineConsistent
    BY InvariantIsConsistent
  <1>2. QED
    BY <1>1, EngineInvariant, PTL

(***************************************************************************)
(* Each update changes the findings exactly as the algebra does, though it *)
(* works on ids, tombstones and buckets and compacts in between.           *)
(***************************************************************************)
THEOREM EngineImplementsAlgebra ==
  ASSUME DistinctGranules
  PROVE  EngineSpec => ImplementsAlgebra
  <1>1. EngineInit => Algebra!FindingsInit
    BY EngineStarts
  <1>2. EngineIInv /\ [EngineNext]_engineVars =>
          [Algebra!FindingsNext]_(Algebra!findingsVars)
    BY EngineStep
  <1>3. QED
    BY <1>1, <1>2, EngineInvariant, PTL DEF EngineSpec, ImplementsAlgebra, Algebra!FindingsSpec

(* The theorems about the algebra, for the filters of the engine.          *)
AlgebraP == INSTANCE IncrementalFindingsProofs WITH
  Items <- ItemSets, ShareBand <- ItemsShareBand, SketchClose <- ItemsClose,
  Verdict <- ItemsVerdict, Rejected <- NoOverlap, findings <- FindingSet

(* The filters of the engine are those the algebra asks for.               *)
LEMMA SymmetricFilters == AlgebraP!FindingsAssumption
  BY FiltersSymmetric DEF AlgebraP!FindingsAssumption, AlgebraP!AllItems, Algebra!AllItems

(* The engine's steps are those of the algebra.                            *)
LEMMA AlgebraSpec ==
  ASSUME DistinctGranules
  PROVE  EngineSpec => AlgebraP!FindingsSpec
  <1>1. AlgebraP!FindingsInit <=> Algebra!FindingsInit
    BY DEF AlgebraP!FindingsInit, Algebra!FindingsInit
  <1>2. AlgebraP!FindingsNext <=> Algebra!FindingsNext
    BY DEF AlgebraP!FindingsNext, Algebra!FindingsNext,
      AlgebraP!EntriesOf, Algebra!EntriesOf, AlgebraP!AllItems, Algebra!AllItems,
      AlgebraP!Edit, Algebra!Edit, AlgebraP!ScanAll, Algebra!ScanAll,
      AlgebraP!UpdatePaths, Algebra!UpdatePaths,
      AlgebraP!FindingsAmong, Algebra!FindingsAmong,
      AlgebraP!ScanFindings, Algebra!ScanFindings, AlgebraP!Visited, Algebra!Visited,
      AlgebraP!FindingsBetween, Algebra!FindingsBetween,
      AlgebraP!IsFinding, Algebra!IsFinding,
      AlgebraP!Finding, Algebra!Finding,
      AlgebraP!Partners, Algebra!Partners,
      AlgebraP!PairKey, Algebra!PairKey,
      AlgebraP!Key, Algebra!Key,
      AlgebraP!TouchedBefore, Algebra!TouchedBefore,
      AlgebraP!TouchedAfter, Algebra!TouchedAfter
  <1>3. [Algebra!FindingsNext]_Algebra!findingsVars => [AlgebraP!FindingsNext]_AlgebraP!findingsVars
    BY <1>2 DEF AlgebraP!findingsVars, Algebra!findingsVars
  <1>4. Algebra!FindingsSpec => AlgebraP!FindingsSpec
    BY <1>1, <1>3, PTL DEF Algebra!FindingsSpec, AlgebraP!FindingsSpec
  <1>5. QED
    BY <1>4, EngineImplementsAlgebra, PTL DEF ImplementsAlgebra

(***************************************************************************)
(* The findings among the files the walk visits, after any sequence of     *)
(* edits and updates in any batches, updates of excluded files included,   *)
(* are those a one-shot scan of the contents last processed reports: the   *)
(* round trip of the algebra, carried over to the engine.                  *)
(***************************************************************************)
THEOREM EngineMatchesScan ==
  ASSUME DistinctGranules
  PROVE  EngineSpec => []MatchesFullScan
  <1>1. AlgebraP!FindingsSpec => []AlgebraP!RoundTrip
    BY SymmetricFilters, AlgebraP!FindingsRoundTrip
  <1>2. AlgebraP!RoundTrip <=> Algebra!RoundTrip
    BY DEF AlgebraP!RoundTrip, Algebra!RoundTrip,
      AlgebraP!EntriesOf, Algebra!EntriesOf, AlgebraP!AllItems, Algebra!AllItems,
      AlgebraP!FindingsAmong, Algebra!FindingsAmong,
      AlgebraP!ScanFindings, Algebra!ScanFindings, AlgebraP!Visited, Algebra!Visited,
      AlgebraP!FindingsBetween, Algebra!FindingsBetween,
      AlgebraP!IsFinding, Algebra!IsFinding,
      AlgebraP!Finding, Algebra!Finding,
      AlgebraP!Partners, Algebra!Partners,
      AlgebraP!PairKey, Algebra!PairKey,
      AlgebraP!Key, Algebra!Key
  <1>3. QED
    BY <1>1, <1>2, AlgebraSpec, PTL DEF MatchesFullScan

(* The findings the engine holds are all there are among what it indexed.  *)
AllHeld(f, files) == SetOfFindings(f) = Algebra!FindingsAmong(files)

LEMMA EngineHoldsAll ==
  ASSUME DistinctGranules
  PROVE  EngineSpec => []AllHeld(findings, indexed)
  <1>1. AlgebraP!FindingsSpec => []AlgebraP!AllFound
    BY SymmetricFilters, AlgebraP!FindingsAreAll
  <1>2. AlgebraP!AllFound => AllHeld(findings, indexed)
    BY DEF AlgebraP!AllFound, AllHeld, SetOfFindings, FindingSet,
      AlgebraP!EntriesOf, Algebra!EntriesOf, AlgebraP!AllItems, Algebra!AllItems,
      AlgebraP!FindingsAmong, Algebra!FindingsAmong,
      AlgebraP!FindingsBetween, Algebra!FindingsBetween,
      AlgebraP!IsFinding, Algebra!IsFinding,
      AlgebraP!Finding, Algebra!Finding,
      AlgebraP!Partners, Algebra!Partners,
      AlgebraP!PairKey, Algebra!PairKey,
      AlgebraP!Key, Algebra!Key
  <1>3. QED
    BY <1>1, <1>2, AlgebraSpec, PTL

(* What is held of a pair is the overlap of the items of two contents.     *)
LEMMA HeldOverlap ==
  ASSUME NEW f, NEW files \in [Paths -> Contents], AllHeld(f, files), NEW pk \in DOMAIN f
  PROVE  \E k, l \in ItemKeys, c, d \in Contents :
           \E m \in DOMAIN Items[c], n \in DOMAIN Items[d] :
             pk = {k, l} /\ f[pk] = ExactOverlap(Items[c][m].set, Items[d][n].set)
  <1> DEFINE E == Entries(Paths, files)
             x == [pair |-> pk, verdict |-> f[pk]]
  <1>1. x \in Algebra!FindingsBetween(E, E)
    BY DEF AllHeld, SetOfFindings, Algebra!FindingsAmong, Entries
  <1>2. PICK e \in E, g \in E : Algebra!IsFinding(e, g) /\ x = Algebra!Finding(e, g)
    BY <1>1, BetweenElements
  <1>3. /\ pk = {Algebra!Key(e), Algebra!Key(g)}
        /\ f[pk] = ItemsVerdict(e.item, g.item) /\ f[pk] # NoOverlap
    BY <1>2 DEF Algebra!IsFinding, Algebra!Finding, Algebra!PairKey
  <1>4. f[pk] = ExactOverlap(e.item.set, g.item.set)
    BY <1>3 DEF ItemsVerdict
  <1>5. Algebra!Key(e) \in ItemKeys /\ Algebra!Key(g) \in ItemKeys
    BY EntryFacts
  <1> HIDE DEF x
  <1>6. files[e.path] \in Contents /\ files[g.path] \in Contents
    BY EntryFacts
  <1>7. e.item \in ItemSets[files[e.path]] /\ g.item \in ItemSets[files[g.path]]
    BY DEF Entries, Algebra!EntriesOf
  <1>8. PICK m \in 1..Len(Items[files[e.path]]) : e.item = Items[files[e.path]][m]
    BY <1>6, <1>7, ItemTypes
  <1>9. PICK n \in 1..Len(Items[files[g.path]]) : g.item = Items[files[g.path]][n]
    BY <1>6, <1>7, ItemTypes
  <1>10. /\ m \in DOMAIN Items[files[e.path]] /\ n \in DOMAIN Items[files[g.path]]
    BY <1>6, ItemTypes
  <1>11. QED
    BY <1>3, <1>4, <1>5, <1>6, <1>8, <1>9, <1>10

(* A fraction is not apart from itself.                                    *)
LEMMA NotApart ==
  ASSUME NEW n \in Nat, NEW d \in Nat
  PROVE  ~Apart(<<n, d>>, <<n, d>>)
  <1> DEFINE a == n * d
             b == d * d
  <1>1. a \in Nat /\ b \in Nat
    OBVIOUS
  <1>2. Apart(<<n, d>>, <<n, d>>) <=> EpsDen * (IF a < a THEN a - a ELSE a - a) > b
    BY DEF Apart
  <1>3. EpsDen \in Nat
    BY ClassifyAssumption
  <1> HIDE DEF a, b
  <1>4. (IF a < a THEN a - a ELSE a - a) = 0
    BY <1>1
  <1>5. EpsDen * 0 = 0
    BY <1>3
  <1>6. ~(0 > b)
    BY <1>1
  <1>7. QED
    BY <1>2, <1>4, <1>5, <1>6

(* A finding that stays as it is has not changed.                          *)
LEMMA SameNotChanged ==
  ASSUME NEW f, NEW files \in [Paths -> Contents], AllHeld(f, files),
         DOMAIN f \subseteq ItemPairs, Range(f) \subseteq Verdicts, NEW pk \in DOMAIN f
  PROVE  ~FindingChanged(pk, f[pk], f[pk])
  <1> DEFINE v == f[pk]
  <1>1. v.shared \in Nat /\ v.union \in Nat
    BY DEF Range, Verdicts
  <1>2. Classify(pk, v).score \in Nat \X Nat
    <2>1. PICK k \in ItemKeys, l \in ItemKeys, c \in Contents, d \in Contents :
            \E m \in DOMAIN Items[c], n \in DOMAIN Items[d] :
              pk = {k, l} /\ v = ExactOverlap(Items[c][m].set, Items[d][n].set)
      BY HeldOverlap
    <2>2. PICK m \in DOMAIN Items[c], n \in DOMAIN Items[d] :
            pk = {k, l} /\ v = ExactOverlap(Items[c][m].set, Items[d][n].set)
      BY <2>1
    <2>3. Classify({k, l}, ExactOverlap(Items[c][m].set, Items[d][n].set)).score \in Nat \X Nat
      BY ClassifyAssumption
    <2>4. QED
      BY <2>2, <2>3
  <1>3. ~Apart(<<v.shared, v.union>>, <<v.shared, v.union>>)
    BY <1>1, NotApart
  <1>4. ~Apart(Classify(pk, v).score, Classify(pk, v).score)
    <2>1. PICK n \in Nat, d \in Nat : Classify(pk, v).score = <<n, d>>
      BY <1>2
    <2>2. QED
      BY <2>1, NotApart
  <1> HIDE DEF v
  <1>5. ~FindingChanged(pk, v, v)
    BY <1>3, <1>4 DEF FindingChanged
  <1>6. QED
    BY <1>5 DEF v

(* The pairs of a set of findings are the keys of their map, and those     *)
(* whose finding changed are found in it.                                  *)
LEMMA PairsOfMap ==
  ASSUME NEW f, NEW g
  PROVE  /\ PairsOf(SetOfFindings(f)) = DOMAIN f
         /\ PairsOf({x \in SetOfFindings(g) : \E y \in SetOfFindings(f) :
                       y.pair = x.pair /\ FindingChanged(x.pair, y.verdict, x.verdict)})
              = ChangedPairs(DOMAIN g, f, g)
  <1> DEFINE at(m, pk) == [pair |-> pk, verdict |-> m[pk]]
             changed == {x \in SetOfFindings(g) : \E y \in SetOfFindings(f) :
                           y.pair = x.pair /\ FindingChanged(x.pair, y.verdict, x.verdict)}
  <1>1. \A m : SetOfFindings(m) = {at(m, pk) : pk \in DOMAIN m}
    BY DEF SetOfFindings
  <1>2. \A m, pk : at(m, pk).pair = pk /\ at(m, pk).verdict = m[pk]
    OBVIOUS
  <1> HIDE DEF at
  <1>3. PairsOf(SetOfFindings(f)) = DOMAIN f
    BY <1>1, <1>2 DEF PairsOf
  <1>4. ASSUME NEW x \in changed PROVE x.pair \in ChangedPairs(DOMAIN g, f, g)
    <2>1. PICK pk \in DOMAIN g : x = at(g, pk)
      BY <1>1
    <2>2. PICK y \in SetOfFindings(f) :
            y.pair = x.pair /\ FindingChanged(x.pair, y.verdict, x.verdict)
      OBVIOUS
    <2>3. PICK l \in DOMAIN f : y = at(f, l)
      BY <1>1, <2>2
    <2>4. /\ x.pair = pk /\ x.verdict = g[pk] /\ l = pk /\ y.verdict = f[pk]
      BY <1>2, <2>1, <2>2, <2>3
    <2>5. QED
      BY <2>2, <2>3, <2>4 DEF ChangedPairs
  <1>5. ASSUME NEW pk \in ChangedPairs(DOMAIN g, f, g) PROVE \E x \in changed : pk = x.pair
    <2>1. pk \in DOMAIN g /\ pk \in DOMAIN f /\ FindingChanged(pk, f[pk], g[pk])
      BY DEF ChangedPairs
    <2>2. at(g, pk) \in SetOfFindings(g) /\ at(f, pk) \in SetOfFindings(f)
      BY <1>1, <2>1
    <2>3. /\ at(g, pk).pair = pk /\ at(g, pk).verdict = g[pk]
          /\ at(f, pk).pair = pk /\ at(f, pk).verdict = f[pk]
      BY <1>2
    <2>4. at(g, pk) \in changed
      BY <2>1, <2>2, <2>3
    <2>5. QED
      BY <2>3, <2>4
  <1> HIDE DEF changed
  <1>6. PairsOf(changed) = ChangedPairs(DOMAIN g, f, g)
    BY <1>4, <1>5 DEF PairsOf
  <1>7. QED
    BY <1>3, <1>6 DEF changed

(* The diff between two maps of findings.                                  *)
DiffBetween(f, g, diff) ==
  /\ diff.added = DOMAIN g \ DOMAIN f
  /\ diff.removed = DOMAIN f \ DOMAIN g
  /\ diff.updated = ChangedPairs(DOMAIN g, f, g)

(* The loop takes the diff between the findings it starts from and those   *)
(* it leaves.                                                              *)
LEMMA UpdateDiff ==
  ASSUME DistinctGranules, EngineIInv, AllHeld(findings, indexed),
         NEW S \in SUBSET Paths, Update(S)
  PROVE  DiffBetween(findings, findings', result')
  <1>1. PICK fresh : DiffTaken(Touched(S), fresh)
    BY UpdateTakesDiff
  <1> DEFINE gone == (Touched(S) \cap DOMAIN findings) \ DOMAIN fresh
  <1>2. /\ DOMAIN findings' = (DOMAIN findings \ gone) \cup DOMAIN fresh
        /\ \A pk \in DOMAIN findings' :
             findings'[pk] = IF pk \in DOMAIN fresh THEN fresh[pk] ELSE findings[pk]
    BY <1>1 DEF DiffTaken, Merged
  <1>3. /\ result'.added = DOMAIN fresh \ DOMAIN findings
        /\ result'.removed = gone
        /\ result'.updated = ChangedPairs(DOMAIN fresh, findings, fresh)
    BY <1>1 DEF DiffTaken
  <1>4. \A pk \in DOMAIN findings : ~FindingChanged(pk, findings[pk], findings[pk])
    <2>1. /\ indexed \in [Paths -> Contents]
          /\ DOMAIN findings \subseteq ItemPairs /\ Range(findings) \subseteq Verdicts
      BY DEF EngineIInv, FindingsTyped, Algebra!FindingsTypeOK
    <2>2. QED
      BY <2>1, SameNotChanged
  <1>5. gone \subseteq DOMAIN findings /\ gone \cap DOMAIN fresh = {}
    OBVIOUS
  <1> HIDE DEF gone
  <1>6. result'.added = DOMAIN findings' \ DOMAIN findings
    BY <1>2, <1>3, <1>5
  <1>7. result'.removed = DOMAIN findings \ DOMAIN findings'
    BY <1>2, <1>3, <1>5
  <1>8. ChangedPairs(DOMAIN fresh, findings, fresh) = ChangedPairs(DOMAIN findings', findings, findings')
    BY <1>2, <1>4 DEF ChangedPairs
  <1>9. QED
    BY <1>3, <1>6, <1>7, <1>8 DEF DiffBetween

(***************************************************************************)
(* The diff an update returns is the difference between the findings of    *)
(* the contents indexed before and after it, each taken from nothing.      *)
(***************************************************************************)
THEOREM DiffIsExact ==
  ASSUME DistinctGranules
  PROVE  EngineSpec => DiffExact
  <1> DEFINE Exact ==
        (UNCHANGED disk /\ result'.of = "update") =>
          LET old == Algebra!FindingsAmong(indexed)
              new == Algebra!FindingsAmong(indexed')
          IN  /\ result'.added = PairsOf(new) \ PairsOf(old)
              /\ result'.removed = PairsOf(old) \ PairsOf(new)
              /\ result'.updated = PairsOf({x \in new : \E y \in old :
                   y.pair = x.pair /\ FindingChanged(x.pair, y.verdict, x.verdict)})
             Held == AllHeld(findings, indexed)
             HeldAfter == AllHeld(findings', indexed')
  <1>1. ASSUME NEW p \in Paths, NEW c \in Contents, EditFile(p, c)
        PROVE  UNCHANGED disk => UNCHANGED engineVars
    BY <1>1 DEF EditFile, engineVars
  <1>2. ASSUME InitialScan PROVE Exact
    BY <1>2 DEF InitialScan, NoDiff
  <1>3. ASSUME EngineIInv, Held, HeldAfter, NEW S \in SUBSET Paths, Update(S) PROVE Exact
    <2> DEFINE old == Algebra!FindingsAmong(indexed)
               new == Algebra!FindingsAmong(indexed')
    <2>1. DiffBetween(findings, findings', result')
      BY <1>3, UpdateDiff
    <2>2. SetOfFindings(findings) = old /\ SetOfFindings(findings') = new
      BY <1>3 DEF AllHeld
    <2>3. /\ PairsOf(SetOfFindings(findings)) = DOMAIN findings
          /\ PairsOf(SetOfFindings(findings')) = DOMAIN findings'
          /\ PairsOf({x \in SetOfFindings(findings') : \E y \in SetOfFindings(findings) :
                        y.pair = x.pair /\ FindingChanged(x.pair, y.verdict, x.verdict)})
               = ChangedPairs(DOMAIN findings', findings, findings')
      BY PairsOfMap
    <2> HIDE DEF old, new
    <2>4. /\ result'.added = PairsOf(new) \ PairsOf(old)
          /\ result'.removed = PairsOf(old) \ PairsOf(new)
          /\ result'.updated = PairsOf({x \in new : \E y \in old :
               y.pair = x.pair /\ FindingChanged(x.pair, y.verdict, x.verdict)})
      BY <2>1, <2>2, <2>3 DEF DiffBetween
    <2>5. QED
      BY <2>4 DEF old, new
  <1> HIDE DEF Held, HeldAfter, Exact
  <1>4. EngineIInv /\ Held /\ HeldAfter /\ [EngineNext]_engineVars => [Exact]_engineVars
    BY <1>1, <1>2, <1>3 DEF EngineNext, Exact
  <1>5. Held' <=> HeldAfter
    BY DEF Held, HeldAfter, AllHeld, SetOfFindings, Algebra!FindingsAmong,
      Algebra!FindingsBetween, Algebra!EntriesOf, Algebra!AllItems, ItemSets
  <1>6. EngineSpec => []Held
    BY EngineHoldsAll DEF Held
  <1>7. EngineSpec => [][Exact]_engineVars
    BY <1>4, <1>5, <1>6, EngineInvariant, PTL DEF EngineSpec
  <1>8. QED
    BY <1>7, PTL DEF DiffExact, Exact
=============================================================================
