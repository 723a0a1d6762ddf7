---------------------------- MODULE CommandsProofs ----------------------------
(***************************************************************************)
(* Proofs about Commands: a command leaves nothing behind but a whole      *)
(* index, a report shows one version of a file and tags what belongs to    *)
(* the project, the two backends agree, the tiers of a round follow the    *)
(* scores, a search finds what the index holds.  For any workspace,        *)
(* options and queries.                                                    *)
(***************************************************************************)
EXTENDS Commands, LshIndexProofs

-----------------------------------------------------------------------------
(* Sequences: what FlattenSeq returns.                                     *)

(* A function on 1 .. N is a sequence of what it yields.                   *)
LEMMA FunctionIsSequence ==
  ASSUME NEW N \in Nat, NEW f, f = [n \in 1 .. N |-> f[n]]
  PROVE  f \in Seq(Range(f)) /\ Len(f) = N /\ DOMAIN f = 1 .. N
  <1>1. DOMAIN f = 1 .. N
    OBVIOUS
  <1>2. f \in [1 .. N -> Range(f)]
    BY <1>1 DEF Range
  <1>3. QED
    BY <1>1, <1>2

Flattens(g, seqs) ==
  /\ g[0] = <<>>
  /\ \A k \in 1 .. Len(seqs) : g[k] = g[k - 1] \o seqs[k]

(* It appends one row after the other.                                     *)
LEMMA FlattenSteps ==
  ASSUME NEW T, NEW seqs \in Seq(Seq(T))
  PROVE  \E g \in [0 .. Len(seqs) -> Seq(T)] :
           Flattens(g, seqs) /\ FlattenSeq(seqs) = g[Len(seqs)]
  <1> DEFINE N == Len(seqs)
  <1>1. N \in Nat
    OBVIOUS
  <1>2. CASE N = 0
    <2> DEFINE g == [k \in 0 .. 0 |-> <<>>]
    <2>1. FlattenSeq(seqs) = <<>>
      BY <1>2 DEF FlattenSeq
    <2>2. g \in [0 .. N -> Seq(T)] /\ g[0] = <<>> /\ 1 .. N = {}
      BY <1>2
    <2> HIDE DEF g
    <2>3. QED
      BY <1>2, <2>1, <2>2 DEF Flattens
  <1>3. CASE N # 0
    <2> DEFINE h == CHOOSE f : f = [i \in 1..N |->
                                      IF i = 1 THEN seqs[i] ELSE f[i - 1] \o seqs[i]]
               g == [k \in 0 .. N |-> IF k = 0 THEN <<>> ELSE h[k]]
    <2>1. FlattenSeq(seqs) = h[N]
      BY <1>3 DEF FlattenSeq
    <2>2. IsFlatten(h, seqs, N)
      BY <1>1, FlattenExists DEF IsFlatten
    <2> HIDE DEF h
    <2>3. \A k \in 1 .. N : seqs[k] \in Seq(T)
      OBVIOUS
    <2>4. ASSUME NEW k \in 1 .. N
          PROVE  g[k] = g[k - 1] \o seqs[k]
      <3>1. h[k] = IF k = 1 THEN seqs[k] ELSE h[k - 1] \o seqs[k]
        <4> HIDE DEF N
        <4>1. h = [i \in 1..N |-> IF i = 1 THEN seqs[i] ELSE h[i - 1] \o seqs[i]]
          BY <2>2 DEF IsFlatten
        <4>2. QED
          BY <4>1
      <3>2. g[k] = h[k] /\ k - 1 \in 0 .. N
        BY <1>1
      <3>3. CASE k = 1
        <4>1. g[k - 1] = <<>>
          BY <3>3
        <4>2. <<>> \o seqs[k] = seqs[k]
          BY <2>3
        <4>3. QED
          BY <3>1, <3>2, <3>3, <4>1, <4>2
      <3>4. CASE k # 1
        <4>1. g[k - 1] = h[k - 1]
          BY <3>2, <3>4
        <4>2. QED
          BY <3>1, <3>2, <3>4, <4>1
      <3>5. QED
        BY <3>3, <3>4
    <2>5. g[0] = <<>> /\ g[N] = h[N] /\ DOMAIN g = 0 .. N /\ g = [k \in 0 .. N |-> g[k]]
      BY <1>1, <1>3
    <2> HIDE DEF g, N
    <2> DEFINE Bad == {k \in 0 .. N : g[k] \notin Seq(T)}
    <2>6. Bad = {}
      <3>1. SUFFICES ASSUME Bad # {} PROVE FALSE
        OBVIOUS
      <3>2. PICK k \in Bad : \A j \in Bad : k <= j
        <4>1. Bad \in SUBSET Nat
          BY <1>1
        <4> HIDE DEF Bad
        <4>2. QED
          BY <3>1, <4>1, LeastNumber
      <3>3. k # 0 /\ k \in 0 .. N
        <4>1. <<>> \in Seq(T)
          OBVIOUS
        <4>2. QED
          BY <2>5, <4>1
      <3>4. k \in 1 .. N /\ k - 1 \in 0 .. N /\ k - 1 \notin Bad
        BY <1>1, <3>2, <3>3
      <3>5. g[k - 1] \in Seq(T) /\ g[k] = g[k - 1] \o seqs[k] /\ seqs[k] \in Seq(T)
        BY <2>3, <2>4, <3>4
      <3>6. g[k] \in Seq(T)
        <4>1. g[k - 1] \o seqs[k] \in Seq(T)
          BY <3>5
        <4>2. QED
          BY <3>5, <4>1
      <3>7. QED
        BY <3>2, <3>6
    <2>7. g \in [0 .. N -> Seq(T)]
      BY <2>5, <2>6
    <2>8. Flattens(g, seqs)
      BY <2>4, <2>5 DEF Flattens, N
    <2>9. QED
      BY <2>1, <2>5, <2>7, <2>8 DEF N
  <1>4. QED
    BY <1>2, <1>3

(* What the rows hold, the result holds, and nothing else.                 *)
LEMMA FlattenType ==
  ASSUME NEW T, NEW seqs \in Seq(Seq(T))
  PROVE  FlattenSeq(seqs) \in Seq(T)
  <1>1. PICK g \in [0 .. Len(seqs) -> Seq(T)] :
          Flattens(g, seqs) /\ FlattenSeq(seqs) = g[Len(seqs)]
    BY FlattenSteps
  <1>2. Len(seqs) \in 0 .. Len(seqs)
    OBVIOUS
  <1>3. QED
    BY <1>1, <1>2

-----------------------------------------------------------------------------
(* Sorting by an order that leaves ties open.                              *)

Ordering(s, T, before) ==
  /\ s \in [1 .. Cardinality(T) -> T]
  /\ \A i, j \in 1 .. Cardinality(T) : s[i] = s[j] => i = j
  /\ \A i, j \in 1 .. Cardinality(T) : i <= j => <<s[j], s[i]>> \notin before

Orderings(T, before) == {s \in [1 .. Cardinality(T) -> T] : Ordering(s, T, before)}

Firsts(T, before) == {y \in T : \A z \in T : <<z, y>> \notin before}

(* What Sorted makes of a set, given what it makes of smaller ones.        *)
SortStep(f, T, before) ==
  IF T = {} THEN {<<>>}
  ELSE UNION {{<<x>> \o s : s \in f[T \ {x}]} :
                x \in {y \in T : \A z \in T : <<z, y>> \notin before}}

Prepended(r, x, rest) == \E s \in rest : r = <<x>> \o s

Sorts(r, f, T, before) == \E x \in Firsts(T, before) : Prepended(r, x, f[T \ {x}])

LEMMA SortStepElements ==
  ASSUME NEW f, NEW T, T # {}, NEW before, NEW r
  PROVE  r \in SortStep(f, T, before) <=> Sorts(r, f, T, before)
  <1> DEFINE All(x) == {<<x>> \o s : s \in f[T \ {x}]}
  <1>1. SortStep(f, T, before) = UNION {All(x) : x \in Firsts(T, before)}
    BY DEF SortStep, Firsts
  <1>2. \A x : r \in All(x) <=> Prepended(r, x, f[T \ {x}])
    BY DEF Prepended
  <1> HIDE DEF All
  <1>3. r \in SortStep(f, T, before) <=> \E x \in Firsts(T, before) : r \in All(x)
    BY <1>1
  <1>4. QED
    BY <1>2, <1>3 DEF Sorts

(* An ordering of a finite set reaches each element.                       *)
LEMMA OrderingOnto ==
  ASSUME NEW T, IsFiniteSet(T), NEW before, NEW s, Ordering(s, T, before)
  PROVE  \A x \in T : \E i \in 1 .. Cardinality(T) : s[i] = x
  <1> DEFINE N == Cardinality(T)
  <1>1. N \in Nat
    BY FS_CardinalityType
  <1>2. Cardinality(1 .. N) = N
    BY <1>1, FS_Interval
  <1>3. s \in Injection(1 .. N, T)
    BY DEF Ordering, Injection, IsInjective
  <1> HIDE DEF N
  <1>4. Cardinality(1 .. N) = Cardinality(T) <=> s \in Surjection(1 .. N, T)
    BY <1>3, FS_Injection
  <1>5. s \in Surjection(1 .. N, T)
    BY <1>2, <1>4 DEF N
  <1>6. QED
    BY <1>5 DEF Surjection, N

(* An ordering is a first element and an ordering of the rest.             *)
LEMMA FirstThenRest ==
  ASSUME NEW T, IsFiniteSet(T), T # {}, NEW before
  PROVE  \A r : r \in Orderings(T, before) <=>
           \E x \in Firsts(T, before) : Prepended(r, x, Orderings(T \ {x}, before))
  <1> DEFINE N == Cardinality(T)
  <1>1. N \in Nat /\ N # 0
    BY FS_CardinalityType, FS_EmptySet
  <1>2. \A x \in T : IsFiniteSet(T \ {x}) /\ Cardinality(T \ {x}) = N - 1
    BY FS_RemoveElement
  <1> HIDE DEF N
  <1>3. ASSUME NEW x \in Firsts(T, before), NEW s \in Orderings(T \ {x}, before)
        PROVE  <<x>> \o s \in Orderings(T, before)
    <2> DEFINE r == <<x>> \o s
    <2>1. x \in T /\ \A z \in T : <<z, x>> \notin before
      BY DEF Firsts
    <2>2. s \in [1 .. (N - 1) -> T \ {x}] /\ Ordering(s, T \ {x}, before)
      BY <1>2, <2>1 DEF Orderings
    <2>3. s \in Seq(T) /\ Len(s) = N - 1 /\ <<x>> \in Seq(T) /\ Len(<<x>>) = 1
      BY <1>1, <2>1, <2>2
    <2>4. r \in Seq(T) /\ Len(r) = N
      BY <1>1, <2>3
    <2>5. r[1] = x
      BY <1>1, <2>3
    <2>6. \A i \in 2 .. N : r[i] = s[i - 1] /\ i - 1 \in 1 .. (N - 1)
      BY <1>1, <2>3
    <2> HIDE DEF r
    <2>7. r \in [1 .. N -> T]
      BY <2>4
    <2>8. \A i \in 2 .. N : r[i] \in T \ {x}
      BY <2>2, <2>6
    <2>9. ASSUME NEW i \in 1 .. N, NEW j \in 1 .. N
          PROVE  /\ r[i] = r[j] => i = j
                 /\ i <= j => <<r[j], r[i]>> \notin before
      <3>1. CASE i = 1
        <4>1. r[j] \in T /\ (j # 1 => j \in 2 .. N)
          BY <1>1, <2>7
        <4>2. QED
          BY <2>1, <2>5, <2>8, <3>1, <4>1
      <3>2. CASE i # 1 /\ j = 1
        <4>1. i \in 2 .. N /\ ~(i <= j)
          BY <1>1, <3>2
        <4>2. QED
          BY <2>5, <2>8, <3>2, <4>1
      <3>3. CASE i # 1 /\ j # 1
        <4>1. i \in 2 .. N /\ j \in 2 .. N
          BY <1>1, <3>3
        <4>2. r[i] = s[i - 1] /\ r[j] = s[j - 1]
              /\ i - 1 \in 1 .. (N - 1) /\ j - 1 \in 1 .. (N - 1)
          BY <2>6, <4>1
        <4>3. /\ s[i - 1] = s[j - 1] => i - 1 = j - 1
              /\ i - 1 <= j - 1 => <<s[j - 1], s[i - 1]>> \notin before
          BY <1>2, <2>1, <2>2, <4>2 DEF Ordering
        <4>4. QED
          BY <1>1, <4>1, <4>2, <4>3
      <3>4. QED
        BY <3>1, <3>2, <3>3
    <2>10. Ordering(r, T, before)
      BY <2>7, <2>9 DEF Ordering, N
    <2>11. r \in Orderings(T, before)
      BY <2>10 DEF Orderings, Ordering
    <2>12. QED
      BY <2>11 DEF r
  <1>4. ASSUME NEW r \in Orderings(T, before)
        PROVE  \E x \in Firsts(T, before) : \E s \in Orderings(T \ {x}, before) : r = <<x>> \o s
    <2> DEFINE x == r[1]
               s == [i \in 1 .. (N - 1) |-> r[i + 1]]
    <2>1. Ordering(r, T, before) /\ r \in [1 .. N -> T]
      BY DEF Orderings, N
    <2>2. \A i, j \in 1 .. N : (r[i] = r[j] => i = j) /\ (i <= j => <<r[j], r[i]>> \notin before)
      BY <2>1 DEF Ordering, N
    <2>3. 1 \in 1 .. N /\ \A i \in 1 .. N : 1 <= i
      BY <1>1
    <2>4. x \in T
      BY <2>1, <2>3
    <2>5. x \in Firsts(T, before)
      <3>1. \A z \in T : \E i \in 1 .. N : r[i] = z
        <4>1. Ordering(r, T, before)
          BY <2>1
        <4>2. \A z \in T : \E i \in 1 .. Cardinality(T) : r[i] = z
          BY <4>1, OrderingOnto
        <4>3. QED
          BY <4>2 DEF N
      <3>2. \A z \in T : <<z, x>> \notin before
        BY <2>2, <2>3, <3>1
      <3>3. QED
        BY <2>4, <3>2 DEF Firsts
    <2>6. \A i \in 1 .. (N - 1) : i + 1 \in 1 .. N /\ i + 1 # 1
      BY <1>1
    <2>7. \A i \in 1 .. (N - 1) : s[i] = r[i + 1] /\ s[i] \in T \ {x}
      BY <2>1, <2>2, <2>3, <2>6
    <2>8. s \in [1 .. (N - 1) -> T \ {x}]
      BY <2>7
    <2>9. Ordering(s, T \ {x}, before)
      <3>1. \A i, j \in 1 .. (N - 1) : i <= j => i + 1 <= j + 1
        BY <1>1
      <3>2. \A i, j \in 1 .. (N - 1) : i + 1 = j + 1 => i = j
        BY <1>1
      <3>3. \A i, j \in 1 .. (N - 1) : s[i] = s[j] => i = j
        BY <2>2, <2>6, <2>7, <3>2
      <3>4. \A i, j \in 1 .. (N - 1) : i <= j => <<s[j], s[i]>> \notin before
        BY <2>2, <2>6, <2>7, <3>1
      <3> HIDE DEF s
      <3>5. QED
        BY <1>2, <2>4, <2>8, <3>3, <3>4 DEF Ordering
    <2>10. s \in Orderings(T \ {x}, before)
      BY <2>9 DEF Orderings, Ordering
    <2>11. r = <<x>> \o s
      <3>1. s \in Seq(T) /\ Len(s) = N - 1 /\ <<x>> \in Seq(T) /\ Len(<<x>>) = 1
        <4> HIDE DEF s
        <4>1. QED
          BY <1>1, <2>4, <2>8
      <3>2. r \in Seq(T) /\ Len(r) = N
        BY <1>1, <2>1
      <3>3. \A i \in 2 .. N : i - 1 \in 1 .. (N - 1) /\ s[i - 1] = r[i]
        BY <1>1
      <3> HIDE DEF s, x
      <3>4. <<x>> \o s \in Seq(T) /\ Len(<<x>> \o s) = N
        BY <1>1, <3>1
      <3>5. \A i \in 1 .. N : (<<x>> \o s)[i] = IF i = 1 THEN x ELSE s[i - 1]
        BY <1>1, <3>1
      <3>6. \A i \in 1 .. N : (<<x>> \o s)[i] = r[i]
        <4>1. TAKE i \in 1 .. N
        <4>2. CASE i = 1
          BY <3>5, <4>2 DEF x
        <4>3. CASE i # 1
          <5>1. i \in 2 .. N
            BY <1>1, <4>3
          <5>2. QED
            BY <3>3, <3>5, <4>3, <5>1
        <4>4. QED
          BY <4>2, <4>3
      <3>7. QED
        BY <3>2, <3>4, <3>6
    <2> HIDE DEF s, x
    <2>12. QED
      BY <2>5, <2>10, <2>11
  <1>5. QED
    BY <1>3, <1>4 DEF Prepended

(* What Sorted computes: the recursion has one solution, the orderings.    *)
LEMMA SortedOrderings ==
  ASSUME NEW S, IsFiniteSet(S), NEW before
  PROVE  Sorted(S, before) = Orderings(S, before)
  <1> DEFINE from == CHOOSE f : f = [T \in SUBSET S |->
                       IF T = {} THEN {<<>>}
                       ELSE UNION {{<<x>> \o s : s \in f[T \ {x}]} :
                                     x \in {y \in T : \A z \in T : <<z, y>> \notin before}}]
             g == [T \in SUBSET S |-> Orderings(T, before)]
  <1>1. Sorted(S, before) = from[S]
    BY DEF Sorted
  <1>2. from = CHOOSE f : f = [T \in SUBSET S |-> SortStep(f, T, before)]
    BY DEF SortStep
  <1> HIDE DEF from
  <1>3. \A T \in SUBSET S : IsFiniteSet(T)
    BY FS_Subset
  <1>4. \A T \in SUBSET S : \A x \in T : g[T \ {x}] = Orderings(T \ {x}, before)
    <2>1. \A T \in SUBSET S : \A x \in T : T \ {x} \in SUBSET S
      OBVIOUS
    <2>2. QED
      BY <2>1
  <1>5. ASSUME NEW T \in SUBSET S
        PROVE  g[T] = SortStep(g, T, before)
    <2>1. CASE T = {}
      <3>1. Cardinality(T) = 0
        BY <2>1, FS_EmptySet
      <3>2. \A s : s \in [1 .. 0 -> {}] <=> s = <<>>
        <4>1. <<>> \in [1 .. 0 -> {}]
          OBVIOUS
        <4>2. \A s \in [1 .. 0 -> {}] : s \in Seq({}) /\ Len(s) = 0
          OBVIOUS
        <4>3. \A s \in Seq({}) : Len(s) = 0 => s = <<>>
          OBVIOUS
        <4>4. QED
          BY <4>1, <4>2, <4>3
      <3>3. Ordering(<<>>, T, before)
        BY <2>1, <3>1 DEF Ordering
      <3>4. Orderings(T, before) = {<<>>}
        BY <2>1, <3>1, <3>2, <3>3 DEF Orderings
      <3>5. QED
        BY <2>1, <3>4 DEF SortStep
    <2>2. CASE T # {}
      <3>1. \A r : r \in Orderings(T, before) <=>
              \E x \in Firsts(T, before) : Prepended(r, x, Orderings(T \ {x}, before))
        BY <1>3, <2>2, FirstThenRest
      <3>2. g[T] = Orderings(T, before)
        OBVIOUS
      <3>3. \A x \in Firsts(T, before) : x \in T
        BY DEF Firsts
      <3>4. \A x \in Firsts(T, before) : g[T \ {x}] = Orderings(T \ {x}, before)
        BY <1>4, <3>3
      <3> HIDE DEF g
      <3>5. \A r : r \in SortStep(g, T, before) <=> Sorts(r, g, T, before)
        BY <2>2, SortStepElements
      <3>6. \A r : Sorts(r, g, T, before) <=>
              \E x \in Firsts(T, before) : Prepended(r, x, Orderings(T \ {x}, before))
        BY <3>4 DEF Sorts
      <3>7. \A r : r \in g[T] <=> r \in SortStep(g, T, before)
        BY <3>1, <3>2, <3>5, <3>6
      <3>8. QED
        BY <3>7
    <2>3. QED
      BY <2>1, <2>2
  <1>6. g = [T \in SUBSET S |-> SortStep(g, T, before)]
    <2>1. g = [T \in SUBSET S |-> g[T]]
      OBVIOUS
    <2> HIDE DEF g
    <2>2. QED
      BY <1>5, <2>1
  <1>7. \A T \in SUBSET S : from[T] = SortStep(from, T, before)
    <2> HIDE DEF g
    <2>1. from = [T \in SUBSET S |-> SortStep(from, T, before)]
      BY <1>2, <1>6
    <2>2. QED
      BY <2>1
  <1> HIDE DEF g
  <1> DEFINE Bad == {n \in Nat : \E T \in SUBSET S : Cardinality(T) = n /\ from[T] # g[T]}
  <1>8. Bad = {}
    <2>1. SUFFICES ASSUME Bad # {} PROVE FALSE
      OBVIOUS
    <2>2. PICK n \in Bad : \A m \in Bad : n <= m
      <3>1. Bad \in SUBSET Nat
        OBVIOUS
      <3> HIDE DEF Bad
      <3>2. QED
        BY <2>1, <3>1, LeastNumber
    <2>3. PICK T \in SUBSET S : Cardinality(T) = n /\ from[T] # g[T]
      OBVIOUS
    <2>4. ASSUME NEW x \in T
          PROVE  from[T \ {x}] = g[T \ {x}]
      <3>1. T \ {x} \in SUBSET S
        OBVIOUS
      <3>2. Cardinality(T \ {x}) = n - 1 /\ Cardinality(T \ {x}) \in Nat
        BY <1>3, <2>3, FS_RemoveElement, FS_CardinalityType
      <3>3. n \in Nat
        OBVIOUS
      <3>4. Cardinality(T \ {x}) \notin Bad
        <4> HIDE DEF Bad
        <4>1. QED
          BY <2>2, <3>2, <3>3
      <3>5. QED
        BY <3>1, <3>2, <3>4
    <2> HIDE DEF Bad
    <2>5. \A r : r \in SortStep(from, T, before) <=> r \in SortStep(g, T, before)
      <3>1. CASE T = {}
        BY <3>1 DEF SortStep
      <3>2. CASE T # {}
        <4>1. \A r : r \in SortStep(g, T, before) <=> Sorts(r, g, T, before)
          BY <3>2, SortStepElements
        <4>2. \A r : r \in SortStep(from, T, before) <=> Sorts(r, from, T, before)
          BY <3>2, SortStepElements
        <4>3. \A x \in Firsts(T, before) : x \in T
          BY DEF Firsts
        <4>4. \A x \in Firsts(T, before) : from[T \ {x}] = g[T \ {x}]
          BY <2>4, <4>3
        <4>5. \A r : Sorts(r, g, T, before) <=> Sorts(r, from, T, before)
          BY <4>4 DEF Sorts
        <4>6. QED
          BY <4>1, <4>2, <4>5
      <3>3. QED
        BY <3>1, <3>2
    <2>6. SortStep(from, T, before) = SortStep(g, T, before)
      BY <2>5
    <2>7. QED
      BY <1>5, <1>7, <2>3, <2>6
  <1>9. S \in SUBSET S /\ Cardinality(S) \in Nat
    BY FS_CardinalityType
  <1>10. from[S] = g[S]
    BY <1>8, <1>9
  <1>11. g[S] = Orderings(S, before)
    BY <1>9 DEF g
  <1>12. QED
    BY <1>1, <1>10, <1>11

-----------------------------------------------------------------------------
(* The items of a workspace.                                               *)

Content == Contents \cup {Absent}

AllParts(opts) == UNION {Range(Parts(p, c, opts)) : p \in Paths, c \in Contents}

WorkspaceItems(opts) ==
  {item \in {Item(p, part, opts) : p \in Paths, part \in AllParts(opts)} :
     item.hashes # <<>>}

(* A file has a sequence of parts.                                         *)
LEMMA PartsType ==
  ASSUME NEW p \in Paths, NEW c \in Contents, NEW opts
  PROVE  Parts(p, c, opts) \in Seq(AllParts(opts))
  <1>1. Parts(p, c, opts) \in Seq(Range(Parts(p, c, opts)))
    <2>1. CASE opts.granularity = "File"
      BY <2>1 DEF Parts, Range
    <2>2. CASE opts.granularity # "File" /\ LangOf[p] \in SlicedLangs
      <3>1. Parts(p, c, opts) = Functions(c)
        BY <2>2 DEF Parts
      <3>2. QED
        BY <3>1, ScanAssumption
    <2>3. CASE opts.granularity # "File" /\ LangOf[p] \notin SlicedLangs
      BY <2>3 DEF Parts
    <2>4. QED
      BY <2>1, <2>2, <2>3
  <1> DEFINE s == Parts(p, c, opts)
  <1>2. Range(s) \subseteq AllParts(opts)
    BY DEF AllParts
  <1> HIDE DEF s
  <1>3. s \in Seq(Range(s)) => s \in Seq(AllParts(opts))
    BY <1>2
  <1>4. QED
    BY <1>1, <1>3 DEF s

(* What a file gives are items of the workspace.                           *)
LEMMA ItemsOfType ==
  ASSUME NEW p \in Paths, NEW c \in Content, NEW opts
  PROVE  ItemsOf(p, c, opts) \in Seq(WorkspaceItems(opts))
  <1>1. CASE c = Absent \/ opts.onlyLang \notin {AnyLang, LangOf[p]}
    BY <1>1 DEF ItemsOf
  <1>2. CASE ~(c = Absent \/ opts.onlyLang \notin {AnyLang, LangOf[p]})
    <2> DEFINE parts == Parts(p, c, opts)
               rows == [n \in DOMAIN parts |->
                          IF Item(p, parts[n], opts).hashes = <<>> THEN <<>>
                          ELSE <<Item(p, parts[n], opts)>>]
    <2>1. ItemsOf(p, c, opts) = FlattenSeq(rows)
      BY <1>2 DEF ItemsOf
    <2>2. parts \in Seq(AllParts(opts))
      BY <1>2, PartsType DEF Content
    <2> HIDE DEF parts
    <2>3. ASSUME NEW n \in DOMAIN parts
          PROVE  rows[n] \in Seq(WorkspaceItems(opts))
      <3> DEFINE item == Item(p, parts[n], opts)
      <3>1. parts[n] \in AllParts(opts)
        BY <2>2
      <3>2. item.hashes # <<>> => item \in WorkspaceItems(opts)
        BY <3>1 DEF WorkspaceItems
      <3>3. rows[n] = IF item.hashes = <<>> THEN <<>> ELSE <<item>>
        OBVIOUS
      <3> HIDE DEF item, rows
      <3>4. QED
        BY <3>2, <3>3
    <2>4. DOMAIN parts = 1 .. Len(parts) /\ Len(parts) \in Nat
      BY <2>2
    <2>5. rows \in Seq(Seq(WorkspaceItems(opts)))
      <3>1. rows \in [1 .. Len(parts) -> Seq(WorkspaceItems(opts))]
        BY <2>3, <2>4
      <3> HIDE DEF rows
      <3>2. QED
        BY <2>4, <3>1
    <2> HIDE DEF rows
    <2>6. QED
      BY <2>1, <2>5, FlattenType
  <1>3. QED
    BY <1>1, <1>2

(* The walk's order has every path once.                                   *)
LEMMA PathOrderType == PathOrder \in Seq(Paths)
  <1> DEFINE N == Cardinality(Paths)
  <1>1. N \in Nat /\ Bijection(1 .. N, Paths) # {}
    BY ScanAssumption, FS_CardinalityType DEF ExistsBijection
  <1>2. PICK f \in [1 .. N -> Paths] : IsInjective(f)
    BY <1>1 DEF Bijection, Injection
  <1>3. PathOrder \in [1 .. N -> Paths]
    BY <1>2 DEF PathOrder, SetToSeq
  <1> HIDE DEF N
  <1>4. QED
    BY <1>1, <1>3

Collected(h, opts) ==
  FlattenSeq([n \in DOMAIN PathOrder |-> ItemsOf(PathOrder[n], h[PathOrder[n]], opts)])

(* What a command collects are items of the workspace.                     *)
LEMMA CollectedType ==
  ASSUME NEW h \in [Paths -> Content], NEW opts
  PROVE  Collected(h, opts) \in Seq(WorkspaceItems(opts))
  <1> DEFINE rows == [n \in DOMAIN PathOrder |->
                        ItemsOf(PathOrder[n], h[PathOrder[n]], opts)]
  <1>1. DOMAIN PathOrder = 1 .. Len(PathOrder) /\ Len(PathOrder) \in Nat
        /\ \A n \in 1 .. Len(PathOrder) : PathOrder[n] \in Paths
    BY PathOrderType
  <1>2. \A n \in 1 .. Len(PathOrder) : rows[n] \in Seq(WorkspaceItems(opts))
    BY <1>1, ItemsOfType
  <1>3. rows \in Seq(Seq(WorkspaceItems(opts)))
    <2>1. rows \in [1 .. Len(PathOrder) -> Seq(WorkspaceItems(opts))]
      BY <1>1, <1>2
    <2> HIDE DEF rows
    <2>2. QED
      BY <1>1, <2>1
  <1> HIDE DEF rows
  <1>4. FlattenSeq(rows) \in Seq(WorkspaceItems(opts))
    BY <1>3, FlattenType
  <1>5. QED
    BY <1>4 DEF Collected, rows

(* What a command may make of a workspace: each file has been read once.   *)
Workspaces(opts) == {Collected(h, opts) : h \in [Paths -> Content]}

LEMMA WorkspaceType ==
  ASSUME NEW opts, NEW its \in Workspaces(opts)
  PROVE  its \in Seq(WorkspaceItems(opts))
  BY CollectedType DEF Workspaces

(* The index a command makes of its items.                                 *)
IndexOf(its) == AddAll(EmptyIndex, LshEntries(its))

LEMMA IndexOfFields ==
  ASSUME NEW T, NEW its \in Seq(T)
  PROVE  /\ DOMAIN IndexOf(its).files = 1 .. Len(its)
         /\ Len(IndexOf(its).files) = Len(its)
         /\ \A n \in 1 .. Len(its) :
              /\ IndexOf(its).files[n].alive
              /\ IndexOf(its).files[n].path = its[n].path
              /\ IndexOf(its).sketches[n] = SketchOf(UniqueSet(its[n]))
         /\ IndexOf(its).buckets =
              UNION {BandKeys(SketchOf(UniqueSet(its[m]))) \X {m} : m \in 1 .. Len(its)}
  <1> DEFINE entries == LshEntries(its)
             files == [m \in DOMAIN entries |-> [path |-> entries[m].path,
                            granule |-> entries[m].granule, alive |-> TRUE]]
             sketches == [m \in DOMAIN entries |-> entries[m].sketch]
  <1>1. DOMAIN its = 1 .. Len(its) /\ Len(its) \in Nat
    OBVIOUS
  <1>2. DOMAIN entries = 1 .. Len(its)
    BY <1>1 DEF LshEntries
  <1>3. \A m \in 1 .. Len(its) : /\ entries[m].path = its[m].path
                                 /\ entries[m].sketch = SketchOf(UniqueSet(its[m]))
    BY <1>1 DEF LshEntries
  <1> HIDE DEF entries
  <1>4. /\ IndexOf(its).files = <<>> \o files
        /\ IndexOf(its).sketches = <<>> \o sketches
        /\ IndexOf(its).buckets = {} \cup UNION {BandKeys(entries[m].sketch) \X {0 + m} :
                                                   m \in DOMAIN entries}
    BY DEF IndexOf, AddAll, EmptyIndex, entries
  <1>5. files \in Seq(Range(files)) /\ Len(files) = Len(its) /\ DOMAIN files = 1 .. Len(its)
        /\ sketches \in Seq(Range(sketches)) /\ Len(sketches) = Len(its)
    <2>1. files = [m \in 1 .. Len(its) |-> files[m]]
          /\ sketches = [m \in 1 .. Len(its) |-> sketches[m]]
      BY <1>2
    <2> HIDE DEF files, sketches
    <2>2. QED
      BY <1>1, <2>1, FunctionIsSequence
  <1>6. \A m \in 1 .. Len(its) : /\ files[m].alive /\ files[m].path = entries[m].path
                                 /\ sketches[m] = entries[m].sketch
    BY <1>2
  <1> HIDE DEF files, sketches
  <1>7. IndexOf(its).files = files /\ IndexOf(its).sketches = sketches
    BY <1>4, <1>5
  <1>8. \A m \in 1 .. Len(its) : 0 + m = m
    BY <1>1
  <1>9. IndexOf(its).buckets =
          UNION {BandKeys(SketchOf(UniqueSet(its[m]))) \X {m} : m \in 1 .. Len(its)}
    BY <1>2, <1>3, <1>4, <1>8
  <1>10. QED
    BY <1>3, <1>5, <1>6, <1>7, <1>9

-----------------------------------------------------------------------------
(* The findings of a scan.                                                 *)

FoundIn(its, opts) ==
  {f \in (IF opts.naive THEN RunNaive(its, opts) ELSE RunLsh(its, IndexOf(its), opts)) :
     opts.granularity = "Function" => ~SameEndpoint(f[2])}

Classified(its, opts, i, j, v) ==
  <<<<i, j>>, ClassifyWithRoot(opts.root, v, EndOf(its[i]), EndOf(its[j]))>>

(* The overlap a backend computes for a pair.                              *)
VerdictOf(its, opts, ij) ==
  IF opts.naive
    THEN [shared |-> PairShared(its, opts.maxBucket, ij[1], ij[2]),
          union |-> Cardinality(UniqueSet(its[ij[1]])) + Cardinality(UniqueSet(its[ij[2]]))
                    - PairShared(its, opts.maxBucket, ij[1], ij[2])]
    ELSE Overlap(UniqueSet(its[ij[1]]), UniqueSet(its[ij[2]]))

(* The pairs of ids the index names are those of items, the lesser first.  *)
LEMMA CandidateIds ==
  ASSUME NEW T, NEW its \in Seq(T), NEW ij \in CandidatePairs(IndexOf(its))
  PROVE  /\ ij \in (1 .. Len(its)) \X (1 .. Len(its))
         /\ ij[1] < ij[2]
  <1> DEFINE ix == IndexOf(its)
             alive == {b \in ix.buckets : IsAlive(ix, b[2])}
  <1>1. \A b \in alive : b[2] \in 1 .. Len(its)
    BY IndexOfFields DEF IsAlive, Ids
  <1>2. ij \in {b[2] : b \in alive} \X {b[2] : b \in alive} /\ ij[1] < ij[2]
    BY DEF CandidatePairs
  <1> HIDE DEF alive
  <1>3. QED
    BY <1>1, <1>2

(* A finding is a pair of items with the verdict on it.                    *)
LEMMA FoundElements ==
  ASSUME NEW T, NEW its \in Seq(T), NEW opts, NEW f \in FoundIn(its, opts)
  PROVE  \E i, j \in 1 .. Len(its) :
           f = Classified(its, opts, i, j, VerdictOf(its, opts, <<i, j>>))
  <1>1. DOMAIN its = 1 .. Len(its)
    OBVIOUS
  <1>2. CASE opts.naive
    <2> DEFINE D == (DOMAIN its) \X (DOMAIN its)
               shared == [ij \in D |-> IF ij[1] > ij[2] THEN 0
                                       ELSE PairShared(its, opts.maxBucket, ij[1], ij[2])]
               union(ij) == Cardinality(UniqueSet(its[ij[1]]))
                            + Cardinality(UniqueSet(its[ij[2]])) - shared[ij]
    <2>1. f \in RunNaive(its, opts)
      BY <1>2 DEF FoundIn
    <2>2. PICK ij \in {c \in DOMAIN shared : shared[c] > 0 /\ shared[c] >= opts.minShared} :
            f = <<ij, ClassifyWithRoot(opts.root, [shared |-> shared[ij], union |-> union(ij)],
                                       EndOf(its[ij[1]]), EndOf(its[ij[2]]))>>
      BY <2>1 DEF RunNaive
    <2>3. ij \in D /\ shared[ij] > 0
      BY <2>2
    <2>4. PICK i \in 1 .. Len(its), j \in 1 .. Len(its) : ij = <<i, j>>
      BY <1>1, <2>3
    <2>5. shared[ij] = PairShared(its, opts.maxBucket, i, j)
      <3>1. shared[ij] = IF i > j THEN 0 ELSE PairShared(its, opts.maxBucket, i, j)
        BY <2>3, <2>4
      <3> HIDE DEF shared
      <3>2. QED
        BY <2>3, <3>1
    <2> HIDE DEF shared
    <2>6. QED
      BY <1>2, <2>2, <2>4, <2>5 DEF Classified, VerdictOf
  <1>3. CASE ~opts.naive
    <2>1. f \in RunLsh(its, IndexOf(its), opts)
      BY <1>3 DEF FoundIn
    <2>2. PICK ij \in CandidatePairs(IndexOf(its)) :
            f = <<ij, ClassifyWithRoot(opts.root,
                        Overlap(UniqueSet(its[ij[1]]), UniqueSet(its[ij[2]])),
                        EndOf(its[ij[1]]), EndOf(its[ij[2]]))>>
      BY <2>1 DEF RunLsh
    <2>3. PICK i \in 1 .. Len(its), j \in 1 .. Len(its) : ij = <<i, j>>
      BY CandidateIds
    <2>4. QED
      BY <1>3, <2>2, <2>3 DEF Classified, VerdictOf
  <1>4. QED
    BY <1>2, <1>3

(* There are finitely many, one for a pair.                                *)
LEMMA FoundFinite ==
  ASSUME NEW T, NEW its \in Seq(T), NEW opts
  PROVE  /\ IsFiniteSet(FoundIn(its, opts))
         /\ \A f, g \in FoundIn(its, opts) : f[1] = g[1] => f = g
  <1> DEFINE F == FoundIn(its, opts)
             D == (1 .. Len(its)) \X (1 .. Len(its))
             pairOf == [f \in F |-> f[1]]
  <1>1. IsFiniteSet(D)
    <2>1. 1 \in Int /\ Len(its) \in Int
      OBVIOUS
    <2>2. IsFiniteSet(1 .. Len(its))
      BY <2>1, FS_Interval
    <2>3. QED
      BY <2>2, FS_Product
  <1>2. ASSUME NEW f \in F
        PROVE  f[1] \in D
    <2>1. PICK i \in 1 .. Len(its), j \in 1 .. Len(its) :
            f = Classified(its, opts, i, j, VerdictOf(its, opts, <<i, j>>))
      BY FoundElements
    <2>2. f[1] = <<i, j>>
      BY <2>1 DEF Classified
    <2>3. QED
      BY <2>2
  <1>3. ASSUME NEW f \in F, NEW g \in F, f[1] = g[1]
        PROVE  f = g
    <2>1. PICK i \in 1 .. Len(its), j \in 1 .. Len(its) :
            f = Classified(its, opts, i, j, VerdictOf(its, opts, <<i, j>>))
      BY FoundElements
    <2>2. PICK k \in 1 .. Len(its), l \in 1 .. Len(its) :
            g = Classified(its, opts, k, l, VerdictOf(its, opts, <<k, l>>))
      BY FoundElements
    <2>3. i = k /\ j = l
      BY <1>3, <2>1, <2>2 DEF Classified
    <2>4. QED
      BY <2>1, <2>2, <2>3
  <1> HIDE DEF F, D
  <1>4. pairOf \in Injection(F, D)
    BY <1>2, <1>3 DEF Injection, IsInjective
  <1>5. IsFiniteSet(F)
    BY <1>1, <1>4, FS_Injection
  <1>6. QED
    BY <1>3, <1>5 DEF F

-----------------------------------------------------------------------------
(* The invariant.                                                          *)

Running(name, stage, opts) == [name |-> name, stage |-> stage, opts |-> opts]

ServeOpts(srv) ==
  [granularity |-> srv.settings.granularity, blind |-> srv.settings.blind,
   k |-> "default", onlyLang |-> AnyLang, exclude |-> srv.settings.exclude,
   min |-> srv.settings.minJaccard, naive |-> FALSE, root |-> srv.root]

(* The commands there are, with the stages each goes through.              *)
CommandIs(c, srv) ==
  \/ c = NoCommand
  \/ \E stage \in {"read", "items", "html"}, opts \in ScanOpts : c = Running("scan", stage, opts)
  \/ /\ srv.up
     /\ \E stage \in {"read", "items"} : c = Running("serve", stage, ServeOpts(srv))
  \/ \E stage \in {"read", "items", "create", "write"}, opts \in IndexOpts :
       c = Running("index", stage, opts)
  \/ \E stage \in {"read", "items", "query"}, opts \in AskingOpts :
       c = Running("search", stage, opts)

CommandInv == CommandIs(command, server)

DiskInv ==
  /\ disk \in [Paths -> Content]
  /\ edits \in 0 .. MaxEdits /\ ran \in 0 .. MaxCommands

ReadInv ==
  /\ todo \subseteq Paths \ Excluded /\ (todo # {} => At("read"))
  /\ held \in [Paths -> Content] /\ (held # NothingHeld => At("read"))

ItemsInv ==
  /\ At("items") => items \in Workspaces(command.opts)
  /\ items # <<>> => At("items")
  /\ index = IndexOf(items)

(* While a command reads, the report of the one before is gone.            *)
FreshInv == At("read") \/ At("items") => report = NoReport /\ html = NoHtml

(* A report is a sorting of what the items in it give.                     *)
ReportOf(r, opts, its) ==
  r = [findings |-> r.findings, items |-> its, opts |-> opts]
  /\ Ordering(r.findings, FoundIn(its, opts), ByScoreAndShared(FoundIn(its, opts)))

ReportIs(r) ==
  \/ r = NoReport
  \/ \E opts \in ScanOpts : \E its \in Workspaces(opts) : ReportOf(r, opts, its)

ReportInv == ReportIs(report)

(* A pane shows what the cache holds of its file.                          *)
PanesOf(h) ==
  /\ h = [cache |-> h.cache, panes |-> h.panes]
  /\ h.panes \in Seq(Range(h.panes))
  /\ \A n \in 1 .. Len(h.panes) :
       /\ h.panes[n].end.path \in DOMAIN h.cache
       /\ h.panes[n].shows = h.cache[h.panes[n].end.path]

RenderedOf(r) == SubSeq(r.findings, 1, Min({r.opts.top, Len(r.findings)}))

HtmlIs(h, r) == PanesOf(h) /\ Len(h.panes) <= 2 * Len(RenderedOf(r))

HtmlInv == HtmlIs(html, report)

(* What is published is a sorting of the findings served, ranked.          *)
RoundOf(F, groups, settings) ==
  \E s : Ordering(s, F, ByScore(F)) /\ groups = Group(Ranked(s, settings))

ServedBy(F, opts) == \E its \in Workspaces(opts) : F = FoundIn(its, opts)

RoundIs(srv, F, groups) ==
  \/ F = {} /\ groups = [p \in Paths |-> {}]
  \/ srv.up /\ ServedBy(F, ServeOpts(srv)) /\ RoundOf(F, groups, srv.settings)

RoundInv == RoundIs(server, served, byFile)

ServerIs(srv) ==
  \/ srv = NoServer
  \/ \E given \in Givens, params \in Params :
       srv = [given |-> given, settings |-> Resolve(given).settings,
              root |-> WorkspaceRoot(params), up |-> TRUE]

ServerInv == ServerIs(server)

AnswersTo(si, query) ==
  IF query.kind = "snippet" THEN SnippetAnswers(si, query) ELSE KeywordAnswers(si, query)

AnswerIs(a, B) ==
  \/ a = NoAnswer
  \/ \E si \in B, query \in AllQueries : \E matches \in AnswersTo(si, query) :
       a = [query |-> query, matches |-> matches, of |-> si]

IsBuilt(si) ==
  \E opts \in IndexOpts \cup AskingOpts : \E its \in Workspaces(opts) :
    si = BuildIndex(its, opts)

(* Every index there is, but a file that is cut short, was built whole.    *)
SavedInv ==
  /\ savedIndex \in {NoFile, Torn} \cup built
  /\ command.stage \in {"create", "write", "query"} => searchIndex \in built
  /\ command.stage \notin {"create", "write", "query"} => searchIndex = NoIndex
  /\ AnswerIs(answer, built)
  /\ \A si \in built : IsBuilt(si)

CommandsIInv ==
  /\ CommandInv /\ DiskInv /\ ReadInv /\ ItemsInv /\ FreshInv /\ ReportInv /\ HtmlInv
  /\ ServerInv /\ RoundInv /\ SavedInv

-----------------------------------------------------------------------------
(* What the parts need of the values.                                      *)

(* The index of no items is empty.                                         *)
LEMMA IndexOfNothing == IndexOf(<<>>) = EmptyIndex
  <1>1. LshEntries(<<>>) = <<>>
    BY DEF LshEntries
  <1>2. AddAll(EmptyIndex, <<>>) = EmptyIndex
    <2>1. \A f : [m \in DOMAIN <<>> |-> f[m]] = <<>>
      OBVIOUS
    <2> DEFINE files == [m \in DOMAIN <<>> |-> [path |-> <<>>[m].path,
                               granule |-> <<>>[m].granule, alive |-> TRUE]]
               sketches == [m \in DOMAIN <<>> |-> <<>>[m].sketch]
               pairs == UNION {BandKeys(<<>>[m].sketch) \X {0 + m} : m \in DOMAIN <<>>}
    <2>2. files = <<>> /\ sketches = <<>> /\ pairs = {}
      OBVIOUS
    <2>3. <<>> \o <<>> = <<>> /\ Len(<<>>) = 0
      OBVIOUS
    <2> DEFINE R == AddAll(EmptyIndex, <<>>)
               ids == [p \in Paths |-> {} \cup {0 + m : m \in {i \in DOMAIN <<>> : <<>>[i].path = p}}]
    <2>4. ids = [p \in Paths |-> {}]
      OBVIOUS
    <2>5. EmptyIndex = [files |-> <<>>, sketches |-> <<>>, buckets |-> {},
                        path_to_ids |-> [p \in Paths |-> {}], tombstoned |-> 0]
      BY DEF EmptyIndex
    <2> DEFINE E == EmptyIndex
    <2>6. R = [E EXCEPT !.files = E.files \o files, !.sketches = E.sketches \o sketches,
                        !.buckets = E.buckets \cup pairs, !.path_to_ids = ids]
      BY <2>3, <2>5 DEF AddAll
    <2> HIDE DEF files, sketches, pairs, ids, R
    <2>7. QED
      BY <2>2, <2>3, <2>4, <2>5, <2>6, ZenonT(60) DEF R
  <1>3. QED
    BY <1>1, <1>2 DEF IndexOf

LEMMA NothingHeldType == NothingHeld \in [Paths -> Content]
  BY DEF NothingHeld, Content

(* A report that was sorted is one.                                        *)
LEMMA SortedReport ==
  ASSUME NEW opts \in ScanOpts, NEW its \in Workspaces(opts),
         NEW s \in Sorted(FoundIn(its, opts), ByScoreAndShared(FoundIn(its, opts)))
  PROVE  ReportIs([findings |-> s, items |-> its, opts |-> opts])
  <1> DEFINE F == FoundIn(its, opts)
             r == [findings |-> s, items |-> its, opts |-> opts]
  <1>1. IsFiniteSet(F)
    BY WorkspaceType, FoundFinite
  <1> HIDE DEF F
  <1>2. s \in Orderings(F, ByScoreAndShared(F))
    BY <1>1, SortedOrderings DEF F
  <1>3. Ordering(s, F, ByScoreAndShared(F))
    BY <1>2 DEF Orderings
  <1>4. r.findings = s
    OBVIOUS
  <1>5. ReportOf(r, opts, its)
    BY <1>3, <1>4 DEF ReportOf, F
  <1>6. QED
    BY <1>5 DEF ReportIs

(* The findings of a report are a sequence, and the panes are bounded.     *)
LEMMA ReportFindings ==
  ASSUME NEW r, ReportIs(r)
  PROVE  /\ r.findings \in Seq(Range(r.findings))
         /\ r.opts.top \in Nat
         /\ Len(RenderedOf(r)) \in Nat
         /\ RenderedOf(r) \in Seq(Range(r.findings))
  <1>1. r.findings \in Seq(Range(r.findings)) /\ r.opts.top \in Nat
    <2>1. CASE r = NoReport
      BY <2>1 DEF NoReport, Range
    <2>2. CASE r # NoReport
      <3>1. PICK opts \in ScanOpts : \E its \in Workspaces(opts) :
              ReportOf(r, opts, its)
        BY <2>2 DEF ReportIs
      <3>2. PICK its \in Workspaces(opts) : ReportOf(r, opts, its)
        BY <3>1
      <3> DEFINE F == FoundIn(its, opts)
                 N == Cardinality(F)
      <3>3. N \in Nat
        BY WorkspaceType, FoundFinite, FS_CardinalityType
      <3>4. r.findings \in [1 .. N -> F] /\ r.opts = opts
        BY <3>2 DEF ReportOf, Ordering
      <3> HIDE DEF N, F
      <3>5. r.findings = [n \in 1 .. N |-> r.findings[n]]
        BY <3>4
      <3>6. r.opts.top \in Nat
        BY <3>4, CommandsAssumption
      <3>7. QED
        BY <3>3, <3>5, <3>6, FunctionIsSequence
    <2>3. QED
      BY <2>1, <2>2
  <1> DEFINE s == r.findings
             top == r.opts.top
  <1>2. Min({top, Len(s)}) \in 0 .. Len(s)
    <2>1. Len(s) \in Nat /\ top \in Nat
      BY <1>1
    <2> HIDE DEF s, top
    <2>2. \E x \in {top, Len(s)} : \A y \in {top, Len(s)} : x <= y
      BY <2>1
    <2>3. Min({top, Len(s)}) \in {top, Len(s)}
          /\ \A y \in {top, Len(s)} : Min({top, Len(s)}) <= y
      BY <2>2 DEF Min
    <2>4. QED
      BY <2>1, <2>3
  <1>3. RenderedOf(r) = SubSeq(s, 1, Min({top, Len(s)}))
    BY DEF RenderedOf
  <1> HIDE DEF s, top
  <1>4. RenderedOf(r) \in Seq(Range(s)) /\ Len(RenderedOf(r)) \in Nat
    <2>1. s \in Seq(Range(s))
      BY <1>1 DEF s
    <2> DEFINE m == Min({top, Len(s)})
    <2> HIDE DEF m
    <2>2. m \in 0 .. Len(s)
      BY <1>2 DEF m
    <2>3. SubSeq(s, 1, m) \in Seq(Range(s))
      BY <2>1, <2>2
    <2>4. RenderedOf(r) \in Seq(Range(s))
      BY <1>3, <2>3 DEF m
    <2>5. QED
      BY <2>4
  <1>5. QED
    BY <1>1, <1>4 DEF s, top

-----------------------------------------------------------------------------
(* The steps.  What the stage of a command says of it.                     *)
LEMMA StageFacts ==
  ASSUME NEW c, NEW srv, CommandIs(c, srv)
  PROVE  /\ c.stage \in StagesOf[c.name]
         /\ c.stage = "idle" => c = NoCommand
         /\ c.stage # "idle" => c = Running(c.name, c.stage, c.opts)
         /\ c.name = "scan" => c.opts \in ScanOpts
         /\ c.name = "serve" => srv.up /\ c.opts = ServeOpts(srv)
         /\ c.name = "index" => c.opts \in IndexOpts
         /\ c.name = "search" => c.opts \in AskingOpts
         /\ c.stage = "html" => c.name = "scan"
         /\ c.stage \in {"create", "write"} => c.name = "index"
         /\ c.stage = "query" => c.name = "search"
  <1> USE DEF Running, StagesOf
  <1>1. CASE c = NoCommand
    BY <1>1 DEF NoCommand
  <1>2. CASE \E stage \in {"read", "items", "html"}, opts \in ScanOpts :
               c = Running("scan", stage, opts)
    BY <1>2
  <1>3. CASE srv.up /\ \E stage \in {"read", "items"} :
                           c = Running("serve", stage, ServeOpts(srv))
    BY <1>3
  <1>4. CASE \E stage \in {"read", "items", "create", "write"}, opts \in IndexOpts :
               c = Running("index", stage, opts)
    BY <1>4
  <1>5. CASE \E stage \in {"read", "items", "query"}, opts \in AskingOpts :
               c = Running("search", stage, opts)
    BY <1>5
  <1>6. QED
    BY <1>1, <1>2, <1>3, <1>4, <1>5 DEF CommandIs

(* A command goes on as it began.                                          *)
LEMMA NextStage ==
  ASSUME NEW c, NEW srv, CommandIs(c, srv), NEW stage,
         \/ c.stage = "read" /\ stage = "items"
         \/ c.stage = "items" /\ c.name = "scan" /\ stage = "html"
         \/ c.stage = "items" /\ c.name = "index" /\ stage = "create"
         \/ c.stage = "create" /\ stage = "write"
         \/ c.stage = "items" /\ c.name = "search" /\ stage = "query"
  PROVE  CommandIs([c EXCEPT !.stage = stage], srv)
  <1>1. c = Running(c.name, c.stage, c.opts)
    BY StageFacts
  <1>2. [c EXCEPT !.stage = stage] = Running(c.name, stage, c.opts)
    BY <1>1 DEF Running
  <1> DEFINE d == [c EXCEPT !.stage = stage]
  <1>3. /\ c.stage \in StagesOf[c.name]
        /\ c.name = "scan" => c.opts \in ScanOpts
        /\ c.name = "serve" => srv.up /\ c.opts = ServeOpts(srv)
        /\ c.name = "index" => c.opts \in IndexOpts
        /\ c.name = "search" => c.opts \in AskingOpts
        /\ c.stage = "create" => c.name = "index"
        /\ c.stage # "idle" => c.name # "none"
    <2>1. c.stage # "idle" => c.name # "none"
      BY StageFacts DEF StagesOf
    <2>2. QED
      BY <2>1, StageFacts
  <1>4. c.name \in {"none", "scan", "serve", "index", "search"}
    BY DEF CommandIs, Running, NoCommand
  <1> HIDE DEF d
  <1>5. CASE c.name = "scan"
    <2>1. stage \in {"read", "items", "html"} /\ d = Running("scan", stage, c.opts)
      BY <1>2, <1>3, <1>5 DEF StagesOf, d
    <2>2. QED
      BY <1>3, <1>5, <2>1 DEF CommandIs, d
  <1>6. CASE c.name = "serve"
    <2>1. stage \in {"read", "items"} /\ d = Running("serve", stage, ServeOpts(srv))
      BY <1>2, <1>3, <1>6 DEF StagesOf, d
    <2>2. QED
      BY <1>3, <1>6, <2>1 DEF CommandIs, d
  <1>7. CASE c.name = "index"
    <2>1. stage \in {"read", "items", "create", "write"} /\ d = Running("index", stage, c.opts)
      BY <1>2, <1>3, <1>7 DEF StagesOf, d
    <2>2. QED
      BY <1>3, <1>7, <2>1 DEF CommandIs, d
  <1>8. CASE c.name = "search"
    <2>1. stage \in {"read", "items", "query"} /\ d = Running("search", stage, c.opts)
      BY <1>2, <1>3, <1>8 DEF StagesOf, d
    <2>2. QED
      BY <1>3, <1>8, <2>1 DEF CommandIs, d
  <1>9. QED
    BY <1>3, <1>4, <1>5, <1>6, <1>7, <1>8

LEMMA NothingRendered ==
  ASSUME NEW r, ReportIs(r)
  PROVE  HtmlIs(NoHtml, r)
  <1>1. Len(RenderedOf(r)) \in Nat
    BY ReportFindings
  <1>2. PanesOf(NoHtml)
    BY DEF PanesOf, NoHtml, Range
  <1>3. Len(NoHtml.panes) = 0
    BY DEF NoHtml
  <1>4. QED
    BY <1>1, <1>2, <1>3 DEF HtmlIs

(* A walk begins with nothing left over.                                   *)
LEMMA WalkKeeps ==
  ASSUME CommandsIInv, NEW name, NEW opts, Walk(name, opts),
         CommandIs(Running(name, "read", opts), server), AnswerIs(answer', built),
         UNCHANGED <<rankingVars, savedIndex, searchIndex, built>>
  PROVE  CommandsIInv'
  <1> USE DEF CommandsIInv, Walk, At, rankingVars
  <1>1. command' = Running(name, "read", opts) /\ CommandInv'
    BY DEF CommandInv, Running
  <1>2. command'.stage = "read" /\ command.stage = "idle"
    BY <1>1 DEF Running
  <1>3. DiskInv'
    BY ScanAssumption DEF DiskInv
  <1>4. ReadInv'
    BY <1>2 DEF ReadInv
  <1>5. ItemsInv'
    <2>1. items = <<>> /\ items' = <<>> /\ index' = IndexOf(items')
      BY <1>2 DEF ItemsInv
    <2>2. QED
      BY <2>1 DEF ItemsInv
  <1>6. ReportIs(report') /\ HtmlIs(html', report')
    BY NothingRendered DEF ReportIs
  <1>7. FreshInv'
    BY DEF FreshInv
  <1>8. ServerInv' /\ RoundInv'
    BY DEF ServerInv, RoundInv
  <1>9. SavedInv'
    BY <1>2 DEF SavedInv
  <1>10. QED
    BY <1>1, <1>3, <1>4, <1>5, <1>6, <1>7, <1>8, <1>9 DEF ReportInv, HtmlInv

LEMMA EditKeeps ==
  ASSUME CommandsIInv, NEW p \in Paths, NEW c \in Content, EditFile(p, c),
         UNCHANGED <<rankingVars, searchVars>>
  PROVE  CommandsIInv'
  <1> USE DEF CommandsIInv, EditFile, At, rankingVars, searchVars
  <1>1. DiskInv'
    BY ScanAssumption DEF DiskInv
  <1>2. CommandInv' /\ ReadInv' /\ FreshInv'
    BY DEF CommandInv, ReadInv, FreshInv
  <1>3. ItemsInv'
    BY DEF ItemsInv
  <1>4. ReportInv' /\ HtmlInv' /\ ServerInv' /\ RoundInv' /\ SavedInv'
    BY DEF ReportInv, HtmlInv, ServerInv, RoundInv, SavedInv
  <1>5. QED
    BY <1>1, <1>2, <1>3, <1>4

LEMMA ReadKeeps ==
  ASSUME CommandsIInv, NEW p \in Paths, ReadFile(p), UNCHANGED <<rankingVars, searchVars>>
  PROVE  CommandsIInv'
  <1> USE DEF CommandsIInv, ReadFile, At, rankingVars, searchVars
  <1>1. ReadInv'
    BY DEF ReadInv, DiskInv
  <1>2. CommandInv' /\ DiskInv' /\ FreshInv'
    BY DEF CommandInv, DiskInv, FreshInv
  <1>3. ItemsInv'
    BY DEF ItemsInv
  <1>4. ReportInv' /\ HtmlInv' /\ ServerInv' /\ RoundInv' /\ SavedInv'
    BY DEF ReportInv, HtmlInv, ServerInv, RoundInv, SavedInv
  <1>5. QED
    BY <1>1, <1>2, <1>3, <1>4

LEMMA CollectKeeps ==
  ASSUME CommandsIInv, Collect, UNCHANGED <<rankingVars, searchVars>>
  PROVE  CommandsIInv'
  <1> USE DEF CommandsIInv, Collect, At, rankingVars, searchVars
  <1>1. command' = [command EXCEPT !.stage = "items"] /\ command.stage = "read"
    OBVIOUS
  <1>2. CommandInv'
    BY <1>1, NextStage DEF CommandInv
  <1>3. command = Running(command.name, command.stage, command.opts)
    BY <1>1, StageFacts DEF CommandInv
  <1>4. command'.stage = "items" /\ command'.opts = command.opts
    BY <1>1, <1>3 DEF Running
  <1>5. DiskInv'
    BY DEF DiskInv
  <1>6. ReadInv'
    BY NothingHeldType DEF ReadInv
  <1>7. items' = Collected(held, command.opts) /\ index' = IndexOf(items')
    BY DEF Collected, IndexOf
  <1>8. ItemsInv'
    BY <1>4, <1>7 DEF ItemsInv, ReadInv, Workspaces
  <1>9. FreshInv'
    BY <1>1 DEF FreshInv
  <1>10. ReportInv' /\ HtmlInv' /\ ServerInv' /\ RoundInv'
    BY DEF ReportInv, HtmlInv, ServerInv, RoundInv
  <1>11. SavedInv'
    BY <1>1, <1>4 DEF SavedInv
  <1>12. QED
    BY <1>2, <1>5, <1>6, <1>8, <1>9, <1>10, <1>11

(* What a command found is what its items give.                            *)
LEMMA FoundOfItems ==
  ASSUME ItemsInv, NEW opts
  PROVE  Found(opts) = FoundIn(items, opts)
  BY DEF ItemsInv, Found, FoundIn

(* A command that ends with its items, or goes on without them.            *)
LEMMA FinishFacts ==
  ASSUME CommandsIInv, At("items"), NEW stage, Finish(stage),
         \/ stage = "idle"
         \/ IsRunning("scan") /\ stage = "html"
         \/ IsRunning("index") /\ stage = "create"
         \/ IsRunning("search") /\ stage = "query",
         UNCHANGED server
  PROVE  /\ CommandInv' /\ ItemsInv' /\ command'.stage = stage
         /\ items' = <<>>
  <1> USE DEF At, IsRunning, Finish
  <1>1. command = Running(command.name, command.stage, command.opts)
    BY StageFacts DEF CommandsIInv, CommandInv
  <1>2. command'.stage = stage
    BY <1>1 DEF Running, NoCommand
  <1>3. CommandInv'
    <2>1. CASE stage = "idle"
      BY <2>1 DEF CommandInv, CommandIs
    <2>2. CASE stage # "idle"
      <3>1. command' = [command EXCEPT !.stage = stage]
        BY <2>2
      <3>2. CommandIs([command EXCEPT !.stage = stage], server)
        BY <2>2, NextStage DEF CommandsIInv, CommandInv
      <3>3. QED
        BY <3>1, <3>2 DEF CommandInv
    <2>3. QED
      BY <2>1, <2>2
  <1>4. ItemsInv'
    BY <1>2, IndexOfNothing DEF ItemsInv
  <1>5. QED
    BY <1>2, <1>3, <1>4

LEMMA ReportKeeps ==
  ASSUME CommandsIInv, ReportScan, UNCHANGED <<rankingVars, searchVars>>
  PROVE  CommandsIInv'
  <1> USE DEF CommandsIInv, At, rankingVars, searchVars
  <1> DEFINE stage == IF command.opts.html THEN "html" ELSE "idle"
  <1>1. /\ command.stage = "items" /\ IsRunning("scan") /\ Finish(stage)
        /\ stage \in {"html", "idle"}
        /\ UNCHANGED <<disk, edits, ran, todo, held, html>>
    BY DEF ReportScan
  <1> HIDE DEF stage
  <1>2. CommandInv' /\ ItemsInv' /\ command'.stage \in {"html", "idle"}
    BY <1>1, FinishFacts
  <1>3. ReportIs(report')
    <2>1. PICK s \in Sorted(Found(command.opts), ByScoreAndShared(Found(command.opts))) :
            report' = [findings |-> s, items |-> items, opts |-> command.opts]
      BY DEF ReportScan
    <2>2. command.opts \in ScanOpts
      BY <1>1, StageFacts DEF CommandInv, IsRunning
    <2>3. items \in Workspaces(command.opts)
      BY <1>1 DEF ItemsInv
    <2>4. s \in Sorted(FoundIn(items, command.opts),
                       ByScoreAndShared(FoundIn(items, command.opts)))
      BY <2>1, FoundOfItems
    <2>5. QED
      BY <2>1, <2>2, <2>3, <2>4, SortedReport
  <1>4. HtmlInv'
    <2>1. html' = NoHtml
      BY <1>1 DEF FreshInv
    <2>2. QED
      BY <1>3, <2>1, NothingRendered DEF HtmlInv
  <1>5. DiskInv' /\ ReadInv' /\ FreshInv'
    BY <1>1, <1>2 DEF DiskInv, ReadInv, FreshInv
  <1>6. ServerInv' /\ RoundInv'
    BY DEF ServerInv, RoundInv, ReportScan
  <1>7. SavedInv'
    BY <1>1, <1>2 DEF SavedInv
  <1>8. QED
    BY <1>2, <1>3, <1>4, <1>5, <1>6, <1>7 DEF ReportInv

WithPane(h, end, text) ==
  [cache |-> [q \in DOMAIN h.cache \cup {end.path} |->
                IF q \in DOMAIN h.cache THEN h.cache[q] ELSE text[q]],
   panes |-> Append(h.panes, [end |-> end,
               shows |-> IF end.path \in DOMAIN h.cache THEN h.cache[end.path]
                         ELSE text[end.path]])]

LEMMA PanesAre ==
  ASSUME NEW cache, NEW panes, panes \in Seq(Range(panes)),
         \A n \in 1 .. Len(panes) : panes[n].end.path \in DOMAIN cache
                                    /\ panes[n].shows = cache[panes[n].end.path]
  PROVE  PanesOf([cache |-> cache, panes |-> panes])
  BY DEF PanesOf

(* A pane shows what is in the cache, and what is there stays.             *)
LEMMA PaneKeepsHtml ==
  ASSUME NEW h, PanesOf(h), NEW end, NEW text, NEW N \in Nat, Len(h.panes) < N
  PROVE  PanesOf(WithPane(h, end, text)) /\ Len(WithPane(h, end, text).panes) <= N
  <1> DEFINE pane == [end |-> end, shows |-> IF end.path \in DOMAIN h.cache
                                               THEN h.cache[end.path] ELSE text[end.path]]
             cache == [q \in DOMAIN h.cache \cup {end.path} |->
                         IF q \in DOMAIN h.cache THEN h.cache[q] ELSE text[q]]
             ps == h.panes
             more == Append(ps, pane)
  <1>1. WithPane(h, end, text) = [cache |-> cache, panes |-> more]
    BY DEF WithPane
  <1>2. ps \in Seq(Range(ps))
        /\ \A n \in 1 .. Len(ps) : ps[n].end.path \in DOMAIN h.cache
                                   /\ ps[n].shows = h.cache[ps[n].end.path]
    BY DEF PanesOf
  <1>3. pane.end = end /\ pane.end.path \in DOMAIN cache /\ pane.shows = cache[pane.end.path]
    OBVIOUS
  <1>4. \A q \in DOMAIN h.cache : q \in DOMAIN cache /\ cache[q] = h.cache[q]
    OBVIOUS
  <1> HIDE DEF pane, cache, ps
  <1>5. /\ more \in Seq(Range(ps) \cup {pane}) /\ Len(more) = Len(ps) + 1 /\ Len(ps) \in Nat
        /\ \A n \in 1 .. Len(more) : more[n] = IF n = Len(ps) + 1 THEN pane ELSE ps[n]
    <2> DEFINE T == Range(ps) \cup {pane}
    <2>1. ps \in Seq(T) /\ pane \in T
      <3> DEFINE R == Range(ps)
      <3>1. ps \in Seq(R)
        BY <1>2
      <3> HIDE DEF R
      <3>2. ps \in Seq(R \cup {pane})
        BY <3>1
      <3>3. QED
        BY <3>2 DEF R
    <2> HIDE DEF T
    <2>2. /\ more \in Seq(T) /\ Len(more) = Len(ps) + 1 /\ Len(ps) \in Nat
          /\ \A n \in 1 .. Len(more) : more[n] = IF n = Len(ps) + 1 THEN pane ELSE ps[n]
      BY <2>1
    <2>3. QED
      BY <2>2 DEF T
  <1> HIDE DEF more
  <1>6. \A n \in 1 .. Len(more) : more[n].end.path \in DOMAIN cache
                                  /\ more[n].shows = cache[more[n].end.path]
    <2>1. TAKE n \in 1 .. Len(more)
    <2>2. CASE n = Len(ps) + 1
      BY <1>3, <1>5, <2>2
    <2>3. CASE n # Len(ps) + 1
      <3>1. n \in 1 .. Len(ps) /\ more[n] = ps[n]
        BY <1>5, <2>3
      <3>2. QED
        BY <1>2, <1>4, <3>1
    <2>4. QED
      BY <2>2, <2>3
  <1>7. more \in Seq(Range(more))
    <2> DEFINE K == Len(ps) + 1
    <2>1. K \in Nat /\ more = [n \in 1 .. K |-> more[n]]
      BY <1>5
    <2> HIDE DEF K
    <2>2. QED
      BY <2>1, FunctionIsSequence
  <1>8. Len(more) <= N
    BY <1>5 DEF ps
  <1>9. PanesOf(WithPane(h, end, text))
    BY <1>1, <1>6, <1>7, PanesAre
  <1>10. QED
    BY <1>1, <1>8, <1>9

LEMMA PaneKeeps ==
  ASSUME CommandsIInv, RenderPane, UNCHANGED <<rankingVars, searchVars>>
  PROVE  CommandsIInv'
  <1> USE DEF CommandsIInv, At, rankingVars, searchVars
  <1>1. UNCHANGED <<disk, edits, ran, command, todo, held, items, index, report>>
        /\ command.stage = "html" /\ Len(html.panes) < 2 * Len(Rendered)
    BY DEF RenderPane
  <1>2. HtmlInv'
    <2> DEFINE N == 2 * Len(RenderedOf(report))
    <2>1. N \in Nat
      BY ReportFindings DEF ReportInv
    <2>2. Len(html.panes) < N
      BY <1>1 DEF Rendered, RenderedOf
    <2> HIDE DEF N
    <2>3. html' = WithPane(html, NextPane, disk)
      BY DEF RenderPane, WithPane
    <2>4. PanesOf(html)
      BY DEF HtmlInv, HtmlIs
    <2>5. PanesOf(html') /\ Len(html'.panes) <= N
      BY <2>1, <2>2, <2>3, <2>4, PaneKeepsHtml
    <2>6. QED
      BY <1>1, <2>5 DEF HtmlInv, HtmlIs, N
  <1>3. CommandInv' /\ DiskInv' /\ ReadInv' /\ FreshInv'
    BY <1>1 DEF CommandInv, DiskInv, ReadInv, FreshInv
  <1>4. ItemsInv'
    BY <1>1 DEF ItemsInv
  <1>5. ReportInv' /\ ServerInv' /\ RoundInv' /\ SavedInv'
    BY <1>1 DEF ReportInv, ServerInv, RoundInv, SavedInv
  <1>6. QED
    BY <1>2, <1>3, <1>4, <1>5

LEMMA DoneKeeps ==
  ASSUME CommandsIInv, RenderDone, UNCHANGED <<rankingVars, searchVars>>
  PROVE  CommandsIInv'
  <1> USE DEF CommandsIInv, At, rankingVars, searchVars
  <1>1. /\ UNCHANGED <<disk, edits, ran, todo, held, report, html>>
        /\ command' = NoCommand /\ items' = <<>> /\ index' = EmptyIndex
        /\ command.stage = "html"
    BY DEF RenderDone, Finish
  <1>2. CommandInv' /\ command'.stage = "idle"
    BY <1>1 DEF CommandInv, CommandIs, NoCommand
  <1>3. ItemsInv'
    BY <1>1, <1>2, IndexOfNothing DEF ItemsInv
  <1>4. DiskInv' /\ ReadInv' /\ FreshInv'
    BY <1>1, <1>2 DEF DiskInv, ReadInv, FreshInv
  <1>5. ReportInv' /\ HtmlInv' /\ ServerInv' /\ RoundInv'
    BY <1>1 DEF ReportInv, HtmlInv, ServerInv, RoundInv
  <1>6. SavedInv'
    BY <1>1, <1>2 DEF SavedInv
  <1>7. QED
    BY <1>2, <1>3, <1>4, <1>5, <1>6

(* The server and its rounds.                                              *)
LEMMA InitializeKeeps ==
  ASSUME CommandsIInv, NEW given \in Givens, NEW params \in Params, Initialize(given, params),
         UNCHANGED searchVars
  PROVE  CommandsIInv'
  <1> USE DEF CommandsIInv, At, scanVars, searchVars
  <1>1. /\ UNCHANGED <<scanVars, served, byFile>>
        /\ command.stage = "idle" /\ ~server.up
        /\ server' = [given |-> given, settings |-> Resolve(given).settings,
                      root |-> WorkspaceRoot(params), up |-> TRUE]
    BY DEF Initialize
  <1>2. CommandInv'
    <2>1. command' = NoCommand
      BY <1>1, StageFacts DEF CommandInv
    <2>2. QED
      BY <2>1 DEF CommandInv, CommandIs
  <1>3. ServerInv'
    BY <1>1 DEF ServerInv, ServerIs
  <1>4. RoundInv'
    <2>1. served = {} /\ byFile = [p \in Paths |-> {}]
      BY <1>1 DEF RoundInv, RoundIs
    <2>2. QED
      BY <1>1, <2>1 DEF RoundInv, RoundIs
  <1>5. DiskInv' /\ ReadInv' /\ FreshInv' /\ ReportInv' /\ HtmlInv' /\ SavedInv'
    BY <1>1 DEF DiskInv, ReadInv, FreshInv, ReportInv, HtmlInv, SavedInv
  <1>6. ItemsInv'
    BY <1>1 DEF ItemsInv
  <1>7. QED
    BY <1>2, <1>3, <1>4, <1>5, <1>6

(* What a round publishes is a sorting of what it found.                   *)
LEMMA SortedRound ==
  ASSUME NEW srv, srv.up, NEW its \in Workspaces(ServeOpts(srv)), NEW F,
         F = FoundIn(its, ServeOpts(srv)), NEW s \in Sorted(F, ByScore(F))
  PROVE  RoundIs(srv, F, Group(Ranked(s, srv.settings)))
  <1> DEFINE opts == ServeOpts(srv)
  <1> HIDE DEF opts
  <1>1. IsFiniteSet(F)
    BY WorkspaceType, FoundFinite DEF opts
  <1>2. s \in Orderings(F, ByScore(F))
    BY <1>1, SortedOrderings
  <1>3. Ordering(s, F, ByScore(F))
    BY <1>2 DEF Orderings
  <1>4. QED
    BY <1>3 DEF RoundIs, ServedBy, RoundOf

LEMMA PublishKeeps ==
  ASSUME CommandsIInv, Publish, UNCHANGED searchVars
  PROVE  CommandsIInv'
  <1> USE DEF CommandsIInv, At, searchVars
  <1>1. /\ command.stage = "items" /\ IsRunning("serve") /\ Finish("idle")
        /\ UNCHANGED <<disk, edits, ran, todo, held, report, html, server>>
    BY DEF Publish
  <1>2. CommandInv' /\ ItemsInv' /\ command'.stage = "idle"
    BY <1>1, FinishFacts
  <1>3. RoundIs(server, served', byFile')
    <2>1. PICK s \in Sorted(Found(command.opts), ByScore(Found(command.opts))) :
            byFile' = Group(Ranked(s, server.settings))
      BY DEF Publish
    <2>2. command.opts = ServeOpts(server) /\ items \in Workspaces(command.opts)
      BY <1>1, StageFacts DEF CommandInv, IsRunning, ItemsInv
    <2>3. served' = FoundIn(items, command.opts)
          /\ s \in Sorted(FoundIn(items, command.opts), ByScore(FoundIn(items, command.opts)))
      BY <2>1, FoundOfItems DEF Publish
    <2>4. server.up
      BY <1>1, StageFacts DEF CommandInv, IsRunning
    <2>5. QED
      BY <2>1, <2>2, <2>3, <2>4, SortedRound
  <1>4. RoundInv' /\ ServerInv' /\ ReportInv' /\ HtmlInv'
    BY <1>1, <1>3 DEF RoundInv, ServerInv, ReportInv, HtmlInv
  <1>5. DiskInv' /\ ReadInv' /\ FreshInv'
    BY <1>1, <1>2 DEF DiskInv, ReadInv, FreshInv
  <1>6. SavedInv'
    BY <1>1, <1>2 DEF SavedInv
  <1>7. QED
    BY <1>2, <1>4, <1>5, <1>6

(* The index commands.                                                     *)
LEMMA LoadKeeps ==
  ASSUME CommandsIInv, NEW opts \in SearchOpts, NEW query \in AllQueries, Load(query, opts),
         UNCHANGED rankingVars
  PROVE  CommandsIInv'
  <1> USE DEF CommandsIInv, At, rankingVars
  <1>1. /\ command.stage = "idle" /\ ran < MaxCommands /\ ran' = ran + 1
        /\ savedIndex \notin {NoFile, Torn} /\ searchIndex' = savedIndex
        /\ command' = Running("search", "query", Asking(opts, query))
        /\ answer' = NoAnswer /\ report' = NoReport /\ html' = NoHtml
        /\ UNCHANGED <<disk, edits, todo, held, items, index, savedIndex, built>>
    BY DEF Load, Running
  <1>2. CommandInv' /\ command'.stage = "query"
    <2>1. Asking(opts, query) \in AskingOpts
      BY DEF AskingOpts
    <2>2. command'.stage = "query"
      BY <1>1 DEF Running
    <2>3. QED
      BY <1>1, <2>1, <2>2 DEF CommandInv, CommandIs
  <1>3. DiskInv'
    BY <1>1, ScanAssumption DEF DiskInv
  <1>4. ReadInv' /\ FreshInv'
    BY <1>1, <1>2 DEF ReadInv, FreshInv
  <1>5. ItemsInv'
    <2>1. items' = <<>> /\ index' = IndexOf(items')
      BY <1>1 DEF ItemsInv
    <2>2. QED
      BY <1>2, <2>1 DEF ItemsInv
  <1>6. ReportInv' /\ HtmlInv'
    BY <1>1, NothingRendered DEF ReportInv, ReportIs, HtmlInv
  <1>7. ServerInv' /\ RoundInv'
    BY DEF ServerInv, RoundInv
  <1>8. SavedInv'
    BY <1>1, <1>2 DEF SavedInv, AnswerIs
  <1>9. QED
    BY <1>2, <1>3, <1>4, <1>5, <1>6, <1>7, <1>8

(* An answer is of an index that was built; more may be built.             *)
LEMMA AnswerStays ==
  ASSUME NEW a, NEW B, NEW C, AnswerIs(a, B), B \subseteq C
  PROVE  AnswerIs(a, C)
  BY DEF AnswerIs

LEMMA BuildKeeps ==
  ASSUME CommandsIInv, Build, UNCHANGED rankingVars
  PROVE  CommandsIInv'
  <1> USE DEF CommandsIInv, At, rankingVars
  <1> DEFINE stage == IF command.name = "index" THEN "create" ELSE "query"
  <1>1. /\ command.stage = "items" /\ command.name \in {"index", "search"}
        /\ Finish(stage) /\ stage \in {"create", "query"}
        /\ stage = "create" => command.name = "index"
        /\ stage = "query" => command.name = "search"
        /\ searchIndex' = BuildIndex(items, command.opts)
        /\ built' = built \cup {searchIndex'}
        /\ UNCHANGED <<disk, edits, ran, todo, held, report, html, savedIndex, answer>>
    BY DEF Build
  <1> HIDE DEF stage
  <1>2. CommandInv' /\ ItemsInv' /\ command'.stage \in {"create", "query"}
    BY <1>1, FinishFacts DEF IsRunning
  <1>3. IsBuilt(searchIndex')
    <2>1. command.opts \in IndexOpts \cup AskingOpts
      BY <1>1, StageFacts DEF CommandInv
    <2>2. items \in Workspaces(command.opts)
      BY <1>1 DEF ItemsInv
    <2>3. QED
      BY <1>1, <2>1, <2>2 DEF IsBuilt
  <1>4. AnswerIs(answer', built')
    BY <1>1, AnswerStays DEF SavedInv
  <1>5. SavedInv'
    <2>1. \A si \in built' : IsBuilt(si)
      BY <1>1, <1>3 DEF SavedInv
    <2>2. savedIndex' \in {NoFile, Torn} \cup built' /\ searchIndex' \in built'
      BY <1>1 DEF SavedInv
    <2>3. QED
      BY <1>2, <1>4, <2>1, <2>2 DEF SavedInv
  <1>6. DiskInv' /\ ReadInv' /\ FreshInv'
    BY <1>1, <1>2 DEF DiskInv, ReadInv, FreshInv
  <1>7. ReportInv' /\ HtmlInv' /\ ServerInv' /\ RoundInv'
    BY <1>1 DEF ReportInv, HtmlInv, ServerInv, RoundInv
  <1>8. QED
    BY <1>2, <1>5, <1>6, <1>7

LEMMA SaveCreateKeeps ==
  ASSUME CommandsIInv, SaveCreate, UNCHANGED rankingVars
  PROVE  CommandsIInv'
  <1> USE DEF CommandsIInv, At, rankingVars
  <1>1. /\ command.stage = "create" /\ savedIndex' = Torn
        /\ command' = [command EXCEPT !.stage = "write"]
        /\ items' = <<>> /\ index' = EmptyIndex
        /\ UNCHANGED <<disk, edits, ran, todo, held, report, html, searchIndex, answer, built>>
    BY DEF SaveCreate, Finish
  <1>2. CommandInv'
    BY <1>1, NextStage DEF CommandInv
  <1>3. command'.stage = "write"
    <2>1. command = Running(command.name, command.stage, command.opts)
      BY <1>1, StageFacts DEF CommandInv
    <2>2. QED
      BY <1>1, <2>1 DEF Running
  <1>4. ItemsInv'
    BY <1>1, IndexOfNothing DEF ItemsInv
  <1>5. SavedInv'
    BY <1>1, <1>3 DEF SavedInv
  <1>6. DiskInv' /\ ReadInv' /\ FreshInv'
    BY <1>1, <1>3 DEF DiskInv, ReadInv, FreshInv
  <1>7. ReportInv' /\ HtmlInv' /\ ServerInv' /\ RoundInv'
    BY <1>1 DEF ReportInv, HtmlInv, ServerInv, RoundInv
  <1>8. QED
    BY <1>2, <1>4, <1>5, <1>6, <1>7

(* A command that ends, or is killed.                                      *)
LEMMA EndKeeps ==
  ASSUME CommandsIInv, EndCommand, UNCHANGED rankingVars, AnswerIs(answer', built),
         savedIndex' \in {NoFile, Torn} \cup built
  PROVE  CommandsIInv'
  <1> USE DEF CommandsIInv, At, rankingVars
  <1>1. /\ command' = NoCommand /\ items' = <<>> /\ index' = EmptyIndex
        /\ searchIndex' = NoIndex /\ todo' = {} /\ held' = NothingHeld
        /\ UNCHANGED <<disk, edits, ran, report, html, built>>
    BY DEF EndCommand, Finish
  <1>2. CommandInv' /\ command'.stage = "idle"
    BY <1>1 DEF CommandInv, CommandIs, NoCommand
  <1>3. ItemsInv'
    BY <1>1, <1>2, IndexOfNothing DEF ItemsInv
  <1>4. SavedInv'
    BY <1>1, <1>2 DEF SavedInv
  <1>5. DiskInv' /\ ReadInv' /\ FreshInv'
    BY <1>1, <1>2, NothingHeldType DEF DiskInv, ReadInv, FreshInv
  <1>6. ReportInv' /\ HtmlInv' /\ ServerInv' /\ RoundInv'
    BY <1>1 DEF ReportInv, HtmlInv, ServerInv, RoundInv
  <1>7. QED
    BY <1>2, <1>3, <1>4, <1>5, <1>6

LEMMA AnswerKeeps ==
  ASSUME CommandsIInv, Answer, UNCHANGED rankingVars
  PROVE  CommandsIInv'
  <1> DEFINE query == command.opts.query
  <1>1. PICK matches \in IF query.kind = "snippet" THEN SnippetAnswers(searchIndex, query)
                         ELSE KeywordAnswers(searchIndex, query) :
          answer' = [query |-> query, matches |-> matches, of |-> searchIndex]
    BY DEF Answer
  <1>2. query \in AllQueries
    <2>1. command.opts \in AskingOpts
      BY StageFacts DEF Answer, At, CommandsIInv, CommandInv
    <2>2. PICK opts \in SearchOpts, q \in AllQueries : command.opts = Asking(opts, q)
      BY <2>1 DEF AskingOpts
    <2>3. Asking(opts, q).query = q
      BY DEF Asking
    <2>4. QED
      BY <2>2, <2>3
  <1>3. searchIndex \in built /\ savedIndex \in {NoFile, Torn} \cup built
    BY DEF CommandsIInv, SavedInv, Answer, At
  <1> HIDE DEF query
  <1>4. AnswerIs(answer', built)
    BY <1>1, <1>2, <1>3 DEF AnswerIs, AnswersTo
  <1>5. EndCommand /\ savedIndex' = savedIndex
    BY DEF Answer
  <1>6. QED
    BY <1>3, <1>4, <1>5, EndKeeps

LEMMA EndsKeep ==
  ASSUME CommandsIInv, SaveWrite \/ SaveFails \/ Crash, UNCHANGED rankingVars
  PROVE  CommandsIInv'
  <1>1. AnswerIs(answer, built) /\ savedIndex \in {NoFile, Torn} \cup built
    BY DEF CommandsIInv, SavedInv
  <1>2. CASE SaveWrite
    <2>1. EndCommand /\ answer' = answer /\ savedIndex' = searchIndex /\ searchIndex \in built
      BY <1>2 DEF SaveWrite, CommandsIInv, SavedInv, At
    <2>2. QED
      BY <1>1, <2>1, EndKeeps
  <1>3. CASE SaveFails \/ Crash
    <2>1. EndCommand /\ answer' = answer /\ savedIndex' = savedIndex
      BY <1>3 DEF SaveFails, Crash
    <2>2. QED
      BY <1>1, <2>1, EndKeeps
  <1>4. QED
    BY <1>2, <1>3

LEMMA CommandsInitial ==
  ASSUME CommandsInit
  PROVE  CommandsIInv
  <1> USE DEF CommandsInit, ScanInit, RankingInit, SearchInit, At
  <1>1. CommandInv /\ command.stage = "idle"
    BY DEF CommandInv, CommandIs, NoCommand
  <1>2. DiskInv
    BY CommandsAssumption, ScanAssumption DEF DiskInv, Content
  <1>3. ReadInv
    BY NothingHeldType DEF ReadInv
  <1>4. ItemsInv
    BY <1>1, IndexOfNothing DEF ItemsInv
  <1>5. FreshInv
    BY DEF FreshInv
  <1>6. ReportIs(report) /\ HtmlInv
    BY NothingRendered DEF ReportIs, HtmlInv
  <1>7. ServerInv
    BY DEF ServerInv, ServerIs
  <1>8. RoundInv
    BY DEF RoundInv, RoundIs
  <1>9. SavedInv
    BY <1>1 DEF SavedInv, AnswerIs
  <1>10. QED
    BY <1>1, <1>2, <1>3, <1>4, <1>5, <1>6, <1>7, <1>8, <1>9 DEF CommandsIInv, ReportInv

LEMMA ScanCommandKeeps ==
  ASSUME CommandsIInv, ScanCommand
  PROVE  CommandsIInv'
  <1>1. UNCHANGED <<rankingVars, searchVars>>
    BY DEF ScanCommand
  <1>2. AnswerIs(answer', built)
    BY <1>1 DEF CommandsIInv, SavedInv, searchVars
  <1>3. CASE \E opts \in ScanOpts : ~server.up /\ Walk("scan", opts)
    <2>1. PICK opts \in ScanOpts : Walk("scan", opts)
      BY <1>3
    <2>2. CommandIs(Running("scan", "read", opts), server)
      BY DEF CommandIs
    <2>3. UNCHANGED <<rankingVars, savedIndex, searchIndex, built>>
      BY <1>1 DEF searchVars
    <2>4. QED
      BY <1>2, <2>1, <2>2, <2>3, WalkKeeps
  <1>4. CASE ScanSteps
    BY <1>1, <1>4, ReadKeeps, CollectKeeps, ReportKeeps, PaneKeeps, DoneKeeps DEF ScanSteps
  <1>5. CASE \E p \in Paths, c \in Contents \cup {Absent} : ~At("idle") /\ EditFile(p, c)
    BY <1>1, <1>5, EditKeeps DEF Content
  <1>6. QED
    BY <1>3, <1>4, <1>5 DEF ScanCommand

LEMMA ServerRoundKeeps ==
  ASSUME CommandsIInv, ServerRound
  PROVE  CommandsIInv'
  <1>1. UNCHANGED searchVars
    BY DEF ServerRound
  <1>2. CASE \E given \in Givens, params \in Params : ran = 0 /\ Initialize(given, params)
    BY <1>1, <1>2, InitializeKeeps
  <1>3. CASE StartRound
    <2>1. Walk("serve", ServeOpts(server)) /\ server.up /\ UNCHANGED rankingVars
      BY <1>3 DEF StartRound, ServeOpts, rankingVars
    <2>2. CommandIs(Running("serve", "read", ServeOpts(server)), server)
      BY <2>1 DEF CommandIs
    <2>3. UNCHANGED <<rankingVars, savedIndex, searchIndex, built>> /\ AnswerIs(answer', built)
      BY <1>1, <2>1 DEF searchVars, CommandsIInv, SavedInv
    <2>4. QED
      BY <2>1, <2>2, <2>3, WalkKeeps
  <1>4. CASE Publish
    BY <1>1, <1>4, PublishKeeps
  <1>5. QED
    BY <1>2, <1>3, <1>4 DEF ServerRound

LEMMA SearchCommandKeeps ==
  ASSUME CommandsIInv, SearchCommand
  PROVE  CommandsIInv'
  <1>1. UNCHANGED rankingVars
    BY DEF SearchCommand
  <1>2. AnswerIs(NoAnswer, built)
    BY DEF AnswerIs
  <1>3. CASE \E opts \in IndexOpts : StartIndex(opts)
    <2>1. PICK opts \in IndexOpts : StartIndex(opts)
      BY <1>3
    <2>2. CommandIs(Running("index", "read", opts), server)
      BY DEF CommandIs
    <2>3. Walk("index", opts) /\ AnswerIs(answer', built)
          /\ UNCHANGED <<rankingVars, savedIndex, searchIndex, built>>
      BY <1>1, <1>2, <2>1 DEF StartIndex
    <2>4. QED
      BY <2>2, <2>3, WalkKeeps
  <1>4. CASE \E opts \in SearchOpts, query \in QueriesIn : StartSearchIn(opts, query)
    <2>1. PICK opts \in SearchOpts, query \in QueriesIn : StartSearchIn(opts, query)
      BY <1>4
    <2>2. CommandIs(Running("search", "read", Asking(opts, query)), server)
      BY DEF CommandIs, AskingOpts, AllQueries
    <2>3. Walk("search", Asking(opts, query)) /\ AnswerIs(answer', built)
          /\ UNCHANGED <<rankingVars, savedIndex, searchIndex, built>>
      BY <1>1, <1>2, <2>1 DEF StartSearchIn
    <2>4. QED
      BY <2>2, <2>3, WalkKeeps
  <1>5. CASE \E opts \in SearchOpts, query \in Queries : Load(query, opts)
    BY <1>1, <1>5, LoadKeeps DEF AllQueries
  <1>6. CASE Build \/ SaveCreate
    BY <1>1, <1>6, BuildKeeps, SaveCreateKeeps
  <1>7. CASE SaveWrite \/ SaveFails \/ Crash
    BY <1>1, <1>7, EndsKeep
  <1>8. CASE Answer
    BY <1>1, <1>8, AnswerKeeps
  <1>9. QED
    BY <1>3, <1>4, <1>5, <1>6, <1>7, <1>8 DEF SearchCommand

LEMMA NothingKeeps ==
  ASSUME CommandsIInv, UNCHANGED vars
  PROVE  CommandsIInv'
  <1> USE DEF CommandsIInv, At, vars, scanVars, rankingVars, searchVars
  <1>1. CommandInv' /\ DiskInv' /\ ReadInv' /\ FreshInv'
    BY DEF CommandInv, DiskInv, ReadInv, FreshInv
  <1>2. ItemsInv'
    BY DEF ItemsInv
  <1>3. ReportInv' /\ HtmlInv' /\ ServerInv' /\ RoundInv'
    BY DEF ReportInv, HtmlInv, ServerInv, RoundInv
  <1>4. SavedInv'
    BY DEF SavedInv
  <1>5. QED
    BY <1>1, <1>2, <1>3, <1>4

(* Every part of the invariant holds in every state.                       *)
THEOREM CommandsInvariant == CommandsSpec => []CommandsIInv
  <1>1. CommandsInit => CommandsIInv
    BY CommandsInitial
  <1>2. CommandsIInv /\ [CommandsNext]_vars => CommandsIInv'
    <2>1. SUFFICES ASSUME CommandsIInv, [CommandsNext]_vars PROVE CommandsIInv'
      OBVIOUS
    <2>2. QED
      BY <2>1, ScanCommandKeeps, ServerRoundKeeps, SearchCommandKeeps, NothingKeeps
        DEF CommandsNext
  <1>3. QED
    BY <1>1, <1>2, PTL DEF CommandsSpec

-----------------------------------------------------------------------------
(* The shape of the state.                                                 *)

LEMMA SettingsOptions ==
  ASSUME NEW srv, ServerIs(srv)
  PROVE  DOMAIN srv.settings = Options
  <1>1. CASE srv = NoServer
    BY <1>1 DEF NoServer, Options
  <1>2. CASE srv # NoServer
    <2>1. PICK given \in Givens : srv.settings = Resolve(given).settings
      BY <1>2 DEF ServerIs
    <2>2. DOMAIN Resolve(given).settings = Options
      BY DEF Resolve
    <2>3. QED
      BY <2>1, <2>2
  <1>3. QED
    BY <1>1, <1>2

(* What is published has been served.                                      *)
LEMMA PublishedIsServed ==
  ASSUME NEW srv, NEW F, NEW groups, RoundIs(srv, F, groups), NEW p \in Paths,
         NEW rf \in groups[p]
  PROVE  rf.finding \in {f[2] : f \in F} /\ p \in EndPaths(rf)
  <1>1. PICK s : Ordering(s, F, ByScore(F)) /\ groups = Group(Ranked(s, srv.settings))
    BY DEF RoundIs, RoundOf
  <1>2. rf \in Ranked(s, srv.settings) /\ p \in EndPaths(rf)
    BY <1>1 DEF Group
  <1>3. PICK n \in DOMAIN s : rf = [finding |-> s[n][2], severity |-> SeverityAt(n, srv.settings)]
    BY <1>2 DEF Ranked
  <1>4. s[n] \in F
    BY <1>1 DEF Ordering
  <1>5. QED
    BY <1>2, <1>3, <1>4

LEMMA TypeFollows ==
  ASSUME CommandsIInv
  PROVE  CommandsTypeOK
  <1> USE DEF CommandsIInv, At
  <1>1. /\ disk \in [Paths -> Contents \cup {Absent}]
        /\ edits \in 0..MaxEdits /\ ran \in 0..MaxCommands
    BY DEF DiskInv, Content
  <1>2. command.stage \in StagesOf[command.name]
    BY StageFacts DEF CommandInv
  <1>3. /\ todo \subseteq Paths \ Excluded /\ (todo # {} => At("read"))
        /\ held \in [Paths -> Contents \cup {Absent}] /\ (held # NothingHeld => At("read"))
    BY DEF ReadInv, Content
  <1>4. items # <<>> => At("items")
    BY DEF ItemsInv
  <1>5. Len(index.files) = Len(items)
    <2>1. items \in Seq(WorkspaceItems(command.opts)) /\ index = IndexOf(items)
      <3>1. CASE items = <<>>
        BY <3>1 DEF ItemsInv
      <3>2. CASE items # <<>>
        BY <3>2, WorkspaceType DEF ItemsInv
      <3>3. QED
        BY <3>1, <3>2
    <2>2. QED
      BY <2>1, IndexOfFields
  <1>6. searchIndex # NoIndex => command.stage \in {"create", "write", "query"}
    BY DEF SavedInv
  <1>7. savedIndex \in {NoFile, Torn} \cup built
    BY DEF SavedInv
  <1>8. DOMAIN server.settings = Options
    BY SettingsOptions DEF ServerInv
  <1>9. \A p \in Paths : \A rf \in byFile[p] : rf.finding \in {f[2] : f \in served}
    <2>1. RoundIs(server, served, byFile)
      BY DEF RoundInv
    <2>2. QED
      BY <2>1, PublishedIsServed
  <1>10. Len(html.panes) <= 2 * Len(Rendered)
    BY DEF HtmlInv, HtmlIs, Rendered, RenderedOf
  <1>11. QED
    BY <1>1, <1>2, <1>3, <1>4, <1>5, <1>6, <1>7, <1>8, <1>9, <1>10 DEF CommandsTypeOK

(* Nothing of a command outlives it but the index file, and a search       *)
(* answers only from an index that some command has built to its end:      *)
(* a file that File::create has cut off, or a crash or an error left so,   *)
(* is never one.                                                           *)
THEOREM CommandsAreConsistent == CommandsSpec => []CommandsConsistent
  <1>1. CommandsIInv => CommandsConsistent
    <2>1. SUFFICES ASSUME CommandsIInv PROVE CommandsConsistent
      OBVIOUS
    <2>2. At("query") => searchIndex \in built
      BY <2>1 DEF CommandsIInv, SavedInv, At
    <2>3. answer # NoAnswer => answer.of \in built
      BY <2>1 DEF CommandsIInv, SavedInv, AnswerIs
    <2>4. QED
      BY <2>1, <2>2, <2>3, TypeFollows DEF CommandsConsistent, IndexWhole
  <1>2. QED
    BY <1>1, CommandsInvariant, PTL

(* The panes of one HTML report never show two versions of a file, however *)
(* others edit it while html::render goes from pane to pane.               *)
THEOREM ReportsAreConsistent == CommandsSpec => []ReportConsistent
  <1>1. CommandsIInv => ReportConsistent
    <2>1. SUFFICES ASSUME CommandsIInv PROVE ReportConsistent
      OBVIOUS
    <2>2. PanesOf(html)
      BY <2>1 DEF CommandsIInv, HtmlInv, HtmlIs
    <2>3. DOMAIN html.panes = 1 .. Len(html.panes)
          /\ \A n \in 1 .. Len(html.panes) :
               html.panes[n].shows = html.cache[html.panes[n].end.path]
      BY <2>2 DEF PanesOf
    <2>4. QED
      BY <2>3 DEF ReportConsistent
  <1>2. QED
    BY <1>1, CommandsInvariant, PTL

-----------------------------------------------------------------------------
(* Tags.  Path::strip_prefix takes the scanned directory off a path.       *)
LEMMA StripsRoot ==
  ASSUME NEW S, NEW T, NEW root \in Seq(S), NEW components \in Seq(T)
  PROVE  StripRoot(root, root \o components) = components
  <1> DEFINE V == S \cup T
             path == root \o components
  <1>1. root \in Seq(V) /\ components \in Seq(V)
    OBVIOUS
  <1> HIDE DEF V
  <1>2. path \in Seq(V) /\ Len(path) = Len(root) + Len(components)
        /\ Len(root) \in Nat /\ Len(components) \in Nat
        /\ (\A n \in 1 .. Len(root) : path[n] = root[n])
        /\ (\A n \in 1 .. Len(components) : path[Len(root) + n] = components[n])
    BY <1>1
  <1> HIDE DEF path
  <1>3. IsPrefix(root, path)
    <2>1. SubSeq(root, 1, Len(root)) = SubSeq(path, 1, Len(root))
      BY <1>1, <1>2
    <2>2. QED
      BY <1>2, <2>1 DEF IsPrefix
  <1>4. SubSeq(path, Len(root) + 1, Len(path)) = components
    <2> DEFINE rest == SubSeq(path, Len(root) + 1, Len(path))
    <2>1. rest \in Seq(V) /\ Len(rest) = Len(components)
          /\ \A n \in 1 .. Len(components) : rest[n] = path[Len(root) + n]
      BY <1>2
    <2> HIDE DEF rest
    <2>2. rest = components
      <3>1. \A n \in 1 .. Len(components) : rest[n] = components[n]
        BY <1>2, <2>1
      <3>2. rest = [n \in 1 .. Len(components) |-> rest[n]]
            /\ components = [n \in 1 .. Len(components) |-> components[n]]
        BY <1>1, <2>1
      <3>3. QED
        BY <3>1, <3>2
    <2>3. QED
      BY <2>2 DEF rest
  <1>5. QED
    BY <1>3, <1>4 DEF StripRoot, path

(* An end of a finding lies in a file of the workspace.                    *)
LEMMA ItemPaths ==
  ASSUME NEW opts, NEW its \in Seq(WorkspaceItems(opts)), NEW i \in 1 .. Len(its)
  PROVE  EndOf(its[i]).path \in Paths
  <1>1. its[i] \in WorkspaceItems(opts)
    OBVIOUS
  <1>2. PICK p \in Paths, part \in AllParts(opts) : its[i] = Item(p, part, opts)
    BY <1>1 DEF WorkspaceItems
  <1>3. QED
    BY <1>2 DEF Item, EndOf

TagsRight(f) ==
  /\ "TestOnly" \in f.tags <=>
       IsTestPath(Components[f.a.path]) /\ IsTestPath(Components[f.b.path])
  /\ "CrossModule" \in f.tags <=> Components[f.a.path][1] # Components[f.b.path][1]

LEMMA TagsOfEnds ==
  ASSUME NEW root, root \in Seq(Range(root)), NEW v, NEW a, NEW b, a.path \in Paths, b.path \in Paths
  PROVE  TagsRight(ClassifyWithRoot(root, v, a, b))
  <1>1. \A p \in Paths : Components[p] \in Seq(Range(Components[p]))
    BY ClassifierAssumption, ScanAssumption
  <1>2. Relative(root, a) = Components[a.path] /\ Relative(root, b) = Components[b.path]
    BY <1>1, StripsRoot DEF Relative
  <1> DEFINE f == ClassifyWithRoot(root, v, a, b)
  <1>3. f.a = a /\ f.b = b /\ f.tags = TagsOf(root, v, a, b)
    BY DEF ClassifyWithRoot
  <1>4. "TestOnly" \in TagsOf(root, v, a, b) <=>
          IsTestPath(Relative(root, a)) /\ IsTestPath(Relative(root, b))
    BY DEF TagsOf
  <1>5. "CrossModule" \in TagsOf(root, v, a, b) <=>
          Relative(root, a)[1] # Relative(root, b)[1]
    BY DEF TagsOf, TopModule
  <1> HIDE DEF f
  <1>6. QED
    BY <1>2, <1>3, <1>4, <1>5 DEF TagsRight, f

(* A pair is TestOnly or CrossModule by the paths below the scanned        *)
(* directory, wherever that lies: below a directory called tests too.      *)
THEOREM TagsAreOfProject == CommandsSpec => []TagsOfProject
  <1>1. CommandsIInv => TagsOfProject
    <2>1. SUFFICES ASSUME CommandsIInv, NEW n \in DOMAIN report.findings
                   PROVE  TagsRight(report.findings[n][2])
      BY DEF TagsOfProject, TagsRight
    <2>2. report # NoReport
      BY <2>1 DEF NoReport
    <2>3. PICK opts \in ScanOpts : \E its \in Workspaces(opts) :
            ReportOf(report, opts, its)
      BY <2>1, <2>2 DEF CommandsIInv, ReportInv, ReportIs
    <2>4. PICK its \in Workspaces(opts) : ReportOf(report, opts, its)
      BY <2>3
    <2> USE WorkspaceType
    <2>5. report.findings[n] \in FoundIn(its, opts)
      BY <2>1, <2>4 DEF ReportOf, Ordering
    <2>6. PICK i \in 1 .. Len(its), j \in 1 .. Len(its) :
            report.findings[n] = Classified(its, opts, i, j, VerdictOf(its, opts, <<i, j>>))
      <3> DEFINE f == report.findings[n]
      <3>1. f \in FoundIn(its, opts)
        BY <2>5
      <3> HIDE DEF f
      <3>2. \E i, j \in 1 .. Len(its) :
              f = Classified(its, opts, i, j, VerdictOf(its, opts, <<i, j>>))
        BY <3>1, FoundElements
      <3>3. QED
        BY <3>2 DEF f
    <2>7. EndOf(its[i]).path \in Paths /\ EndOf(its[j]).path \in Paths
      BY ItemPaths
    <2>8. opts.root \in Seq(Range(opts.root))
      BY CommandsAssumption
    <2>9. report.findings[n][2] = ClassifyWithRoot(opts.root, VerdictOf(its, opts, <<i, j>>),
                                                   EndOf(its[i]), EndOf(its[j]))
      BY <2>6 DEF Classified
    <2>10. QED
      BY <2>7, <2>8, <2>9, TagsOfEnds, SMTT(40)
  <1>2. QED
    BY <1>1, CommandsInvariant, PTL

-----------------------------------------------------------------------------
(* The keys of items: no two items of a workspace have one, when no two    *)
(* functions of a file have one granule.                                   *)

DistinctGranules ==
  \A c \in Contents : \A n, m \in DOMAIN Functions(c) :
    Functions(c)[n].granule = Functions(c)[m].granule => n = m

KeyOf(item) == <<item.path, item.granule>>

KeysDistinct(s) == \A i, j \in DOMAIN s : KeyOf(s[i]) = KeyOf(s[j]) => i = j

KeysApart(s, t) == \A i \in DOMAIN s, j \in DOMAIN t : KeyOf(s[i]) # KeyOf(t[j])

LEMMA AppendDistinct ==
  ASSUME NEW T, NEW s \in Seq(T), NEW t \in Seq(T),
         KeysDistinct(s), KeysDistinct(t), KeysApart(s, t)
  PROVE  KeysDistinct(s \o t)
  <1> DEFINE r == s \o t
  <1>1. /\ DOMAIN s = 1 .. Len(s) /\ DOMAIN t = 1 .. Len(t)
        /\ Len(s) \in Nat /\ Len(t) \in Nat
        /\ DOMAIN r = 1 .. (Len(s) + Len(t))
        /\ \A i \in DOMAIN r : r[i] = IF i <= Len(s) THEN s[i] ELSE t[i - Len(s)]
    OBVIOUS
  <1> HIDE DEF r
  <1>2. \A i \in DOMAIN r : IF i <= Len(s) THEN i \in DOMAIN s ELSE i - Len(s) \in DOMAIN t
    BY <1>1
  <1>3. SUFFICES ASSUME NEW i \in DOMAIN r, NEW j \in DOMAIN r, KeyOf(r[i]) = KeyOf(r[j])
                 PROVE  i = j
    BY DEF KeysDistinct, r
  <1>4. CASE i <= Len(s) /\ j <= Len(s)
    BY <1>1, <1>2, <1>3, <1>4 DEF KeysDistinct
  <1>5. CASE ~(i <= Len(s)) /\ ~(j <= Len(s))
    <2>1. i - Len(s) = j - Len(s)
      BY <1>1, <1>2, <1>3, <1>5 DEF KeysDistinct
    <2>2. QED
      BY <1>1, <2>1
  <1>6. CASE i <= Len(s) /\ ~(j <= Len(s))
    BY <1>1, <1>2, <1>3, <1>6 DEF KeysApart
  <1>7. CASE ~(i <= Len(s)) /\ j <= Len(s)
    BY <1>1, <1>2, <1>3, <1>7 DEF KeysApart
  <1>8. QED
    BY <1>4, <1>5, <1>6, <1>7

(* What of a sequence comes from the first k rows.                         *)
ComesFrom(x, seqs, k) == \E n \in 1 .. k : \E m \in DOMAIN seqs[n] : x = seqs[n][m]

AllComeFrom(s, seqs, k) == \A i \in DOMAIN s : ComesFrom(s[i], seqs, k)

LEMMA AppendComesFrom ==
  ASSUME NEW T, NEW seqs \in Seq(Seq(T)), NEW k \in 1 .. Len(seqs), NEW s \in Seq(T),
         AllComeFrom(s, seqs, k - 1)
  PROVE  AllComeFrom(s \o seqs[k], seqs, k)
  <1> DEFINE t == seqs[k]
             r == s \o t
  <1>1. t \in Seq(T) /\ k \in Nat
    OBVIOUS
  <1>2. \A i \in DOMAIN t : ComesFrom(t[i], seqs, k)
    BY DEF ComesFrom
  <1>3. \A i \in DOMAIN s : ComesFrom(s[i], seqs, k)
    <2>1. \A n \in 1 .. (k - 1) : n \in 1 .. k
      BY <1>1
    <2>2. QED
      BY <2>1 DEF AllComeFrom, ComesFrom
  <1> HIDE DEF t
  <1>4. \A i \in DOMAIN r : \/ i \in DOMAIN s /\ r[i] = s[i]
                            \/ i - Len(s) \in DOMAIN t /\ r[i] = t[i - Len(s)]
    BY <1>1
  <1> HIDE DEF r
  <1>5. QED
    BY <1>2, <1>3, <1>4 DEF AllComeFrom, r, t

RowsDistinct(seqs) ==
  /\ \A n \in 1 .. Len(seqs) : KeysDistinct(seqs[n])
  /\ \A n, m \in 1 .. Len(seqs) : n # m => KeysApart(seqs[n], seqs[m])

LEMMA FlattenDistinct ==
  ASSUME NEW T, NEW seqs \in Seq(Seq(T)), RowsDistinct(seqs)
  PROVE  KeysDistinct(FlattenSeq(seqs)) /\ AllComeFrom(FlattenSeq(seqs), seqs, Len(seqs))
  <1>1. PICK g \in [0 .. Len(seqs) -> Seq(T)] :
          Flattens(g, seqs) /\ FlattenSeq(seqs) = g[Len(seqs)]
    BY FlattenSteps
  <1>2. Len(seqs) \in Nat
    OBVIOUS
  <1> DEFINE Good(k) == KeysDistinct(g[k]) /\ AllComeFrom(g[k], seqs, k)
             Bad == {k \in 0 .. Len(seqs) : ~Good(k)}
  <1>3. Good(0)
    <2>1. g[0] = <<>>
      BY <1>1 DEF Flattens
    <2>2. QED
      BY <2>1 DEF KeysDistinct, AllComeFrom
  <1>4. ASSUME NEW k \in 1 .. Len(seqs), Good(k - 1)
        PROVE  Good(k)
    <2>1. k - 1 \in 0 .. Len(seqs)
      BY <1>2
    <2>2. g[k - 1] \in Seq(T) /\ seqs[k] \in Seq(T)
      <3> DEFINE S == Seq(T)
      <3>1. g \in [0 .. Len(seqs) -> S] /\ seqs \in Seq(S)
        OBVIOUS
      <3> HIDE DEF S
      <3>2. g[k - 1] \in S
        BY <2>1, <3>1
      <3>3. seqs[k] \in S
        BY <3>1
      <3>4. QED
        BY <3>2, <3>3 DEF S
    <2>3. KeysApart(g[k - 1], seqs[k])
      <3>1. \A n \in 1 .. (k - 1) : n \in 1 .. Len(seqs) /\ n # k
        BY <1>2
      <3>2. \A n \in 1 .. (k - 1) : KeysApart(seqs[n], seqs[k])
        BY <3>1 DEF RowsDistinct
      <3>3. ASSUME NEW i \in DOMAIN g[k - 1], NEW j \in DOMAIN seqs[k]
            PROVE  KeyOf(g[k - 1][i]) # KeyOf(seqs[k][j])
        <4>1. PICK n \in 1 .. (k - 1) : \E m \in DOMAIN seqs[n] : g[k - 1][i] = seqs[n][m]
          BY <1>4 DEF AllComeFrom, ComesFrom
        <4>2. PICK m \in DOMAIN seqs[n] : g[k - 1][i] = seqs[n][m]
          BY <4>1
        <4>3. QED
          BY <3>2, <4>2 DEF KeysApart
      <3>4. QED
        BY <3>3 DEF KeysApart
    <2> DEFINE before == g[k - 1]
               row == seqs[k]
    <2>4. g[k] = before \o row
      BY <1>1 DEF Flattens
    <2>5. KeysDistinct(before) /\ AllComeFrom(before, seqs, k - 1) /\ KeysDistinct(row)
      BY <1>4 DEF RowsDistinct
    <2>6. AllComeFrom(before \o seqs[k], seqs, k)
      BY <2>2, <2>5, AppendComesFrom
    <2> HIDE DEF before
    <2>7. before \in Seq(T) /\ row \in Seq(T) /\ KeysApart(before, row)
      BY <2>2, <2>3 DEF before
    <2> HIDE DEF row
    <2>8. KeysDistinct(before \o row)
      BY <2>5, <2>7, AppendDistinct
    <2>9. QED
      BY <2>4, <2>6, <2>8 DEF row
  <1>5. Bad = {}
    <2> HIDE DEF Good
    <2>1. SUFFICES ASSUME Bad # {} PROVE FALSE
      OBVIOUS
    <2>2. PICK k \in Bad : \A j \in Bad : k <= j
      <3>1. Bad \in SUBSET Nat
        BY <1>2
      <3> HIDE DEF Bad
      <3>2. QED
        BY <2>1, <3>1, LeastNumber
    <2>3. k \in 1 .. Len(seqs) /\ k - 1 \in 0 .. Len(seqs) /\ k - 1 \notin Bad
      BY <1>2, <1>3, <2>2
    <2>4. QED
      BY <1>4, <2>2, <2>3
  <1>6. Good(Len(seqs))
    <2> HIDE DEF Good
    <2>1. QED
      BY <1>2, <1>5
  <1>7. QED
    BY <1>1, <1>6

(* The walk names each file once.                                          *)
LEMMA PathOrderOnce ==
  \A n, m \in DOMAIN PathOrder : PathOrder[n] = PathOrder[m] => n = m
  <1> DEFINE N == Cardinality(Paths)
  <1>1. N \in Nat /\ Bijection(1 .. N, Paths) # {}
    BY ScanAssumption, FS_CardinalityType DEF ExistsBijection
  <1>2. PICK f \in [1 .. N -> Paths] : IsInjective(f)
    BY <1>1 DEF Bijection, Injection
  <1>3. IsInjective(PathOrder)
    BY <1>2 DEF PathOrder, SetToSeq
  <1>4. QED
    BY <1>3 DEF IsInjective

(* The items of a file are in it and have keys of their own.               *)
LEMMA ItemsOfDistinct ==
  ASSUME DistinctGranules, NEW p \in Paths, NEW c \in Content, NEW opts
  PROVE  /\ KeysDistinct(ItemsOf(p, c, opts))
         /\ \A i \in DOMAIN ItemsOf(p, c, opts) : ItemsOf(p, c, opts)[i].path = p
  <1>1. CASE c = Absent \/ opts.onlyLang \notin {AnyLang, LangOf[p]}
    BY <1>1 DEF ItemsOf, KeysDistinct
  <1>2. CASE ~(c = Absent \/ opts.onlyLang \notin {AnyLang, LangOf[p]})
    <2> DEFINE parts == Parts(p, c, opts)
               row(n) == IF Item(p, parts[n], opts).hashes = <<>> THEN <<>>
                         ELSE <<Item(p, parts[n], opts)>>
               rows == [n \in DOMAIN parts |-> row(n)]
               T == {Item(p, part, opts) : part \in Range(parts)}
    <2>1. ItemsOf(p, c, opts) = FlattenSeq(rows)
      BY <1>2 DEF ItemsOf
    <2>2. DOMAIN parts = 1 .. Len(parts) /\ Len(parts) \in Nat
      BY <1>2, PartsType DEF Content
    <2>3. \A n, m \in DOMAIN parts : parts[n].granule = parts[m].granule => n = m
      <3>1. CASE opts.granularity = "File"
        BY <3>1 DEF Parts
      <3>2. CASE opts.granularity # "File" /\ LangOf[p] \in SlicedLangs
        BY <1>2, <3>2 DEF Parts, DistinctGranules, Content
      <3>3. CASE opts.granularity # "File" /\ LangOf[p] \notin SlicedLangs
        BY <3>3 DEF Parts
      <3>4. QED
        BY <3>1, <3>2, <3>3
    <2>4. \A n \in DOMAIN parts : Item(p, parts[n], opts) \in T
      BY DEF Range
    <2> HIDE DEF parts, T
    <2>5. \A n \in DOMAIN parts : row(n) \in Seq(T)
      <3>1. TAKE n \in DOMAIN parts
      <3> DEFINE item == Item(p, parts[n], opts)
      <3>2. item \in T /\ row(n) = IF item.hashes = <<>> THEN <<>> ELSE <<item>>
        BY <2>4
      <3> HIDE DEF item, row
      <3>3. QED
        BY <3>2
    <2>6. ASSUME NEW n \in DOMAIN parts, NEW i \in DOMAIN row(n)
          PROVE  /\ i = 1 /\ row(n)[i].path = p
                 /\ KeyOf(row(n)[i]) = <<p, parts[n].granule>>
      BY DEF Item, KeyOf
    <2> HIDE DEF row
    <2>7. rows \in Seq(Seq(T)) /\ Len(rows) = Len(parts)
          /\ \A n \in 1 .. Len(rows) : n \in DOMAIN parts /\ rows[n] = row(n)
      <3>1. rows \in [1 .. Len(parts) -> Seq(T)]
        BY <2>2, <2>5
      <3>2. \A n \in 1 .. Len(parts) : n \in DOMAIN parts /\ rows[n] = row(n)
        BY <2>2
      <3> HIDE DEF rows
      <3>3. QED
        BY <2>2, <3>1, <3>2
    <2> HIDE DEF rows
    <2>8. RowsDistinct(rows)
      <3>1. ASSUME NEW n \in 1 .. Len(rows)
            PROVE  KeysDistinct(rows[n])
        BY <2>6, <2>7 DEF KeysDistinct
      <3>2. ASSUME NEW n \in 1 .. Len(rows), NEW m \in 1 .. Len(rows), n # m
            PROVE  KeysApart(rows[n], rows[m])
        <4>1. rows[n] = row(n) /\ rows[m] = row(m) /\ n \in DOMAIN parts /\ m \in DOMAIN parts
          BY <2>7
        <4>2. parts[n].granule # parts[m].granule
          BY <2>3, <3>2, <4>1
        <4>3. ASSUME NEW i \in DOMAIN row(n), NEW j \in DOMAIN row(m)
              PROVE  KeyOf(row(n)[i]) # KeyOf(row(m)[j])
          <5>1. KeyOf(row(n)[i]) = <<p, parts[n].granule>>
                /\ KeyOf(row(m)[j]) = <<p, parts[m].granule>>
            BY <2>6, <4>1
          <5>2. QED
            BY <4>2, <5>1
        <4>4. QED
          BY <4>1, <4>3 DEF KeysApart
      <3>3. QED
        BY <3>1, <3>2 DEF RowsDistinct
    <2>9. KeysDistinct(FlattenSeq(rows)) /\ AllComeFrom(FlattenSeq(rows), rows, Len(rows))
      BY <2>7, <2>8, FlattenDistinct
    <2>10. ASSUME NEW i \in DOMAIN FlattenSeq(rows)
           PROVE  FlattenSeq(rows)[i].path = p
      <3>1. PICK n \in 1 .. Len(rows) : \E m \in DOMAIN rows[n] : FlattenSeq(rows)[i] = rows[n][m]
        BY <2>9 DEF AllComeFrom, ComesFrom
      <3>2. PICK m \in DOMAIN rows[n] : FlattenSeq(rows)[i] = rows[n][m]
        BY <3>1
      <3>3. QED
        BY <2>6, <2>7, <3>2, ZenonT(60)
    <2>11. QED
      BY <2>1, <2>9, <2>10
  <1>3. QED
    BY <1>1, <1>2

LEMMA WorkspaceDistinct ==
  ASSUME DistinctGranules, NEW opts, NEW its \in Workspaces(opts)
  PROVE  KeysDistinct(its)
  <1>1. PICK h \in [Paths -> Content] : its = Collected(h, opts)
    BY DEF Workspaces
  <1> DEFINE row(n) == ItemsOf(PathOrder[n], h[PathOrder[n]], opts)
             rows == [n \in DOMAIN PathOrder |-> row(n)]
             T == WorkspaceItems(opts)
  <1>2. DOMAIN PathOrder = 1 .. Len(PathOrder) /\ Len(PathOrder) \in Nat
        /\ \A n \in DOMAIN PathOrder : PathOrder[n] \in Paths /\ h[PathOrder[n]] \in Content
    BY PathOrderType
  <1>3. \A n \in DOMAIN PathOrder : row(n) \in Seq(T)
    BY <1>2, ItemsOfType
  <1>4. \A n \in DOMAIN PathOrder :
          KeysDistinct(row(n)) /\ \A i \in DOMAIN row(n) : row(n)[i].path = PathOrder[n]
    BY <1>2, ItemsOfDistinct
  <1>5. its = FlattenSeq(rows)
    BY <1>1 DEF Collected
  <1> HIDE DEF row, T
  <1>6. rows \in Seq(Seq(T)) /\ Len(rows) = Len(PathOrder)
        /\ \A n \in 1 .. Len(rows) : n \in DOMAIN PathOrder /\ rows[n] = row(n)
    <2>1. rows \in [1 .. Len(PathOrder) -> Seq(T)]
      BY <1>2, <1>3
    <2>2. \A n \in 1 .. Len(PathOrder) : n \in DOMAIN PathOrder /\ rows[n] = row(n)
      BY <1>2
    <2> HIDE DEF rows
    <2>3. QED
      BY <1>2, <2>1, <2>2
  <1> HIDE DEF rows
  <1>7. RowsDistinct(rows)
    <2>1. \A n \in 1 .. Len(rows) : KeysDistinct(rows[n])
      BY <1>4, <1>6
    <2>2. ASSUME NEW n \in 1 .. Len(rows), NEW m \in 1 .. Len(rows), n # m
          PROVE  KeysApart(rows[n], rows[m])
      <3>1. PathOrder[n] # PathOrder[m]
        BY <1>6, <2>2, PathOrderOnce
      <3>2. ASSUME NEW i \in DOMAIN rows[n], NEW j \in DOMAIN rows[m]
            PROVE  KeyOf(rows[n][i]) # KeyOf(rows[m][j])
        <4>1. rows[n][i].path = PathOrder[n] /\ rows[m][j].path = PathOrder[m]
          BY <1>4, <1>6
        <4>2. QED
          BY <3>1, <4>1 DEF KeyOf
      <3>3. QED
        BY <3>2 DEF KeysApart
    <2>3. QED
      BY <2>1, <2>2 DEF RowsDistinct
  <1>8. QED
    BY <1>5, <1>6, <1>7, FlattenDistinct

-----------------------------------------------------------------------------
(* Rounds.  What the options are resolved to.                              *)
LEMMA SettingsFacts ==
  ASSUME NEW srv, ServerIs(srv)
  PROVE  srv.settings.highlightTop \in Nat /\ srv.settings.highlightSeverity # Dropped
  <1> DEFINE Levels == {"HINT", "INFORMATION", "WARNING"}
  <1>1. Defaults.highlightTop = 20 /\ Defaults.highlightSeverity = "WARNING"
        /\ {"highlightTop", "highlightSeverity"} \subseteq Options
    BY DEF Defaults, Options
  <1>2. CASE srv = NoServer
    BY <1>1, <1>2, RankingAssumption DEF NoServer
  <1>3. CASE srv # NoServer
    <2>1. PICK given \in Givens : srv.settings = Resolve(given).settings
      BY <1>3 DEF ServerIs
    <2> DEFINE value(o) == IF Malformed(given) \/ given[o] = Unset THEN Defaults[o]
                           ELSE IF Accepts(o, given[o]) THEN Setting(o, given[o])
                           ELSE Defaults[o]
    <2>2. srv.settings.highlightTop = value("highlightTop")
          /\ srv.settings.highlightSeverity = value("highlightSeverity")
      BY <1>1, <2>1 DEF Resolve
    <2>3. value("highlightTop") \in Nat
      <3>1. given.highlightTop \in Nat \cup {Unset, IllTyped}
        BY CommandsAssumption
      <3>2. given["highlightTop"] = IllTyped => Malformed(given)
        BY <1>1 DEF Malformed
      <3>3. Setting("highlightTop", given["highlightTop"]) = given["highlightTop"]
        BY DEF Setting, Enumerated
      <3>4. QED
        BY <1>1, <3>1, <3>2, <3>3
    <2>4. value("highlightSeverity") \in Levels
      <3>1. \A v : Accepts("highlightSeverity", v) => v \in DOMAIN ParseSeverity(FALSE)
        BY DEF Accepts, Enumerated
      <3>2. \A v : Setting("highlightSeverity", v) = ParseSeverity(FALSE)[v]
        BY DEF Setting, Enumerated
      <3>3. \A v \in DOMAIN ParseSeverity(FALSE) : ParseSeverity(FALSE)[v] \in Levels
        BY DEF ParseSeverity, Severities
      <3>4. QED
        BY <1>1, <3>1, <3>2, <3>3
    <2>5. QED
      BY <2>2, <2>3, <2>4, RankingAssumption
  <1>4. QED
    BY <1>2, <1>3

(* The ends of a finding are files of the workspace, and tell findings     *)
(* apart when keys are distinct.                                           *)
EndsInside(F) == \A f \in F : f[2].a.path \in Paths /\ f[2].b.path \in Paths

ToldApart(F) == \A f, g \in F : f[2] = g[2] => f = g

LEMMA FoundEnds ==
  ASSUME NEW opts, NEW its \in Workspaces(opts)
  PROVE  EndsInside(FoundIn(its, opts)) /\ (DistinctGranules => ToldApart(FoundIn(its, opts)))
  <1>1. its \in Seq(WorkspaceItems(opts))
    BY WorkspaceType
  <1> DEFINE F == FoundIn(its, opts)
             N == Len(its)
             c(i, j) == Classified(its, opts, i, j, VerdictOf(its, opts, <<i, j>>))
             a(f) == f[2].a
             b(f) == f[2].b
  <1>2. \A f \in F : \E i, j \in 1 .. N : f = c(i, j)
    BY <1>1, FoundElements
  <1>3. \A i, j \in 1 .. N : a(c(i, j)) = EndOf(its[i]) /\ b(c(i, j)) = EndOf(its[j])
    BY DEF Classified, ClassifyWithRoot
  <1>4. EndsInside(F)
    <2>1. \A i \in 1 .. N : EndOf(its[i]).path \in Paths
      BY <1>1, ItemPaths
    <2>2. ASSUME NEW f \in F PROVE a(f).path \in Paths /\ b(f).path \in Paths
      <3>1. PICK i \in 1 .. N, j \in 1 .. N : f = c(i, j)
        BY <1>2
      <3> HIDE DEF F, N, c
      <3>2. a(f) = EndOf(its[i]) /\ b(f) = EndOf(its[j])
        BY <1>3, <3>1
      <3>3. QED
        BY <2>1, <3>2
    <2>3. QED
      BY <2>2 DEF EndsInside
  <1>5. ASSUME DistinctGranules
        PROVE  ToldApart(F)
    <2>1. \A i, j \in 1 .. N : EndOf(its[i]) = EndOf(its[j]) => i = j
      <3>1. KeysDistinct(its) /\ DOMAIN its = 1 .. N
        BY <1>1, <1>5, WorkspaceDistinct
      <3>2. \A i, j \in 1 .. N : EndOf(its[i]) = EndOf(its[j]) => KeyOf(its[i]) = KeyOf(its[j])
        BY DEF EndOf, KeyOf
      <3>3. QED
        BY <3>1, <3>2 DEF KeysDistinct
    <2>2. ASSUME NEW f \in F, NEW g \in F, f[2] = g[2] PROVE f = g
      <3>1. PICK i \in 1 .. N, j \in 1 .. N : f = c(i, j)
        BY <1>2
      <3>2. PICK k \in 1 .. N, l \in 1 .. N : g = c(k, l)
        BY <1>2
      <3>3. a(f) = a(g) /\ b(f) = b(g)
        BY <2>2
      <3> HIDE DEF F, N, c, a, b
      <3>4. i = k /\ j = l
        BY <1>3, <2>1, <3>1, <3>2, <3>3
      <3>5. QED
        BY <3>1, <3>2, <3>4
    <2>3. QED
      BY <2>2 DEF ToldApart
  <1>6. QED
    BY <1>4, <1>5

(* Everything ranked is published.                                         *)
LEMMA PublishedIsRanked ==
  ASSUME NEW F, NEW s, Ordering(s, F, ByScore(F)), EndsInside(F), NEW settings
  PROVE  UNION {Group(Ranked(s, settings))[p] : p \in Paths} = Ranked(s, settings)
  <1> DEFINE R == Ranked(s, settings)
  <1>1. \A rf \in R : rf.finding.a.path \in Paths
    <2>1. TAKE rf \in R
    <2>2. PICK n \in DOMAIN s : rf = [finding |-> s[n][2], severity |-> SeverityAt(n, settings)]
      BY DEF Ranked
    <2>3. s[n] \in F
      BY DEF Ordering
    <2>4. QED
      BY <2>2, <2>3 DEF EndsInside
  <1> HIDE DEF R
  <1>2. \A p \in Paths : Group(R)[p] = {rf \in R : p \in EndPaths(rf)}
    BY DEF Group
  <1>3. \A rf \in R : rf.finding.a.path \in EndPaths(rf)
    BY DEF EndPaths
  <1>4. UNION {Group(R)[p] : p \in Paths} = R
    BY <1>1, <1>2, <1>3
  <1>5. QED
    BY <1>4 DEF R

(* What is ranked, by position.                                            *)
LEMMA RankedAt ==
  ASSUME NEW F, IsFiniteSet(F), NEW s, Ordering(s, F, ByScore(F)), NEW settings, ToldApart(F)
  PROVE  \A m \in 1 .. Cardinality(F) :
           {rf.severity : rf \in {r \in Ranked(s, settings) : r.finding = s[m][2]}}
             = {SeverityAt(m, settings)} \ {Dropped}
  <1> DEFINE N == Cardinality(F)
             R == Ranked(s, settings)
  <1>1. DOMAIN s = 1 .. N /\ (\A n \in 1 .. N : s[n] \in F)
        /\ (\A n, m \in 1 .. N : s[n] = s[m] => n = m)
    BY DEF Ordering
  <1>2. \A n, m \in 1 .. N : s[n][2] = s[m][2] => n = m
    BY <1>1 DEF ToldApart
  <1>3. \A r : r \in R <=> \E n \in 1 .. N : /\ SeverityAt(n, settings) # Dropped
                                             /\ r = [finding |-> s[n][2],
                                                     severity |-> SeverityAt(n, settings)]
    BY <1>1 DEF Ranked
  <1> HIDE DEF N, R
  <1>4. ASSUME NEW m \in 1 .. N
        PROVE  {rf.severity : rf \in {r \in R : r.finding = s[m][2]}}
                 = {SeverityAt(m, settings)} \ {Dropped}
    <2>1. ASSUME NEW r \in R, r.finding = s[m][2]
          PROVE  r.severity = SeverityAt(m, settings) /\ r.severity # Dropped
      <3>1. PICK n \in 1 .. N : /\ SeverityAt(n, settings) # Dropped
                                /\ r = [finding |-> s[n][2], severity |-> SeverityAt(n, settings)]
        BY <1>3
      <3>2. n = m
        BY <1>2, <2>1, <3>1
      <3>3. QED
        BY <3>1, <3>2
    <2>2. ASSUME SeverityAt(m, settings) # Dropped
          PROVE  \E r \in R : r.finding = s[m][2] /\ r.severity = SeverityAt(m, settings)
      <3> DEFINE r == [finding |-> s[m][2], severity |-> SeverityAt(m, settings)]
      <3>1. r \in R /\ r.finding = s[m][2] /\ r.severity = SeverityAt(m, settings)
        BY <1>3, <2>2
      <3> HIDE DEF r
      <3>2. QED
        BY <3>1
    <2>3. QED
      BY <2>1, <2>2
  <1>5. QED
    BY <1>4 DEF N, R

FirstValues(g, N, n) == {g[i] : i \in {j \in 1 .. N : j <= n}}

(* As many are highlighted as were asked for and found.                    *)
LEMMA CountFirst ==
  ASSUME NEW S, NEW N \in Nat, NEW n \in Nat, NEW g \in [1 .. N -> S],
         \A i, j \in 1 .. N : g[i] = g[j] => i = j
  PROVE  Cardinality(FirstValues(g, N, n)) = Min({n, N})
  <1> DEFINE m == IF n <= N THEN n ELSE N
             T == {g[i] : i \in {j \in 1 .. N : j <= n}}
             h == [i \in 1 .. m |-> g[i]]
  <1>1. m \in Nat /\ m <= N /\ m <= n
    OBVIOUS
  <1>2. Min({n, N}) = m
    <2>1. m \in {n, N} /\ \A y \in {n, N} : m <= y
      OBVIOUS
    <2>2. \A x \in {n, N} : (\A y \in {n, N} : x <= y) => x = m
      <3>1. TAKE x \in {n, N}
      <3>2. HAVE \A y \in {n, N} : x <= y
      <3>3. x <= m /\ m <= x /\ x \in Nat /\ m \in Nat
        BY <2>1, <3>2
      <3>4. QED
        BY <3>3
    <2> HIDE DEF m
    <2>3. QED
      BY <2>1, <2>2 DEF Min
  <1>3. \A i : i \in 1 .. m <=> i \in 1 .. N /\ i <= n
    OBVIOUS
  <1> HIDE DEF m
  <1>4. T = {g[i] : i \in 1 .. m}
    BY <1>3
  <1> HIDE DEF T
  <1>5. h \in Bijection(1 .. m, T)
    <2>1. h \in [1 .. m -> T] /\ \A i \in 1 .. m : h[i] = g[i]
      BY <1>4
    <2>2. \A i, j \in 1 .. m : h[i] = h[j] => i = j
      BY <1>3, <2>1
    <2>3. \A t \in T : \E i \in 1 .. m : h[i] = t
      BY <1>4, <2>1
    <2> HIDE DEF h
    <2>4. QED
      BY <2>1, <2>2, <2>3 DEF Bijection, Injection, Surjection, IsInjective
  <1>6. Cardinality(T) = m
    <2>1. IsFiniteSet(1 .. m) /\ Cardinality(1 .. m) = m
      BY <1>1, FS_Interval
    <2>2. QED
      BY <1>5, <2>1, FS_Bijection DEF ExistsBijection
  <1>7. QED
    BY <1>2, <1>6 DEF T, FirstValues

LEMMA TiersFollow ==
  ASSUME CommandsIInv, DistinctGranules
  PROVE  TiersByScore
  <1> DEFINE H == server.settings.highlightSeverity
             tail == server.settings.tailSeverity
             n == server.settings.highlightTop
             severityOf(f) == {rf.severity : rf \in {r \in PublishedPairs : r.finding = f}}
             all == {f[2] : f \in served}
             top == {f \in all : severityOf(f) = {H}}
  <1>1. SUFFICES ASSUME H # tail
                 PROVE  /\ Cardinality(top) = Min({n, Cardinality(all)})
                        /\ \A f \in top, g \in all \ top : AtMost(g.score, f.score)
                        /\ \A g \in all \ top : severityOf(g) = {tail} \ {Dropped}
    BY DEF TiersByScore
  <1>2. n \in Nat /\ H # Dropped
    BY SettingsFacts DEF CommandsIInv, ServerInv
  <1>3. RoundIs(server, served, byFile)
    BY DEF CommandsIInv, RoundInv
  <1>4. CASE served = {} /\ byFile = [p \in Paths |-> {}]
    <2>1. all = {} /\ top = {}
      BY <1>4
    <2>2. Cardinality(all) = 0 /\ Cardinality(top) = 0
      BY <2>1, FS_EmptySet
    <2>3. Min({n, 0}) = 0
      <3>1. \A x \in {n, 0} : (\A y \in {n, 0} : x <= y) => x = 0
        BY <1>2
      <3>2. \A y \in {n, 0} : 0 <= y
        BY <1>2
      <3>3. QED
        BY <3>1, <3>2 DEF Min
    <2>4. QED
      BY <2>1, <2>2, <2>3
  <1>5. ASSUME NEW s, Ordering(s, served, ByScore(served)),
               byFile = Group(Ranked(s, server.settings)),
               NEW its \in Workspaces(ServeOpts(server)),
               served = FoundIn(its, ServeOpts(server))
        PROVE  /\ Cardinality(top) = Min({n, Cardinality(all)})
               /\ \A f \in top, g \in all \ top : AtMost(g.score, f.score)
               /\ \A g \in all \ top : severityOf(g) = {tail} \ {Dropped}
    <2> DEFINE N == Cardinality(served)
               g2 == [i \in 1 .. N |-> s[i][2]]
    <2>1. IsFiniteSet(served) /\ N \in Nat
      BY <1>5, WorkspaceType, FoundFinite, FS_CardinalityType
    <2>2. EndsInside(served) /\ ToldApart(served)
      BY <1>5, FoundEnds
    <2>3. PublishedPairs = Ranked(s, server.settings)
      BY <1>5, <2>2, PublishedIsRanked DEF PublishedPairs
    <2>4. \A m \in 1 .. N : severityOf(s[m][2]) = {SeverityAt(m, server.settings)} \ {Dropped}
      BY <1>5, <2>1, <2>2, <2>3, RankedAt
    <2>5. \A m \in 1 .. N : SeverityAt(m, server.settings) = IF m <= n THEN H ELSE tail
      BY DEF SeverityAt
    <2>6. DOMAIN s = 1 .. N /\ (\A i \in 1 .. N : s[i] \in served)
          /\ (\A i, j \in 1 .. N : s[i] = s[j] => i = j)
          /\ (\A i, j \in 1 .. N : i <= j => <<s[j], s[i]>> \notin ByScore(served))
      BY <1>5 DEF Ordering
    <2>7. \A x \in served : \E i \in 1 .. N : s[i] = x
      BY <1>5, <2>1, OrderingOnto
    <2> HIDE DEF N, severityOf, H, tail, n
    <2>8. all = {s[i][2] : i \in 1 .. N}
      BY <2>6, <2>7
    <2>9. \A i, j \in 1 .. N : s[i][2] = s[j][2] => i = j
      BY <2>2, <2>6 DEF ToldApart
    <2>10. \A m \in 1 .. N : s[m][2] \in top <=> m <= n
      <3>1. TAKE m \in 1 .. N
      <3>2. s[m][2] \in top <=> severityOf(s[m][2]) = {H}
        BY <2>8
      <3>3. CASE m <= n
        BY <1>2, <2>4, <2>5, <3>2, <3>3
      <3>4. CASE ~(m <= n)
        BY <1>1, <1>2, <2>4, <2>5, <3>2, <3>4
      <3>5. QED
        BY <3>3, <3>4
    <2>11. top = {s[i][2] : i \in {j \in 1 .. N : j <= n}}
      BY <2>8, <2>10
    <2> HIDE DEF all, top
    <2>12. Cardinality(top) = Min({n, N})
      <3>1. g2 \in [1 .. N -> all] /\ \A i \in 1 .. N : g2[i] = s[i][2]
        BY <2>8
      <3>2. \A i, j \in 1 .. N : g2[i] = g2[j] => i = j
        BY <2>9, <3>1
      <3>3. top = {g2[i] : i \in {j \in 1 .. N : j <= n}}
        BY <2>11, <3>1
      <3> HIDE DEF g2
      <3>4. QED
        <4>1. n \in Nat /\ N \in Nat /\ g2 \in [1 .. N -> all]
          BY <1>2, <2>1, <3>1
        <4>2. Cardinality(FirstValues(g2, N, n)) = Min({n, N})
          BY <3>2, <4>1, CountFirst
        <4>3. QED
          BY <3>3, <4>2 DEF FirstValues
    <2>13. Cardinality(all) = N
      <3>1. g2 \in [1 .. N -> all] /\ \A i \in 1 .. N : g2[i] = s[i][2]
        BY <2>8
      <3>2. g2 \in Bijection(1 .. N, all)
        <4>1. \A i, j \in 1 .. N : g2[i] = g2[j] => i = j
          BY <2>9, <3>1
        <4>2. \A t \in all : \E i \in 1 .. N : g2[i] = t
          BY <2>8, <3>1
        <4> HIDE DEF g2
        <4>3. QED
          BY <3>1, <4>1, <4>2 DEF Bijection, Injection, Surjection, IsInjective
      <3>3. IsFiniteSet(1 .. N) /\ Cardinality(1 .. N) = N
        BY <2>1, FS_Interval
      <3>4. QED
        BY <3>2, <3>3, FS_Bijection DEF ExistsBijection
    <2>14. ASSUME NEW f \in top, NEW g \in all \ top
           PROVE  AtMost(g.score, f.score)
      <3>1. PICK i \in 1 .. N : f = s[i][2] /\ i <= n
        BY <2>11
      <3>2. PICK j \in 1 .. N : g = s[j][2] /\ ~(j <= n)
        BY <2>8, <2>10
      <3>3. i <= j
        BY <1>2, <2>1, <3>1, <3>2
      <3>4. <<s[j], s[i]>> \notin ByScore(served) /\ s[i] \in served /\ s[j] \in served
        BY <2>6, <3>3
      <3>5. AtMost(s[j][2].score, s[i][2].score)
        BY <3>4 DEF ByScore
      <3>6. QED
        BY <3>1, <3>2, <3>5
    <2>15. ASSUME NEW g \in all \ top
           PROVE  severityOf(g) = {tail} \ {Dropped}
      <3>1. PICK j \in 1 .. N : g = s[j][2] /\ ~(j <= n)
        BY <2>8, <2>10
      <3>2. QED
        BY <2>4, <2>5, <3>1
    <2>16. QED
      BY <2>12, <2>13, <2>14, <2>15
  <1>6. CASE ~(served = {} /\ byFile = [p \in Paths |-> {}])
    <2>1. PICK its \in Workspaces(ServeOpts(server)) : served = FoundIn(its, ServeOpts(server))
      BY <1>3, <1>6 DEF RoundIs, ServedBy
    <2>2. PICK s : Ordering(s, served, ByScore(served))
                   /\ byFile = Group(Ranked(s, server.settings))
      BY <1>3, <1>6 DEF RoundIs, RoundOf
    <2>3. QED
      BY <1>5, <2>1, <2>2
  <1>7. QED
    BY <1>4, <1>6

(* A diagnostic is at the end that is in its file, and leads to the other. *)
LEMMA ShownAtBothEnds ==
  ASSUME NEW R, NEW groups, groups = Group(R),
         \A rf \in R : rf.finding.a.path \in Paths /\ rf.finding.b.path \in Paths,
         NEW p \in Paths, NEW rf \in groups[p]
  PROVE  LET d == MakeDiagnostic(rf, p)
         IN  /\ d.at.path = p
             /\ d.related.path # p =>
                  /\ d.related.path \in Paths /\ rf \in groups[d.related.path]
                  /\ [at |-> d.related, related |-> d.at, severity |-> d.severity]
                       = MakeDiagnostic(rf, d.related.path)
  <1>1. \A q \in Paths : groups[q] = {r \in R : q \in EndPaths(r)}
    BY DEF Group
  <1>2. rf \in R /\ p \in {rf.finding.a.path, rf.finding.b.path}
    BY <1>1 DEF EndPaths
  <1>3. CASE rf.finding.a.path = p
    BY <1>1, <1>2, <1>3 DEF MakeDiagnostic, EndPaths
  <1>4. CASE rf.finding.a.path # p
    BY <1>1, <1>2, <1>4 DEF MakeDiagnostic, EndPaths
  <1>5. QED
    BY <1>3, <1>4

LEMMA PairsFollow ==
  ASSUME CommandsIInv
  PROVE  PairsShownAtBothEnds
  <1>1. RoundIs(server, served, byFile)
    BY DEF CommandsIInv, RoundInv
  <1>2. CASE served = {} /\ byFile = [p \in Paths |-> {}]
    BY <1>2 DEF PairsShownAtBothEnds, ShownIn
  <1>3. CASE ~(served = {} /\ byFile = [p \in Paths |-> {}])
    <2>1. PICK its \in Workspaces(ServeOpts(server)) : served = FoundIn(its, ServeOpts(server))
      BY <1>1, <1>3 DEF RoundIs, ServedBy
    <2>2. PICK s : Ordering(s, served, ByScore(served))
                   /\ byFile = Group(Ranked(s, server.settings))
      BY <1>1, <1>3 DEF RoundIs, RoundOf
    <2>3. EndsInside(served)
      BY <2>1, FoundEnds
    <2> DEFINE R == Ranked(s, server.settings)
    <2>4. ASSUME NEW rf \in R
          PROVE  rf.finding.a.path \in Paths /\ rf.finding.b.path \in Paths
      <3>1. PICK n \in DOMAIN s : rf.finding = s[n][2]
        BY DEF Ranked
      <3>2. s[n] \in served
        BY <2>2 DEF Ordering
      <3>3. QED
        BY <2>3, <3>1, <3>2 DEF EndsInside
    <2> HIDE DEF R
    <2>5. ASSUME NEW p \in Paths, NEW d \in ShownIn(p)
          PROVE  /\ d.at.path = p
                 /\ d.related.path # p =>
                      [at |-> d.related, related |-> d.at, severity |-> d.severity]
                        \in ShownIn(d.related.path)
      <3>1. PICK rf \in byFile[p] : rf.finding.a.granule # Whole /\ d = MakeDiagnostic(rf, p)
        BY DEF ShownIn
      <3>2. byFile = Group(R)
        BY <2>2 DEF R
      <3>3. /\ d.at.path = p
            /\ d.related.path # p =>
                 /\ d.related.path \in Paths /\ rf \in byFile[d.related.path]
                 /\ [at |-> d.related, related |-> d.at, severity |-> d.severity]
                      = MakeDiagnostic(rf, d.related.path)
        BY <2>4, <3>1, <3>2, ShownAtBothEnds
      <3>4. QED
        BY <3>1, <3>3 DEF ShownIn
    <2>6. QED
      BY <2>5 DEF PairsShownAtBothEnds
  <1>4. QED
    BY <1>2, <1>3

(* A pair of duplicates is shown at both of its ends, with one severity,   *)
(* and each of the two diagnostics leads to the other.                     *)
THEOREM PairsAreShownAtBothEnds == CommandsSpec => []PairsShownAtBothEnds
  <1>1. CommandsIInv => PairsShownAtBothEnds
    BY PairsFollow
  <1>2. QED
    BY <1>1, CommandsInvariant, PTL

(* What a round of the server leaves for the editor: as many findings      *)
(* highlighted as asked for and found, none of the others with a higher    *)
(* score, and each shown where its ends are.  Two functions of one name on *)
(* one line are one end to the editor: where there are such, a finding     *)
(* may be in both tiers, hence the assumption.                             *)
THEOREM RoundsAreConsistent ==
  ASSUME DistinctGranules
  PROVE  CommandsSpec => []RoundConsistent
  <1>1. CommandsIInv => RoundConsistent
    BY TiersFollow, PairsFollow DEF RoundConsistent
  <1>2. QED
    BY <1>1, CommandsInvariant, PTL

-----------------------------------------------------------------------------
(* Ties.  A finding without one has its place in every sorting: after all  *)
(* that score higher.                                                      *)
HigherThan(F, f) == {g \in F : ~AtMost(g[2].score, f[2].score)}

Untied(F, f) == \A g \in F \ {f} : ~SameScore(f[2], g[2])

LEMMA PlaceOfUntied ==
  ASSUME NEW F, IsFiniteSet(F), NEW s, Ordering(s, F, ByScore(F)),
         NEW m \in 1 .. Cardinality(F), Untied(F, s[m])
  PROVE  m = Cardinality(HigherThan(F, s[m])) + 1
  <1> DEFINE N == Cardinality(F)
             f == s[m]
             H == HigherThan(F, f)
             h == [i \in 1 .. (m - 1) |-> s[i]]
  <1>1. N \in Nat /\ m \in 1 .. N
    BY FS_CardinalityType
  <1>2. /\ \A i \in 1 .. N : s[i] \in F
        /\ \A i, j \in 1 .. N : s[i] = s[j] => i = j
        /\ \A i, j \in 1 .. N : i <= j => <<s[j], s[i]>> \notin ByScore(F)
    BY DEF Ordering
  <1>3. \A i, j \in 1 .. N : i <= j => AtMost(s[j][2].score, s[i][2].score)
    BY <1>2 DEF ByScore
  <1>4. \A x \in F : \E i \in 1 .. N : s[i] = x
    BY OrderingOnto
  <1> HIDE DEF N, f
  <1>5. \A i \in 1 .. (m - 1) : i \in 1 .. N /\ i <= m /\ i # m
    BY <1>1
  <1>6. ASSUME NEW i \in 1 .. (m - 1)
        PROVE  s[i] \in H
    <2>1. s[i] \in F \ {f} /\ AtMost(f[2].score, s[i][2].score)
      BY <1>1, <1>2, <1>3, <1>5 DEF f
    <2>2. ~SameScore(f[2], s[i][2])
      BY <2>1 DEF Untied, f
    <2>3. QED
      BY <2>1, <2>2 DEF SameScore, HigherThan
  <1>7. ASSUME NEW g \in H
        PROVE  \E i \in 1 .. (m - 1) : s[i] = g
    <2>1. g \in F /\ ~AtMost(g[2].score, f[2].score)
      BY DEF HigherThan
    <2>2. PICK i \in 1 .. N : s[i] = g
      BY <1>4, <2>1
    <2>3. ~(m <= i)
      BY <1>1, <1>3, <2>1, <2>2 DEF f
    <2>4. i \in 1 .. (m - 1)
      BY <1>1, <2>3
    <2>5. QED
      BY <2>2, <2>4
  <1> HIDE DEF H
  <1>8. h \in Bijection(1 .. (m - 1), H)
    <2>1. h \in [1 .. (m - 1) -> H] /\ \A i \in 1 .. (m - 1) : h[i] = s[i]
      BY <1>6
    <2>2. \A i, j \in 1 .. (m - 1) : h[i] = h[j] => i = j
      BY <1>2, <1>5, <2>1
    <2>3. \A t \in H : \E i \in 1 .. (m - 1) : h[i] = t
      BY <1>7, <2>1
    <2> HIDE DEF h
    <2>4. QED
      BY <2>1, <2>2, <2>3 DEF Bijection, Injection, Surjection, IsInjective
  <1>9. Cardinality(H) = m - 1
    <2>1. m - 1 \in Nat
      BY <1>1
    <2>2. IsFiniteSet(1 .. (m - 1)) /\ Cardinality(1 .. (m - 1)) = m - 1
      BY <2>1, FS_Interval
    <2>3. QED
      BY <1>8, <2>2, FS_Bijection DEF ExistsBijection
  <1>10. QED
    BY <1>1, <1>9 DEF H, f

(* What is ranked of an untied finding is told by what scores higher.      *)
LEMMA RankOfUntied ==
  ASSUME NEW F, IsFiniteSet(F), NEW s, Ordering(s, F, ByScore(F)), NEW settings,
         NEW f \in F, Untied(F, f)
  PROVE  {rf \in Ranked(s, settings) : rf.finding = f[2]}
           = {r \in {[finding |-> f[2],
                      severity |-> SeverityAt(Cardinality(HigherThan(F, f)) + 1, settings)]} :
                r.severity # Dropped}
  <1> DEFINE N == Cardinality(F)
             R == Ranked(s, settings)
             k == Cardinality(HigherThan(F, f)) + 1
             at(n) == [finding |-> s[n][2], severity |-> SeverityAt(n, settings)]
  <1>1. /\ DOMAIN s = 1 .. N
        /\ \A i \in 1 .. N : s[i] \in F
        /\ \A i, j \in 1 .. N : i <= j => <<s[j], s[i]>> \notin ByScore(F)
    BY DEF Ordering
  <1>2. PICK m \in 1 .. N : s[m] = f
    BY OrderingOnto
  <1>3. m = k
    BY <1>2, PlaceOfUntied
  <1>4. AtMost(f[2].score, f[2].score)
    <2>1. m <= m
      BY FS_CardinalityType
    <2>2. <<f, f>> \notin ByScore(F)
      BY <1>1, <1>2, <2>1
    <2>3. QED
      BY <2>2 DEF ByScore
  <1>5. \A g \in F : g[2] = f[2] => g = f
    BY <1>4 DEF Untied, SameScore
  <1>6. \A r : r \in R <=> \E n \in 1 .. N : SeverityAt(n, settings) # Dropped /\ r = at(n)
    BY <1>1 DEF Ranked
  <1>7. \A n \in 1 .. N : at(n).finding = s[n][2] /\ at(n).severity = SeverityAt(n, settings)
    OBVIOUS
  <1>8. at(m) = [finding |-> f[2], severity |-> SeverityAt(k, settings)]
    BY <1>2, <1>3
  <1>9. \A n \in 1 .. N : s[n] = f => n = m
    BY <1>2 DEF Ordering
  <1> HIDE DEF N, R, at, k
  <1>10. \A r : r \in R /\ r.finding = f[2] <=> r = at(m) /\ r.severity # Dropped
    <2>1. TAKE r
    <2>2. ASSUME r \in R, r.finding = f[2]
          PROVE  r = at(m) /\ r.severity # Dropped
      <3>1. PICK n \in 1 .. N : SeverityAt(n, settings) # Dropped /\ r = at(n)
        BY <1>6, <2>2
      <3>2. s[n] = f
        BY <1>1, <1>5, <1>7, <2>2, <3>1
      <3>3. QED
        BY <1>7, <1>9, <3>1, <3>2
    <2>3. ASSUME r = at(m), r.severity # Dropped
          PROVE  r \in R /\ r.finding = f[2]
      BY <1>2, <1>6, <1>7, <2>3
    <2>4. QED
      BY <2>2, <2>3
  <1>11. {rf \in R : rf.finding = f[2]} = {r \in {at(m)} : r.severity # Dropped}
    BY <1>10
  <1>12. QED
    BY <1>8, <1>11 DEF R, k

(* A round that finds what the last one found moves only ties: a finding   *)
(* whose score no other has keeps its severity, in whatever order the hash *)
(* map yields the findings.                                                *)
THEOREM OnlyTiesAreMoved == CommandsSpec => OnlyTiesMove
  <1> DEFINE Moves ==
        (served' = served /\ UNCHANGED server) =>
           \A f \in served :
             (\A g \in served \ {f} : ~SameScore(f[2], g[2])) =>
               {rf \in PublishedPairs : rf.finding = f[2]}
                 = {rf \in PublishedPairs' : rf.finding = f[2]}
  <1>1. CommandsIInv /\ CommandsIInv' => [Moves]_rankingVars
    <2>1. SUFFICES ASSUME CommandsIInv, CommandsIInv', served' = served, server' = server,
                          NEW f \in served, \A g \in served \ {f} : ~SameScore(f[2], g[2])
                   PROVE  {rf \in PublishedPairs : rf.finding = f[2]}
                            = {rf \in PublishedPairs' : rf.finding = f[2]}
      OBVIOUS
    <2>2. Untied(served, f)
      BY <2>1 DEF Untied
    <2>3. RoundIs(server, served, byFile) /\ RoundIs(server, served, byFile')
      BY <2>1 DEF CommandsIInv, RoundInv
    <2>4. PICK its \in Workspaces(ServeOpts(server)) : served = FoundIn(its, ServeOpts(server))
      BY <2>3 DEF RoundIs, ServedBy
    <2>5. PICK s : Ordering(s, served, ByScore(served))
                   /\ byFile = Group(Ranked(s, server.settings))
      BY <2>3 DEF RoundIs, RoundOf
    <2>6. PICK t : Ordering(t, served, ByScore(served))
                   /\ byFile' = Group(Ranked(t, server.settings))
      BY <2>3 DEF RoundIs, RoundOf
    <2>7. IsFiniteSet(served) /\ EndsInside(served)
      BY <2>4, WorkspaceType, FoundFinite, FoundEnds
    <2>8. PublishedPairs = Ranked(s, server.settings)
      BY <2>5, <2>7, PublishedIsRanked DEF PublishedPairs
    <2>9. PublishedPairs' = Ranked(t, server.settings)
      BY <2>6, <2>7, PublishedIsRanked DEF PublishedPairs
    <2>10. QED
      BY <2>1, <2>2, <2>5, <2>6, <2>7, <2>8, <2>9, RankOfUntied
  <1>2. QED
    BY <1>1, CommandsInvariant, PTL DEF OnlyTiesMove
-----------------------------------------------------------------------------
(* The split of an identifier in one pass, and at its word boundaries: the *)
(* recursion has one solution, the words after each place.                 *)

(* The least of some numbers.                                              *)
LEMMA LeastOf ==
  ASSUME NEW S \in SUBSET Nat, S # {}
  PROVE  Min(S) \in S /\ \A y \in S : Min(S) <= y
  BY LeastNumber DEF Min

(* A run goes on to the first character that does not belong to it.        *)
IsRunEnd(ident, from, chars, end) ==
  /\ end \in from .. (Len(ident) + 1)
  /\ \A m \in from .. (end - 1) : ident[m] \in chars
  /\ end = Len(ident) + 1 \/ ident[end] \notin chars
  /\ ident[from] \in chars /\ from <= Len(ident) => end > from

LEMMA RunEndFacts ==
  ASSUME NEW ident, Len(ident) \in Nat, NEW from \in 1 .. (Len(ident) + 1), NEW chars
  PROVE  IsRunEnd(ident, from, chars, RunEnd(ident, from, chars))
  <1> DEFINE S == {n \in from .. (Len(ident) + 1) : n = Len(ident) + 1 \/ ident[n] \notin chars}
             end == Min(S)
  <1>1. S \in SUBSET Nat /\ Len(ident) + 1 \in S
    OBVIOUS
  <1>2. /\ end \in from .. (Len(ident) + 1)
        /\ end = Len(ident) + 1 \/ ident[end] \notin chars
        /\ \A y \in S : end <= y
    <2>1. end \in S /\ \A y \in S : end <= y
      <3> HIDE DEF S
      <3>1. QED
        BY <1>1, LeastOf
    <2> HIDE DEF end
    <2>2. QED
      BY <2>1
  <1>3. RunEnd(ident, from, chars) = end
    BY DEF RunEnd
  <1> HIDE DEF end
  <1>4. ASSUME NEW m \in from .. (end - 1)
        PROVE  ident[m] \in chars
    <2>1. m \in from .. (Len(ident) + 1) /\ m # Len(ident) + 1 /\ ~(end <= m)
      BY <1>2
    <2>2. m \notin S
      BY <1>2, <2>1
    <2>3. QED
      BY <2>1, <2>2
  <1>5. ident[from] \in chars /\ from <= Len(ident) => end > from
    BY <1>2
  <1>6. QED
    BY <1>2, <1>3, <1>4, <1>5 DEF IsRunEnd

(* Where the word that contains the n-th character ends.                   *)
Breaks(ident, n) ==
  {m \in (n + 1) .. Len(ident) : BeginsWord(ident, m) \/ ident[m] \in Separators}

NextBreak(ident, n) == Min(Breaks(ident, n) \cup {Len(ident) + 1})

IsBreak(ident, n, e) ==
  /\ e \in (n + 1) .. (Len(ident) + 1)
  /\ \A m \in (n + 1) .. (e - 1) : ~BeginsWord(ident, m) /\ ident[m] \notin Separators
  /\ e = Len(ident) + 1 \/ BeginsWord(ident, e) \/ ident[e] \in Separators

(* There is one such place.                                                *)
LEMMA NextBreakIs ==
  ASSUME NEW ident, Len(ident) \in Nat, NEW n \in 1 .. Len(ident)
  PROVE  /\ IsBreak(ident, n, NextBreak(ident, n))
         /\ \A e : IsBreak(ident, n, e) => e = NextBreak(ident, n)
  <1> DEFINE S == Breaks(ident, n) \cup {Len(ident) + 1}
             x == Min(S)
  <1>1. S \in SUBSET Nat /\ S # {}
    BY DEF Breaks
  <1>2. x \in S /\ \A y \in S : x <= y
    <2> HIDE DEF S
    <2>1. QED
      BY <1>1, LeastOf
  <1>3. NextBreak(ident, n) = x
    BY DEF NextBreak
  <1> HIDE DEF x
  <1>4. x \in (n + 1) .. (Len(ident) + 1)
    BY <1>2 DEF Breaks
  <1>5. ASSUME NEW m \in (n + 1) .. (x - 1)
        PROVE  ~BeginsWord(ident, m) /\ ident[m] \notin Separators
    <2>1. m \in (n + 1) .. Len(ident) /\ ~(x <= m)
      BY <1>4
    <2>2. m \notin Breaks(ident, n)
      BY <1>2, <2>1
    <2>3. QED
      BY <2>1, <2>2 DEF Breaks
  <1>6. x = Len(ident) + 1 \/ BeginsWord(ident, x) \/ ident[x] \in Separators
    BY <1>2 DEF Breaks
  <1>7. ASSUME NEW e, IsBreak(ident, n, e)
        PROVE  e = x
    <2>1. /\ e \in (n + 1) .. (Len(ident) + 1)
          /\ \A m \in (n + 1) .. (e - 1) : ~BeginsWord(ident, m) /\ ident[m] \notin Separators
          /\ e = Len(ident) + 1 \/ BeginsWord(ident, e) \/ ident[e] \in Separators
      BY <1>7 DEF IsBreak
    <2>2. e \in S
      BY <2>1 DEF Breaks
    <2>3. x <= e
      BY <1>2, <2>2
    <2>4. ~(x < e)
      BY <1>4, <1>6, <2>1
    <2>5. QED
      BY <1>4, <2>1, <2>3, <2>4
  <1>8. QED
    BY <1>3, <1>4, <1>5, <1>6, <1>7 DEF IsBreak

(* The word from a boundary that the code keeps, and all of them: of more   *)
(* than one byte, not of more than one character.                          *)
KeptFrom(ident, n) ==
  LET ends == {m \in (n + 1)..Len(ident) :
                 BeginsWord(ident, m) \/ ident[m] \in Separators}
      last == Min(ends \cup {Len(ident) + 1}) - 1
  IN  IF n = last /\ ident[n] \notin Wide THEN <<>>
      ELSE <<[m \in 1..(last - n + 1) |-> Lowered(ident[n + m - 1])]>>

KeptByBoundary(ident) ==
  FlattenSeq([n \in DOMAIN ident |->
                IF BeginsWord(ident, n) THEN KeptFrom(ident, n) ELSE <<>>])

(* A word from a boundary ends at the next.                                *)
LEMMA WordEndsAtBreak ==
  ASSUME NEW ident, Len(ident) \in Nat, NEW n \in 1 .. Len(ident)
  PROVE  KeptFrom(ident, n) = Word(ident, n, NextBreak(ident, n) - 1)
  <1> DEFINE last == NextBreak(ident, n) - 1
  <1>1. last \in Nat /\ last >= n
    BY NextBreakIs DEF IsBreak
  <1>2. KeptFrom(ident, n) =
          IF n = last /\ ident[n] \notin Wide THEN <<>>
          ELSE <<[m \in 1 .. (last - n + 1) |-> Lowered(ident[n + m - 1])]>>
    BY Zenon DEF KeptFrom, NextBreak, Breaks
  <1>3. Word(ident, n, last) =
          IF last > n \/ (last = n /\ ident[n] \in Wide)
            THEN <<[m \in 1 .. (last - n + 1) |-> Lowered(ident[n + m - 1])]>>
            ELSE <<>>
    BY Zenon DEF Word
  <1> HIDE DEF last
  <1> DEFINE w == <<[m \in 1 .. (last - n + 1) |-> Lowered(ident[n + m - 1])]>>
  <1> HIDE DEF w
  <1>4. (n = last /\ ident[n] \notin Wide) <=> ~(last > n \/ (last = n /\ ident[n] \in Wide))
    BY <1>1
  <1>5. QED
    BY <1>2, <1>3, <1>4 DEF w, last

-----------------------------------------------------------------------------
Joined(S) ==
  /\ <<>> \in S
  /\ \A u \in S : u \o <<>> = u /\ <<>> \o u = u
  /\ \A u, v, w \in S : (u \o v) \o w = u \o (v \o w)

(* Sequences can be joined in any order.                                   *)
LEMMA SequencesJoin ==
  ASSUME NEW T
  PROVE  Joined(Seq(T))
  <1>1. /\ <<>> \in Seq(T)
        /\ \A u \in Seq(T) : u \o <<>> = u /\ <<>> \o u = u
    OBVIOUS
  <1>2. ASSUME NEW u \in Seq(T), NEW v \in Seq(T), NEW w \in Seq(T)
        PROVE  (u \o v) \o w = u \o (v \o w)
    <2> DEFINE l == (u \o v) \o w
               r == u \o (v \o w)
    <2>1. Len(l) = Len(r) /\ l \in Seq(T) /\ r \in Seq(T)
      OBVIOUS
    <2>2. \A i \in 1 .. Len(l) : l[i] = r[i]
      OBVIOUS
    <2> HIDE DEF l, r
    <2>3. QED
      BY <2>1, <2>2, SeqEqual DEF l, r
  <1>3. QED
    BY <1>1, <1>2, Zenon DEF Joined

Peeled(f, g, first, n, k) ==
  /\ k < n => f[k] = <<>> /\ g[k] = <<>>
  /\ k >= n => f[k] = first \o g[k]

Peelable(N, n, s, t, f, g, S) ==
  /\ \A k \in 1 .. N : s[k] \in S /\ g[k - 1] \in S
  /\ f[0] = <<>> /\ g[0] = <<>>
  /\ \A k \in 1 .. N : f[k] = f[k - 1] \o s[k] /\ g[k] = g[k - 1] \o t[k]
  /\ t[n] = <<>> /\ \A k \in 1 .. (n - 1) : s[k] = <<>> /\ t[k] = <<>>
  /\ \A k \in (n + 1) .. N : s[k] = t[k]

(* Joining f and g step by step from s and t, which differ at n only.      *)
LEMMA PeelSteps ==
  ASSUME NEW N \in Nat, NEW n \in 1 .. N, NEW s, NEW t, NEW f, NEW g, NEW S, Joined(S),
         Peelable(N, n, s, t, f, g, S)
  PROVE  Peeled(f, g, s[n], n, N)
  <1> DEFINE Bad == {k \in 0 .. N : ~Peeled(f, g, s[n], n, k)}
  <1>1. ASSUME NEW k \in 0 .. N, k # 0, Peeled(f, g, s[n], n, k - 1)
        PROVE  Peeled(f, g, s[n], n, k)
    <2>1. k \in 1 .. N /\ s[k] \in S /\ g[k - 1] \in S /\ s[n] \in S
      BY <1>1 DEF Peelable
    <2>2. f[k] = f[k - 1] \o s[k] /\ g[k] = g[k - 1] \o t[k]
      BY <2>1 DEF Peelable
    <2>3. CASE k < n
      <3>1. k \in 1 .. (n - 1) /\ k - 1 < n /\ ~(k >= n)
        BY <2>1, <2>3
      <3>2. f[k - 1] = <<>> /\ g[k - 1] = <<>> /\ s[k] = <<>> /\ t[k] = <<>>
        BY <1>1, <3>1 DEF Peeled, Peelable
      <3>3. <<>> \o <<>> = <<>>
        BY Zenon DEF Joined
      <3>4. QED
        BY <2>2, <3>1, <3>2, <3>3, Zenon DEF Peeled
    <2>4. CASE k = n
      <3>1. k - 1 < n /\ ~(k < n)
        BY <2>4
      <3>2. f[k - 1] = <<>> /\ g[k - 1] = <<>>
        BY <1>1, <3>1 DEF Peeled
      <3>3. /\ <<>> \o s[n] = s[n] /\ <<>> \o <<>> = <<>> /\ s[n] \o <<>> = s[n]
        BY <2>1, Zenon DEF Joined
      <3>4. t[n] = <<>>
        BY DEF Peelable
      <3>5. f[k] = s[n] \o g[k]
        BY <2>2, <2>4, <3>2, <3>3, <3>4, Zenon
      <3>6. QED
        BY <3>1, <3>5, Zenon DEF Peeled
    <2>5. CASE k > n
      <3>1. k \in (n + 1) .. N /\ k - 1 >= n /\ ~(k < n)
        BY <2>1, <2>5
      <3>2. s[k] = t[k]
        BY <3>1 DEF Peelable
      <3>3. f[k - 1] = s[n] \o g[k - 1]
        BY <1>1, <3>1, Zenon DEF Peeled
      <3>4. (s[n] \o g[k - 1]) \o s[k] = s[n] \o (g[k - 1] \o s[k])
        BY <2>1, Zenon DEF Joined
      <3>5. f[k] = s[n] \o g[k]
        BY <2>2, <3>2, <3>3, <3>4, Zenon
      <3>6. QED
        BY <3>1, <3>5, Zenon DEF Peeled
    <2>6. k < n \/ k = n \/ k > n
      BY <2>1
    <2>7. QED
      BY <2>3, <2>4, <2>5, <2>6, Zenon
  <1>2. Peeled(f, g, s[n], n, 0)
    BY DEF Peeled, Peelable
  <1>3. Bad = {}
    <2>1. SUFFICES ASSUME Bad # {} PROVE FALSE
      OBVIOUS
    <2>2. PICK k \in Bad : \A j \in Bad : k <= j
      <3>1. Bad \in SUBSET Nat
        OBVIOUS
      <3> HIDE DEF Bad
      <3>2. QED
        BY <2>1, <3>1, LeastNumber
    <2>3. k \in 0 .. N /\ k # 0
      BY <1>2
    <2>4. k - 1 \in 0 .. N /\ ~(k <= k - 1)
      BY <2>3
    <2>5. Peeled(f, g, s[n], n, k - 1)
      BY <2>2, <2>4
    <2>6. QED
      BY <1>1, <2>3, <2>5
  <1>4. QED
    BY <1>3

(* Sequences that are equal after the n-th place and empty before it.      *)
LEMMA FlattenPeel ==
  ASSUME NEW T, NEW s \in Seq(Seq(T)), NEW t \in Seq(Seq(T)), Len(s) = Len(t),
         NEW n \in 1 .. Len(s), t[n] = <<>>,
         \A i \in 1 .. (n - 1) : s[i] = <<>> /\ t[i] = <<>>,
         \A i \in (n + 1) .. Len(s) : s[i] = t[i]
  PROVE  FlattenSeq(s) = s[n] \o FlattenSeq(t)
  <1> DEFINE N == Len(s)
             S == Seq(T)
  <1>1. N \in Nat /\ \A i \in 1 .. N : s[i] \in S
    OBVIOUS
  <1>2. PICK f \in [0 .. N -> S] : Flattens(f, s) /\ FlattenSeq(s) = f[N]
    BY FlattenSteps
  <1>3. PICK g \in [0 .. N -> S] : Flattens(g, t) /\ FlattenSeq(t) = g[N]
    <2>1. PICK g \in [0 .. Len(t) -> S] : Flattens(g, t) /\ FlattenSeq(t) = g[Len(t)]
      BY FlattenSteps
    <2>2. QED
      BY <2>1
  <1>4. f[0] = <<>> /\ \A k \in 1 .. N : f[k] = f[k - 1] \o s[k]
    BY <1>2, Zenon DEF Flattens
  <1>5. g[0] = <<>> /\ \A k \in 1 .. N : g[k] = g[k - 1] \o t[k]
    BY <1>3, Zenon DEF Flattens
  <1>6. Joined(S)
    BY SequencesJoin
  <1> HIDE DEF N, S
  <1>7. n \in 1 .. N /\ \A i \in (n + 1) .. N : s[i] = t[i]
    BY DEF N
  <1>8. \A k \in 1 .. N : s[k] \in S /\ g[k - 1] \in S
    <2>1. \A k \in 1 .. N : k - 1 \in 0 .. N
      BY <1>1
    <2>2. QED
      BY <1>1, <1>3, <2>1
  <1>9. Peelable(N, n, s, t, f, g, S)
    BY <1>4, <1>5, <1>7, <1>8, Zenon DEF Peelable
  <1>10. f[N] = s[n] \o g[N]
    <2>1. Peeled(f, g, s[n], n, N)
      BY <1>1, <1>6, <1>7, <1>9, PeelSteps, Zenon
    <2>2. N >= n
      BY <1>1, <1>7
    <2>3. QED
      BY <2>1, <2>2, Zenon DEF Peeled
  <1>11. QED
    BY <1>2, <1>3, <1>10

(* The words that begin at the n-th place or after it, if the identifier   *)
(* began there.                                                            *)
BeginsFrom(ident, n, m) ==
  m >= n /\ ident[m] \notin Separators /\ (m = n \/ BeginsWord(ident, m))

WordsAt(ident, n) ==
  [m \in 1 .. Len(ident) |-> IF BeginsFrom(ident, n, m) THEN KeptFrom(ident, m) ELSE <<>>]

WordsAfter(ident, n) == FlattenSeq(WordsAt(ident, n))

(* Words are sequences of characters.                                      *)
LEMMA WordTypes ==
  ASSUME SearchAssumption, NEW ident \in Seq(Characters)
  PROVE  /\ Len(ident) \in Nat /\ \A m \in 1 .. Len(ident) : ident[m] \in Characters
         /\ \A m \in 1 .. Len(ident) : KeptFrom(ident, m) \in Seq(Seq(Characters))
         /\ \A n : WordsAt(ident, n) \in Seq(Seq(Seq(Characters)))
         /\ \A n : Len(WordsAt(ident, n)) = Len(ident)
  <1>1. Len(ident) \in Nat /\ \A m \in 1 .. Len(ident) : ident[m] \in Characters
    OBVIOUS
  <1>2. \A ch \in Characters : Lowered(ch) \in Characters
    BY SearchAssumption DEF Lowered, Characters, Range
  <1>3. ASSUME NEW m \in 1 .. Len(ident)
        PROVE  KeptFrom(ident, m) \in Seq(Seq(Characters))
    <2> DEFINE last == NextBreak(ident, m) - 1
               size == last - m + 1
               word == [o \in 1 .. size |-> Lowered(ident[m + o - 1])]
    <2>1. last \in m .. Len(ident)
      BY <1>1, NextBreakIs DEF IsBreak
    <2>2. KeptFrom(ident, m) = Word(ident, m, last)
      BY <1>1, WordEndsAtBreak
    <2>3. Word(ident, m, last) \in {<<>>, <<word>>}
      BY Zenon DEF Word
    <2> HIDE DEF last
    <2>4. size \in Nat /\ \A o \in 1 .. size : m + o - 1 \in 1 .. Len(ident)
      BY <1>1, <2>1
    <2> HIDE DEF size
    <2>5. word \in [1 .. size -> Characters]
      BY <1>1, <1>2, <2>4
    <2> HIDE DEF word
    <2>6. word \in Seq(Characters)
      BY <2>4, <2>5
    <2>7. <<>> \in Seq(Seq(Characters)) /\ <<word>> \in Seq(Seq(Characters))
      <3> DEFINE Chars == Seq(Characters)
      <3> HIDE DEF Chars
      <3>1. word \in Chars
        BY <2>6 DEF Chars
      <3>2. <<>> \in Seq(Chars) /\ <<word>> \in Seq(Chars)
        BY <3>1
      <3>3. QED
        BY <3>2 DEF Chars
    <2>8. QED
      BY <2>2, <2>3, <2>7
  <1>4. ASSUME NEW n
        PROVE  WordsAt(ident, n) \in Seq(Seq(Seq(Characters))) /\ Len(WordsAt(ident, n)) = Len(ident)
    <2> DEFINE S == Seq(Seq(Characters))
    <2>1. <<>> \in S
      OBVIOUS
    <2> HIDE DEF S
    <2>2. WordsAt(ident, n) \in [1 .. Len(ident) -> S]
      BY <1>3, <2>1 DEF WordsAt, S
    <2>3. QED
      BY <1>1, <2>2 DEF S
  <1>5. QED
    BY <1>1, <1>3, <1>4

(* A separator begins no word.                                             *)
LEMMA SkipSeparator ==
  ASSUME SearchAssumption, NEW ident \in Seq(Characters), NEW n \in 1 .. Len(ident),
         ident[n] \in Separators
  PROVE  WordsAfter(ident, n) = WordsAfter(ident, n + 1)
  <1>1. Len(ident) \in Nat
    BY WordTypes
  <1>2. ASSUME NEW m \in 1 .. Len(ident)
        PROVE  BeginsFrom(ident, n, m) <=> BeginsFrom(ident, n + 1, m)
    <2>1. CASE m = n + 1
      <3>1. BeginsWord(ident, m) <=> ident[m] \notin Separators
        BY <2>1 DEF BeginsWord
      <3>2. QED
        BY <2>1, <3>1 DEF BeginsFrom
    <2>2. CASE m # n + 1
      BY <1>1, <2>2 DEF BeginsFrom
    <2>3. QED
      BY <2>1, <2>2
  <1>3. WordsAt(ident, n) = WordsAt(ident, n + 1)
    BY <1>2 DEF WordsAt
  <1>4. QED
    BY <1>3 DEF WordsAfter

(* Any other character begins a word, which the rest follows.              *)
LEMMA PeelWord ==
  ASSUME SearchAssumption, NEW ident \in Seq(Characters), NEW n \in 1 .. Len(ident),
         ident[n] \notin Separators, NEW e, IsBreak(ident, n, e)
  PROVE  WordsAfter(ident, n) = Word(ident, n, e - 1) \o WordsAfter(ident, e)
  <1> DEFINE s == WordsAt(ident, n)
             t == WordsAt(ident, e)
  <1>1. /\ Len(ident) \in Nat /\ Len(s) = Len(ident) /\ Len(t) = Len(ident)
        /\ s \in Seq(Seq(Seq(Characters))) /\ t \in Seq(Seq(Seq(Characters)))
    BY WordTypes
  <1>2. /\ e \in (n + 1) .. (Len(ident) + 1)
        /\ \A m \in (n + 1) .. (e - 1) : ~BeginsWord(ident, m) /\ ident[m] \notin Separators
        /\ e = Len(ident) + 1 \/ BeginsWord(ident, e) \/ ident[e] \in Separators
    BY DEF IsBreak
  <1>3. s[n] = Word(ident, n, e - 1) /\ t[n] = <<>>
    <2>1. BeginsFrom(ident, n, n) /\ ~BeginsFrom(ident, e, n)
      BY <1>1, <1>2 DEF BeginsFrom
    <2>2. s[n] = KeptFrom(ident, n) /\ t[n] = <<>>
      BY <2>1 DEF WordsAt
    <2>3. QED
      BY <1>1, <2>2, NextBreakIs, WordEndsAtBreak
  <1>4. ASSUME NEW m \in 1 .. (n - 1)
        PROVE  s[m] = <<>> /\ t[m] = <<>>
    <2>1. m \in 1 .. Len(ident) /\ ~BeginsFrom(ident, n, m) /\ ~BeginsFrom(ident, e, m)
      BY <1>1, <1>2 DEF BeginsFrom
    <2>2. QED
      BY <2>1 DEF WordsAt
  <1>5. ASSUME NEW m \in (n + 1) .. Len(ident)
        PROVE  s[m] = t[m]
    <2>1. BeginsFrom(ident, n, m) <=> BeginsFrom(ident, e, m)
      <3>1. CASE m < e
        <4>1. m \in (n + 1) .. (e - 1) /\ ~(m >= e) /\ m # n
          BY <1>1, <1>2, <3>1
        <4>2. QED
          BY <4>1, <1>2 DEF BeginsFrom
      <3>2. CASE m = e
        <4>1. e # Len(ident) + 1 /\ m >= n
          BY <1>1, <1>2, <3>2
        <4>2. QED
          BY <3>2, <4>1, <1>1, <1>2 DEF BeginsFrom
      <3>3. CASE m > e
        BY <1>1, <1>2, <3>3 DEF BeginsFrom
      <3>4. QED
        BY <1>1, <1>2, <3>1, <3>2, <3>3
    <2>2. QED
      BY <1>1, <2>1 DEF WordsAt
  <1> HIDE DEF s, t
  <1>6. n \in 1 .. Len(s) /\ Len(s) = Len(t)
    BY <1>1
  <1>7. FlattenSeq(s) = s[n] \o FlattenSeq(t)
    BY <1>1, <1>3, <1>4, <1>5, <1>6, FlattenPeel
  <1>8. QED
    BY <1>3, <1>7 DEF s, t, WordsAfter

(* Nothing joined is nothing.                                              *)
LEMMA FlattenNothing ==
  ASSUME NEW T, NEW s \in Seq(Seq(T)), \A i \in 1 .. Len(s) : s[i] = <<>>
  PROVE  FlattenSeq(s) = <<>>
  <1> DEFINE N == Len(s)
             S == Seq(T)
  <1>1. N \in Nat
    OBVIOUS
  <1>2. PICK f \in [0 .. N -> S] : Flattens(f, s) /\ FlattenSeq(s) = f[N]
    BY FlattenSteps
  <1>3. f[0] = <<>> /\ \A k \in 1 .. N : f[k] = f[k - 1] \o <<>>
    BY <1>2 DEF Flattens
  <1>4. <<>> \o <<>> = <<>>
    OBVIOUS
  <1> DEFINE Bad == {k \in 0 .. N : f[k] # <<>>}
  <1> HIDE DEF N, S
  <1>5. Bad = {}
    <2>1. SUFFICES ASSUME Bad # {} PROVE FALSE
      OBVIOUS
    <2>2. PICK k \in Bad : \A j \in Bad : k <= j
      <3>1. Bad \in SUBSET Nat
        BY <1>1
      <3> HIDE DEF Bad
      <3>2. QED
        BY <2>1, <3>1, LeastNumber
    <2>3. k \in 1 .. N
      BY <1>1, <1>3
    <2>4. k - 1 \in 0 .. N /\ ~(k <= k - 1)
      BY <1>1, <2>3
    <2>5. f[k - 1] = <<>>
      BY <2>2, <2>4
    <2>6. QED
      BY <1>3, <1>4, <2>3, <2>5
  <1>6. QED
    BY <1>1, <1>2, <1>5

(* What is after a place is a list of words.                               *)
LEMMA WordsAfterTypes ==
  ASSUME SearchAssumption, NEW ident \in Seq(Characters), NEW n
  PROVE  WordsAfter(ident, n) \in Seq(Seq(Characters))
  <1> DEFINE s == WordsAt(ident, n)
             T == Seq(Characters)
  <1>1. s \in Seq(Seq(T))
    BY WordTypes
  <1>2. Len(s) \in Nat
    BY <1>1
  <1> HIDE DEF s, T
  <1>3. \E g \in [0 .. Len(s) -> Seq(T)] : FlattenSeq(s) = g[Len(s)]
    BY <1>1, FlattenSteps
  <1>4. FlattenSeq(s) \in Seq(T)
    BY <1>2, <1>3
  <1>5. QED
    BY <1>4 DEF s, T, WordsAfter

(* No word begins after the end.                                           *)
LEMMA NothingAfterEnd ==
  ASSUME SearchAssumption, NEW ident \in Seq(Characters)
  PROVE  WordsAfter(ident, Len(ident) + 1) = <<>>
  <1> DEFINE s == WordsAt(ident, Len(ident) + 1)
             T == Seq(Characters)
  <1>1. s \in Seq(Seq(T)) /\ Len(s) = Len(ident) /\ Len(ident) \in Nat
    BY WordTypes
  <1>2. \A i \in 1 .. Len(ident) : s[i] = <<>>
    BY <1>1 DEF WordsAt, BeginsFrom
  <1> HIDE DEF s, T
  <1>3. FlattenSeq(s) = <<>>
    BY <1>1, <1>2, FlattenNothing
  <1>4. QED
    BY <1>3 DEF s, WordsAfter

-----------------------------------------------------------------------------
(* One step of the split is given the words that follow.                   *)
SplitStep(ident, rest, n) ==
  CASE n > Len(ident) -> <<>>
    [] n <= Len(ident) /\ ident[n] \in Separators -> rest[n + 1]
    [] n <= Len(ident) /\ ident[n] \in Upper ->
         LET end == RunEnd(ident, n, Upper)
             start == StartOfLower(ident, n, end)
             last == RunEnd(ident, end, Lower \cup Digits)
         IN  (IF start > n THEN Word(ident, n, start - 1) ELSE <<>>)
             \o Word(ident, start, last - 1) \o rest[last]
    [] OTHER ->
         LET end == RunEnd(ident, n, Lower \cup Digits)
         IN  Word(ident, n, end - 1) \o rest[end]

(* The characters are of four kinds.                                       *)
LEMMA FourKinds ==
  ASSUME SearchAssumption, NEW ident \in Seq(Characters), NEW m \in 1 .. Len(ident)
  PROVE  /\ ident[m] \in Upper \/ ident[m] \in Lower \cup Digits \/ ident[m] \in Separators
         /\ ident[m] \in Upper => ident[m] \notin Lower \cup Digits /\ ident[m] \notin Separators
         /\ ident[m] \in Lower \cup Digits => ident[m] \notin Upper /\ ident[m] \notin Separators
         /\ ident[m] \in Separators => ident[m] \notin Upper /\ ident[m] \notin Lower \cup Digits
  <1>1. ident[m] \in Characters
    BY WordTypes
  <1>2. QED
    BY <1>1, SearchAssumption DEF Characters

(* Lower-case letters and digits go on to the next break.                  *)
LEMMA LowerRunBreaks ==
  ASSUME SearchAssumption, NEW ident \in Seq(Characters), NEW n \in 1 .. Len(ident),
         ident[n] \in Lower \cup Digits
  PROVE  IsBreak(ident, n, RunEnd(ident, n, Lower \cup Digits))
  <1> DEFINE e == RunEnd(ident, n, Lower \cup Digits)
  <1>1. Len(ident) \in Nat
    BY WordTypes
  <1>2. /\ e \in (n + 1) .. (Len(ident) + 1)
        /\ \A m \in n .. (e - 1) : ident[m] \in Lower \cup Digits
        /\ e = Len(ident) + 1 \/ ident[e] \notin Lower \cup Digits
    <2>1. IsRunEnd(ident, n, Lower \cup Digits, e)
      BY <1>1, RunEndFacts
    <2> HIDE DEF e
    <2>2. QED
      BY <1>1, <2>1 DEF IsRunEnd
  <1> HIDE DEF e
  <1>3. ASSUME NEW m \in (n + 1) .. (e - 1)
        PROVE  ~BeginsWord(ident, m) /\ ident[m] \notin Separators
    <2>1. m \in 1 .. Len(ident) /\ m - 1 \in 1 .. Len(ident) /\ m # 1
      BY <1>1, <1>2
    <2>2. ident[m] \in Lower \cup Digits /\ ident[m - 1] \in Lower \cup Digits
      BY <1>1, <1>2
    <2>3. QED
      BY <2>1, <2>2, FourKinds DEF BeginsWord
  <1>4. ASSUME e # Len(ident) + 1, ident[e] \notin Separators
        PROVE  BeginsWord(ident, e)
    <2>1. e \in 1 .. Len(ident) /\ e - 1 \in 1 .. Len(ident) /\ e - 1 \in n .. (e - 1)
      BY <1>1, <1>2, <1>4
    <2>2. ident[e] \in Upper /\ ident[e - 1] \notin Upper
      BY <1>2, <1>4, <2>1, FourKinds
    <2>3. QED
      BY <1>4, <2>2 DEF BeginsWord
  <1>5. QED
    BY <1>2, <1>3, <1>4 DEF IsBreak, e

(* Capitals go on to the last of them, when lower case follows; else they  *)
(* and the lower case behind them are one word.                            *)
LEMMA UpperRunBreaks ==
  ASSUME SearchAssumption, NEW ident \in Seq(Characters), NEW n \in 1 .. Len(ident),
         ident[n] \in Upper, NEW end, NEW start, NEW last,
         end = RunEnd(ident, n, Upper), start = StartOfLower(ident, n, end),
         last = RunEnd(ident, end, Lower \cup Digits)
  PROVE  /\ start \in n .. Len(ident) /\ ident[start] \notin Separators
         /\ start > n => IsBreak(ident, n, start)
         /\ IsBreak(ident, start, last)
  <1>1. Len(ident) \in Nat
    BY WordTypes
  <1>2. /\ end \in (n + 1) .. (Len(ident) + 1)
        /\ \A m \in n .. (end - 1) : ident[m] \in Upper
        /\ end = Len(ident) + 1 \/ ident[end] \notin Upper
    <2>1. IsRunEnd(ident, n, Upper, end)
      BY <1>1, RunEndFacts
    <2>2. QED
      BY <1>1, <2>1 DEF IsRunEnd
  <1>3. /\ last \in end .. (Len(ident) + 1)
        /\ \A m \in end .. (last - 1) : ident[m] \in Lower \cup Digits
        /\ last = Len(ident) + 1 \/ ident[last] \notin Lower \cup Digits
        /\ ident[end] \in Lower /\ end <= Len(ident) => last > end
    <2>1. end \in 1 .. (Len(ident) + 1)
      BY <1>1, <1>2
    <2>2. IsRunEnd(ident, end, Lower \cup Digits, last)
      BY <1>1, <2>1, RunEndFacts
    <2>3. QED
      BY <1>1, <2>2 DEF IsRunEnd
  <1>4. start = IF end <= Len(ident) /\ ident[end] \in Lower THEN end - 1 ELSE n
    BY DEF StartOfLower
  <1>5. start \in n .. (end - 1) /\ start \in n .. Len(ident)
    BY <1>1, <1>2, <1>4
  <1>6. ident[start] \notin Separators
    <2>1. ident[start] \in Upper /\ start \in 1 .. Len(ident)
      BY <1>1, <1>2, <1>5
    <2>2. QED
      BY <2>1, FourKinds
  \* Within the capitals nothing begins, but where lower case follows.
  <1>7. ASSUME NEW m \in (n + 1) .. (end - 1), m # start
        PROVE  ~BeginsWord(ident, m) /\ ident[m] \notin Separators
    <2>1. m \in 1 .. Len(ident) /\ m - 1 \in n .. (end - 1) /\ m # 1 /\ m \in n .. (end - 1)
      BY <1>1, <1>2
    <2>2. ident[m] \in Upper /\ ident[m - 1] \in Upper /\ m - 1 \in 1 .. Len(ident)
      BY <1>1, <1>2, <2>1
    <2>3. ident[m] \notin Separators /\ ident[m - 1] \notin Separators
      BY <2>1, <2>2, FourKinds
    <2>4. ~(m < Len(ident) /\ ident[m + 1] \in Lower)
      <3>1. CASE m + 1 < end
        <4>1. m + 1 \in n .. (end - 1) /\ m + 1 \in 1 .. Len(ident)
          BY <1>1, <1>2, <3>1
        <4>2. ident[m + 1] \in Upper
          BY <1>2, <4>1
        <4>3. QED
          BY <4>1, <4>2, FourKinds
      <3>2. CASE m + 1 = end
        <4>1. ~(end <= Len(ident) /\ ident[end] \in Lower)
          BY <1>2, <1>4, <1>7, <3>2
        <4>2. QED
          BY <1>1, <1>2, <3>2, <4>1
      <3>3. QED
        BY <1>1, <1>2, <3>1, <3>2
    <2>5. QED
      BY <2>1, <2>2, <2>3, <2>4 DEF BeginsWord
  <1>8. ASSUME start > n
        PROVE  IsBreak(ident, n, start)
    <2>1. end <= Len(ident) /\ ident[end] \in Lower /\ start = end - 1
      BY <1>4, <1>8
    <2>2. BeginsWord(ident, start)
      <3>1. start < Len(ident) /\ start + 1 = end /\ ident[start] \in Upper
        BY <1>1, <1>2, <1>5, <2>1
      <3>2. QED
        BY <1>6, <2>1, <3>1 DEF BeginsWord
    <2>3. ASSUME NEW m \in (n + 1) .. (start - 1)
          PROVE  ~BeginsWord(ident, m) /\ ident[m] \notin Separators
      <3>1. m \in (n + 1) .. (end - 1) /\ m # start
        BY <1>1, <1>2, <2>1
      <3>2. QED
        BY <1>7, <3>1
    <2>4. start \in (n + 1) .. (Len(ident) + 1)
      BY <1>1, <1>5, <1>8
    <2>5. QED
      BY <2>2, <2>3, <2>4 DEF IsBreak
  <1>9. IsBreak(ident, start, last)
    <2>1. last \in (start + 1) .. (Len(ident) + 1)
      BY <1>1, <1>2, <1>3, <1>5
    <2>2. ASSUME NEW m \in (start + 1) .. (last - 1)
          PROVE  ~BeginsWord(ident, m) /\ ident[m] \notin Separators
      <3>1. CASE m < end
        <4>1. m \in (n + 1) .. (end - 1) /\ m # start
          BY <1>1, <1>2, <1>3, <1>5, <3>1
        <4>2. QED
          BY <1>7, <4>1
      <3>2. CASE m >= end
        <4>1. m \in end .. (last - 1) /\ m \in 1 .. Len(ident) /\ m # 1 /\ m - 1 \in 1 .. Len(ident)
          BY <1>1, <1>2, <1>3, <1>5, <3>2
        <4>2. ident[m] \in Lower \cup Digits
          BY <1>3, <4>1
        <4>3. ident[m - 1] \notin Separators
          <5>1. CASE m = end
            <6>1. m - 1 \in n .. (end - 1)
              BY <1>1, <1>2, <5>1
            <6>2. QED
              BY <1>2, <4>1, <6>1, FourKinds
          <5>2. CASE m # end
            <6>1. m - 1 \in end .. (last - 1)
              BY <1>1, <1>2, <1>3, <4>1, <5>2
            <6>2. QED
              BY <1>3, <4>1, <6>1, FourKinds
          <5>3. QED
            BY <5>1, <5>2
        <4>4. ident[m] \notin Upper /\ ident[m] \notin Separators
          BY <4>1, <4>2, FourKinds
        <4>5. QED
          BY <4>1, <4>3, <4>4 DEF BeginsWord
      <3>3. QED
        BY <1>1, <1>2, <1>3, <1>5, <3>1, <3>2
    <2>3. ASSUME last # Len(ident) + 1, ident[last] \notin Separators
          PROVE  BeginsWord(ident, last)
      <3>1. last \in 1 .. Len(ident)
        BY <1>1, <1>2, <1>3, <2>3
      <3>2. ident[last] \in Upper
        BY <1>3, <2>3, <3>1, FourKinds
      <3>3. last # end
        BY <1>2, <2>3, <3>2
      <3>4. last - 1 \in end .. (last - 1) /\ last - 1 \in 1 .. Len(ident)
        BY <1>1, <1>2, <1>3, <3>1, <3>3
      <3>5. ident[last - 1] \notin Upper
        BY <1>3, <3>4, FourKinds
      <3>6. QED
        BY <2>3, <3>2, <3>5 DEF BeginsWord
    <2>4. QED
      BY <2>1, <2>2, <2>3 DEF IsBreak
  <1>10. QED
    BY <1>5, <1>6, <1>8, <1>9

(* If what follows is right, the step is.                                  *)
LEMMA StepGivesWords ==
  ASSUME SearchAssumption, NEW ident \in Seq(Characters), NEW n \in 1 .. (Len(ident) + 1),
         NEW rest, \A m \in (n + 1) .. (Len(ident) + 1) : rest[m] = WordsAfter(ident, m)
  PROVE  SplitStep(ident, rest, n) = WordsAfter(ident, n)
  <1>1. Len(ident) \in Nat
    BY WordTypes
  <1>2. CASE n > Len(ident)
    <2>1. n = Len(ident) + 1
      BY <1>1, <1>2
    <2>2. ~(n <= Len(ident))
      BY <1>1, <1>2
    <2>3. SplitStep(ident, rest, n) = <<>>
      BY <1>2, <2>2 DEF SplitStep
    <2>4. QED
      BY <2>1, <2>3, NothingAfterEnd
  <1>3. ASSUME n \in 1 .. Len(ident), ident[n] \in Separators
        PROVE  SplitStep(ident, rest, n) = WordsAfter(ident, n)
    <2>1. /\ ~(n > Len(ident)) /\ n <= Len(ident) /\ ident[n] \notin Upper
          /\ n + 1 \in (n + 1) .. (Len(ident) + 1)
      BY <1>1, <1>3, FourKinds
    <2>2. SplitStep(ident, rest, n) = rest[n + 1]
      BY <1>3, <2>1 DEF SplitStep
    <2>3. rest[n + 1] = WordsAfter(ident, n + 1)
      BY <2>1
    <2>4. WordsAfter(ident, n) = WordsAfter(ident, n + 1)
      BY <1>3, SkipSeparator
    <2>5. QED
      BY <2>2, <2>3, <2>4
  <1>4. ASSUME n \in 1 .. Len(ident), ident[n] \in Upper
        PROVE  SplitStep(ident, rest, n) = WordsAfter(ident, n)
    <2> DEFINE end == RunEnd(ident, n, Upper)
               start == StartOfLower(ident, n, end)
               last == RunEnd(ident, end, Lower \cup Digits)
               before == Word(ident, n, start - 1)
               word == Word(ident, start, last - 1)
    <2>1. ~(n > Len(ident)) /\ n <= Len(ident) /\ ident[n] \notin Separators
      BY <1>1, <1>4, FourKinds
    <2>2. SplitStep(ident, rest, n) =
            (IF start > n THEN before ELSE <<>>) \o word \o rest[last]
      BY <1>4, <2>1 DEF SplitStep
    <2> HIDE DEF before, word
    <2>3. /\ start \in n .. Len(ident) /\ ident[start] \notin Separators
          /\ start > n => IsBreak(ident, n, start)
          /\ IsBreak(ident, start, last)
      <3> HIDE DEF start, end, last
      <3>1. QED
        BY <1>4, UpperRunBreaks DEF start, end, last
    <2> HIDE DEF end, start, last
    <2>4. start \in 1 .. Len(ident) /\ last \in (n + 1) .. (Len(ident) + 1)
      BY <1>1, <1>4, <2>3 DEF IsBreak
    <2>5. rest[last] = WordsAfter(ident, last)
      BY <2>4
    <2>6. WordsAfter(ident, start) = word \o rest[last]
      <3>1. WordsAfter(ident, start) = Word(ident, start, last - 1) \o WordsAfter(ident, last)
        BY <2>3, <2>4, PeelWord
      <3>2. QED
        BY <2>5, <3>1, Zenon DEF word
    <2>7. word \in Seq(Seq(Characters)) /\ rest[last] \in Seq(Seq(Characters))
      <3>1. last = NextBreak(ident, start)
        BY <1>1, <2>3, <2>4, NextBreakIs
      <3>2. word = KeptFrom(ident, start)
        BY <1>1, <2>4, <3>1, WordEndsAtBreak DEF word
      <3>3. QED
        BY <2>4, <2>5, <3>2, WordTypes, WordsAfterTypes
    <2>8. Joined(Seq(Seq(Characters)))
      BY SequencesJoin
    <2>9. CASE start > n
      <3>1. WordsAfter(ident, n) = before \o WordsAfter(ident, start)
        BY <1>4, <2>1, <2>3, <2>9, PeelWord DEF before
      <3>2. before \in Seq(Seq(Characters))
        <4>1. start = NextBreak(ident, n)
          BY <1>1, <1>4, <2>3, <2>9, NextBreakIs
        <4>2. before = KeptFrom(ident, n)
          BY <1>1, <1>4, <4>1, WordEndsAtBreak DEF before
        <4>3. QED
          BY <1>4, <4>2, WordTypes
      <3>3. (before \o word) \o rest[last] = before \o (word \o rest[last])
        <4> DEFINE S == Seq(Seq(Characters))
                   r == rest[last]
        <4>1. Joined(S) /\ before \in S /\ word \in S /\ r \in S
          BY <2>7, <2>8, <3>2
        <4> HIDE DEF S, r
        <4>2. (before \o word) \o r = before \o (word \o r)
          BY <4>1, ZenonT(60) DEF Joined
        <4>3. QED
          BY <4>2 DEF r
      <3>4. QED
        BY <2>2, <2>6, <2>9, <3>1, <3>3, Zenon
    <2>10. CASE ~(start > n)
      <3>1. start = n
        BY <1>1, <2>3, <2>10
      <3>2. <<>> \o word = word
        BY <2>7, <2>8, Zenon DEF Joined
      <3>3. QED
        BY <2>2, <2>6, <2>10, <3>1, <3>2, Zenon
    <2>11. QED
      BY <2>9, <2>10
  <1>5. ASSUME n \in 1 .. Len(ident), ident[n] \in Lower \cup Digits
        PROVE  SplitStep(ident, rest, n) = WordsAfter(ident, n)
    <2> DEFINE end == RunEnd(ident, n, Lower \cup Digits)
    <2>1. ~(n > Len(ident)) /\ ident[n] \notin Upper /\ ident[n] \notin Separators
      BY <1>1, <1>5, FourKinds
    <2>2. SplitStep(ident, rest, n) = Word(ident, n, end - 1) \o rest[end]
      BY <2>1 DEF SplitStep
    <2>3. IsBreak(ident, n, end)
      BY <1>5, LowerRunBreaks
    <2> HIDE DEF end
    <2>4. rest[end] = WordsAfter(ident, end)
      BY <2>3 DEF IsBreak
    <2>5. WordsAfter(ident, n) = Word(ident, n, end - 1) \o WordsAfter(ident, end)
      BY <1>5, <2>1, <2>3, PeelWord
    <2>6. QED
      BY <2>2, <2>4, <2>5, Zenon
  <1>6. n \in 1 .. Len(ident) \/ n > Len(ident)
    BY <1>1
  <1>7. QED
    BY <1>2, <1>3, <1>4, <1>5, <1>6, FourKinds

(* The recursion of the split has one solution: the words after each place.*)
IsSplit(ident, rest) ==
  rest = [n \in 1 .. (Len(ident) + 1) |-> SplitStep(ident, rest, n)]

(* The words after each place satisfy the equation of the split,           *)
LEMMA SplitExists ==
  ASSUME SearchAssumption, NEW ident \in Seq(Characters)
  PROVE  IsSplit(ident, [n \in 1 .. (Len(ident) + 1) |-> WordsAfter(ident, n)])
  <1> DEFINE D == 1 .. (Len(ident) + 1)
             rest == [n \in D |-> WordsAfter(ident, n)]
  <1>1. Len(ident) \in Nat
    BY WordTypes
  <1>2. \A n \in D : rest[n] = WordsAfter(ident, n)
    OBVIOUS
  <1>3. rest = [n \in D |-> rest[n]]
    OBVIOUS
  <1> HIDE DEF rest
  <1>4. ASSUME NEW n \in D
        PROVE  SplitStep(ident, rest, n) = rest[n]
    <2>1. \A m \in (n + 1) .. (Len(ident) + 1) : m \in D
      BY <1>1
    <2>2. \A m \in (n + 1) .. (Len(ident) + 1) : rest[m] = WordsAfter(ident, m)
      BY <1>2, <2>1
    <2>3. SplitStep(ident, rest, n) = WordsAfter(ident, n)
      BY <2>2, StepGivesWords
    <2>4. QED
      BY <1>2, <2>3
  <1>5. rest = [n \in D |-> SplitStep(ident, rest, n)]
    BY <1>3, <1>4, Zenon
  <1>6. QED
    BY <1>5, Zenon DEF IsSplit, rest

(* and whatever satisfies it yields them.                                  *)
LEMMA SplitIsWords ==
  ASSUME SearchAssumption, NEW ident \in Seq(Characters), NEW rest, IsSplit(ident, rest)
  PROVE  rest[1] = WordsAfter(ident, 1)
  <1> DEFINE L == Len(ident) + 1
             D == 1 .. L
             Bad == {n \in D : rest[n] # WordsAfter(ident, n)}
             Far == {L - n : n \in Bad}
  <1>1. L \in Nat /\ L >= 1 /\ D \subseteq Nat
    BY WordTypes
  <1>2. \A n \in D : rest[n] = SplitStep(ident, rest, n)
    BY Zenon DEF IsSplit
  <1>3. Bad = {}
    <2>1. SUFFICES ASSUME Bad # {} PROVE FALSE
      OBVIOUS
    <2>2. PICK d \in Far : \A e \in Far : d <= e
      <3>1. Far \in SUBSET Nat /\ Far # {}
        BY <1>1, <2>1
      <3> HIDE DEF Far
      <3>2. QED
        BY <3>1, LeastNumber
    <2>3. PICK n \in Bad : d = L - n
      BY <2>2
    <2>4. ASSUME NEW m \in (n + 1) .. L
          PROVE  rest[m] = WordsAfter(ident, m)
      <3>1. m \in D /\ ~(d <= L - m)
        BY <1>1, <2>3
      <3>2. L - m \notin Far
        BY <2>2, <3>1
      <3>3. m \notin Bad
        BY <3>2
      <3>4. QED
        BY <3>1, <3>3
    <2>5. SplitStep(ident, rest, n) = WordsAfter(ident, n)
      BY <2>3, <2>4, StepGivesWords
    <2>6. QED
      BY <1>2, <2>3, <2>5
  <1>4. QED
    BY <1>1, <1>3

(* The words at the boundaries are those after the first place.            *)
LEMMA WordsOfBoundaries ==
  ASSUME NEW ident \in Seq(Characters)
  PROVE  KeptByBoundary(ident) = WordsAfter(ident, 1)
  <1>1. DOMAIN ident = 1 .. Len(ident) /\ Len(ident) \in Nat
    OBVIOUS
  <1>2. ASSUME NEW m \in 1 .. Len(ident)
        PROVE  BeginsFrom(ident, 1, m) <=> BeginsWord(ident, m)
    BY <1>1 DEF BeginsFrom, BeginsWord
  <1>3. WordsAt(ident, 1) =
          [n \in DOMAIN ident |-> IF BeginsWord(ident, n) THEN KeptFrom(ident, n) ELSE <<>>]
    BY <1>1, <1>2 DEF WordsAt
  <1>4. QED
    BY <1>3, Zenon DEF WordsAfter, KeptByBoundary

(* The one-pass split gives the words it keeps, in order.                  *)
LEMMA SplitKeepsWords ==
  ASSUME NEW ident \in Seq(Characters)
  PROVE  SplitIdentifier(ident) = KeptByBoundary(ident)
  <1> DEFINE rest == CHOOSE f : f = [n \in 1 .. (Len(ident) + 1) |-> SplitStep(ident, f, n)]
  <1>1. SplitIdentifier(ident) = rest[1]
    BY DEF SplitIdentifier, SplitStep
  <1>2. IsSplit(ident, rest)
    <2>1. \E f : IsSplit(ident, f)
      BY SplitExists, SearchAssumption
    <2>2. QED
      BY <2>1, Zenon DEF IsSplit
  <1> HIDE DEF rest
  <1>3. rest[1] = WordsAfter(ident, 1)
    BY <1>2, SplitIsWords, SearchAssumption
  <1>4. QED
    BY <1>1, <1>3, WordsOfBoundaries

(* Where no wide character is a word by itself, these are the words of     *)
(* more than one character.                                                *)
LEMMA KeptAreWords ==
  ASSUME NEW ident, ~HasLoneWide(ident)
  PROVE  KeptByBoundary(ident) = WordsByBoundary(ident)
  <1>1. ASSUME NEW n \in DOMAIN ident, BeginsWord(ident, n)
        PROVE  KeptFrom(ident, n) = WordFrom(ident, n)
    <2>1. ~(ident[n] \in Wide /\ LastOfWord(ident, n) = n)
      BY <1>1 DEF HasLoneWide
    <2>2. KeptFrom(ident, n) =
            IF n = LastOfWord(ident, n) /\ ident[n] \notin Wide THEN <<>>
            ELSE <<[m \in 1..(LastOfWord(ident, n) - n + 1) |-> Lowered(ident[n + m - 1])]>>
      BY Zenon DEF KeptFrom, LastOfWord
    <2>3. QED
      BY <2>1, <2>2, Zenon DEF WordFrom
  <1>2. [n \in DOMAIN ident |-> IF BeginsWord(ident, n) THEN KeptFrom(ident, n) ELSE <<>>]
          = [n \in DOMAIN ident |-> IF BeginsWord(ident, n) THEN WordFrom(ident, n) ELSE <<>>]
    BY <1>1, Zenon
  <1>3. QED
    BY <1>2, Zenon DEF KeptByBoundary, WordsByBoundary

(* The split gives the words at the boundaries of the comment, in order,   *)
(* for every identifier on which comment and code agree.                   *)
THEOREM SplitsIdentifiers ==
  ASSUME NEW ident \in Seq(Characters), ~HasLoneWide(ident)
  PROVE  SplitIdentifier(ident) = WordsByBoundary(ident)
  BY SplitKeepsWords, KeptAreWords

(* Whatever is asked for, the one pass takes every identifier of a query   *)
(* apart at its word boundaries.                                           *)
THEOREM QueriesAreSplit == CommandsSpec => []SplitsAtBoundaries
  <1>1. CommandsIInv => SplitsAtBoundaries
    <2>1. SUFFICES ASSUME CommandsIInv, answer.query.kind = "keywords",
                          NEW n \in DOMAIN answer.query.keywords,
                          ~HasLoneWide(answer.query.keywords[n])
                   PROVE  SplitIdentifier(answer.query.keywords[n])
                            = WordsByBoundary(answer.query.keywords[n])
      BY Zenon DEF SplitsAtBoundaries
    <2>2. AnswerIs(answer, built)
      BY <2>1 DEF CommandsIInv, SavedInv
    <2>3. answer # NoAnswer
      BY <2>1 DEF NoAnswer
    <2>4. PICK query \in AllQueries : answer.query = query
      BY <2>2, <2>3 DEF AnswerIs
    <2>5. answer.query.keywords \in Seq(Seq(Characters))
      BY <2>1, <2>4, CommandsAssumption DEF AllQueries
    <2>6. answer.query.keywords[n] \in Seq(Characters)
      <3> DEFINE S == Seq(Characters)
      <3> HIDE DEF S
      <3>1. answer.query.keywords \in Seq(S)
        BY <2>5 DEF S
      <3>2. answer.query.keywords[n] \in S
        BY <2>1, <3>1
      <3>3. QED
        BY <3>2 DEF S
    <2>7. QED
      BY <2>1, <2>6, SplitsIdentifiers
  <1>2. QED
    BY <1>1, CommandsInvariant, PTL

-----------------------------------------------------------------------------
(* The two backends.  A bucket lists, in rising order, the items among the *)
(* first k that have its hash.                                             *)
Lists(its, h, k, b) ==
  /\ b \in Seq(1 .. Len(its)) /\ Len(b) <= k
  /\ \A m \in 1 .. Len(b) : b[m] <= k /\ h \in UniqueSet(its[b[m]])
  /\ \A l, m \in 1 .. Len(b) : l < m => b[l] < b[m]
  /\ \A n \in 1 .. k : h \in UniqueSet(its[n]) => \E m \in 1 .. Len(b) : b[m] = n

(* The next item goes to the end of the bucket, or is passed over.         *)
LEMMA BucketGrows ==
  ASSUME NEW T, NEW its \in Seq(T), NEW h, NEW k \in 1 .. Len(its), NEW b,
         Lists(its, h, k - 1, b)
  PROVE  /\ h \in UniqueSet(its[k]) => Lists(its, h, k, b \o <<k>>)
         /\ h \notin UniqueSet(its[k]) => Lists(its, h, k, b \o <<>>)
  <1> DEFINE N == Len(its)
             L == Len(b)
  <1>1. N \in Nat /\ k \in 1 .. N
    OBVIOUS
  <1>2. /\ b \in Seq(1 .. N) /\ L \in Nat /\ L <= k - 1
        /\ \A m \in 1 .. L : b[m] \in 1 .. N /\ b[m] <= k - 1 /\ h \in UniqueSet(its[b[m]])
        /\ \A l, m \in 1 .. L : l < m => b[l] < b[m]
        /\ \A n \in 1 .. (k - 1) : h \in UniqueSet(its[n]) => \E m \in 1 .. L : b[m] = n
    <2>1. b \in Seq(1 .. N)
      BY DEF Lists
    <2>2. \A m \in 1 .. L : b[m] \in 1 .. N
      BY <2>1
    <2>3. QED
      BY <2>1, <2>2 DEF Lists
  <1>3. ASSUME h \in UniqueSet(its[k])
        PROVE  Lists(its, h, k, b \o <<k>>)
    <2> DEFINE c == b \o <<k>>
    <2>1. /\ c \in Seq(1 .. N) /\ Len(c) = L + 1
          /\ \A m \in 1 .. L : c[m] = b[m]
          /\ c[L + 1] = k
      BY <1>1, <1>2
    <2> HIDE DEF c, N, L
    <2>2. \A m \in 1 .. (L + 1) : m \in 1 .. L \/ m = L + 1
      BY <1>2
    <2>3. \A m \in 1 .. (L + 1) : c[m] <= k /\ h \in UniqueSet(its[c[m]])
      <3>1. TAKE m \in 1 .. (L + 1)
      <3>2. CASE m \in 1 .. L
        BY <1>1, <1>2, <2>1, <3>2
      <3>3. CASE m = L + 1
        BY <1>1, <1>3, <2>1, <3>3
      <3>4. QED
        BY <2>2, <3>2, <3>3
    <2>4. \A l, m \in 1 .. (L + 1) : l < m => c[l] < c[m]
      <3>1. SUFFICES ASSUME NEW l \in 1 .. (L + 1), NEW m \in 1 .. (L + 1), l < m
                     PROVE  c[l] < c[m]
        OBVIOUS
      <3>2. l \in 1 .. L
        BY <1>2, <3>1
      <3>3. CASE m \in 1 .. L
        BY <1>2, <2>1, <3>1, <3>2, <3>3
      <3>4. CASE m = L + 1
        BY <1>1, <1>2, <2>1, <3>2, <3>4
      <3>5. QED
        BY <2>2, <3>3, <3>4
    <2>5. \A n \in 1 .. k : h \in UniqueSet(its[n]) => \E m \in 1 .. (L + 1) : c[m] = n
      <3>1. SUFFICES ASSUME NEW n \in 1 .. k, h \in UniqueSet(its[n])
                     PROVE  \E m \in 1 .. (L + 1) : c[m] = n
        OBVIOUS
      <3>2. CASE n = k
        BY <1>2, <2>1, <3>2
      <3>3. CASE n # k
        <4>1. n \in 1 .. (k - 1)
          BY <1>1, <3>3
        <4>2. PICK m \in 1 .. L : b[m] = n
          BY <1>2, <3>1, <4>1
        <4>3. m \in 1 .. (L + 1) /\ c[m] = n
          BY <1>2, <2>1, <4>2
        <4>4. QED
          BY <4>3
      <3>4. QED
        BY <3>2, <3>3
    <2>6. L + 1 <= k
      BY <1>1, <1>2
    <2>7. QED
      BY <2>1, <2>3, <2>4, <2>5, <2>6 DEF Lists, c, N
  <1>4. ASSUME h \notin UniqueSet(its[k])
        PROVE  Lists(its, h, k, b \o <<>>)
    <2>1. b \o <<>> = b
      BY <1>2
    <2>2. \A n \in 1 .. k : n \in 1 .. (k - 1) \/ n = k
      BY <1>1
    <2>3. \A n \in 1 .. k : h \in UniqueSet(its[n]) => \E m \in 1 .. L : b[m] = n
      BY <1>2, <1>4, <2>2
    <2>4. L <= k /\ \A m \in 1 .. L : b[m] <= k
      BY <1>1, <1>2
    <2> HIDE DEF L
    <2>5. Lists(its, h, k, b)
      BY <1>2, <2>3, <2>4 DEF Lists, L
    <2>6. QED
      BY <2>1, <2>5
  <1>5. QED
    BY <1>3, <1>4

LEMMA BucketLists ==
  ASSUME NEW T, NEW its \in Seq(T), NEW h
  PROVE  Lists(its, h, Len(its), Bucket(its, h))
  <1> DEFINE N == Len(its)
             rows == [n \in DOMAIN its |-> IF h \in UniqueSet(its[n]) THEN <<n>> ELSE <<>>]
  <1>1. N \in Nat /\ DOMAIN its = 1 .. N
    OBVIOUS
  <1>2. rows \in Seq(Seq(1 .. N)) /\ Len(rows) = N
    <2> DEFINE S == Seq(1 .. N)
    <2>1. \A n \in 1 .. N : <<n>> \in S /\ <<>> \in S
      OBVIOUS
    <2> HIDE DEF S
    <2>2. rows \in [1 .. N -> S]
      BY <1>1, <2>1
    <2> HIDE DEF rows, N
    <2>3. QED
      BY <1>1, <2>2 DEF S
  <1>3. \A n \in 1 .. N : rows[n] = IF h \in UniqueSet(its[n]) THEN <<n>> ELSE <<>>
    BY <1>1
  <1>4. Bucket(its, h) = FlattenSeq(rows)
    BY DEF Bucket
  <1> HIDE DEF rows
  <1>5. PICK g \in [0 .. N -> Seq(1 .. N)] : Flattens(g, rows) /\ FlattenSeq(rows) = g[N]
    <2>1. PICK g \in [0 .. Len(rows) -> Seq(1 .. N)] :
            Flattens(g, rows) /\ FlattenSeq(rows) = g[Len(rows)]
      BY <1>2, FlattenSteps
    <2>2. QED
      BY <1>2, <2>1
  <1>6. g[0] = <<>> /\ \A k \in 1 .. N : g[k] = g[k - 1] \o rows[k]
    BY <1>2, <1>5, Zenon DEF Flattens
  <1>7. Lists(its, h, 0, <<>>)
    BY <1>1 DEF Lists
  <1> DEFINE Bad == {k \in 0 .. N : ~Lists(its, h, k, g[k])}
  <1>8. Bad = {}
    <2>1. SUFFICES ASSUME Bad # {} PROVE FALSE
      OBVIOUS
    <2>2. PICK k \in Bad : \A j \in Bad : k <= j
      <3>1. Bad \in SUBSET Nat
        BY <1>1
      <3> HIDE DEF Bad
      <3>2. QED
        BY <2>1, <3>1, LeastNumber
    <2>3. k \in 0 .. N /\ k # 0
      BY <1>6, <1>7
    <2>4. k \in 1 .. N /\ k - 1 \in 0 .. N /\ ~(k <= k - 1)
      BY <1>1, <2>3
    <2>5. Lists(its, h, k - 1, g[k - 1])
      BY <2>2, <2>4
    <2>6. Lists(its, h, k, g[k - 1] \o rows[k])
      <3>1. CASE h \in UniqueSet(its[k])
        <4>1. rows[k] = <<k>>
          BY <1>3, <2>4, <3>1
        <4>2. QED
          BY <2>4, <2>5, <3>1, <4>1, BucketGrows
      <3>2. CASE h \notin UniqueSet(its[k])
        <4>1. rows[k] = <<>>
          BY <1>3, <2>4, <3>2
        <4>2. QED
          BY <2>4, <2>5, <3>2, <4>1, BucketGrows
      <3>3. QED
        BY <3>1, <3>2
    <2>7. Lists(its, h, k, g[k])
      BY <1>6, <2>4, <2>6
    <2>8. QED
      BY <2>2, <2>7
  <1>9. N \in 0 .. N
    BY <1>1
  <1>10. QED
    BY <1>4, <1>5, <1>8, <1>9

(* Two items meet once in a bucket both are in, and an item never meets    *)
(* itself.                                                                 *)
LEMMA PairedOnce ==
  ASSUME NEW T, NEW its \in Seq(T), NEW h, NEW i \in 1 .. Len(its), NEW j \in 1 .. Len(its),
         i <= j
  PROVE  TimesPaired(Bucket(its, h), i, j)
           = IF i # j /\ h \in UniqueSet(its[i]) \cap UniqueSet(its[j]) THEN 1 ELSE 0
  <1> DEFINE N == Len(its)
             b == Bucket(its, h)
             L == Len(b)
             P == {nm \in (DOMAIN b) \X (DOMAIN b) :
                     nm[1] < nm[2] /\ {b[nm[1]], b[nm[2]]} = {i, j}}
  <1>1. TimesPaired(b, i, j) = Cardinality(P)
    BY DEF TimesPaired
  <1>2. Lists(its, h, N, b)
    BY BucketLists
  <1> HIDE DEF b
  <1>3. /\ b \in Seq(1 .. N) /\ L \in Nat /\ DOMAIN b = 1 .. L
        /\ \A m \in 1 .. L : b[m] \in 1 .. N
    <2>1. b \in Seq(1 .. N)
      BY <1>2 DEF Lists
    <2>2. QED
      BY <2>1
  <1> HIDE DEF L
  <1>4. /\ \A m \in 1 .. L : h \in UniqueSet(its[b[m]])
        /\ \A l, m \in 1 .. L : l < m => b[l] < b[m]
        /\ \A n \in 1 .. N : h \in UniqueSet(its[n]) => \E m \in 1 .. L : b[m] = n
    BY <1>2, Zenon DEF Lists, L
  <1>5. ASSUME NEW n \in 1 .. L, NEW m \in 1 .. L, n < m, {b[n], b[m]} = {i, j}
        PROVE  i # j /\ b[n] = i /\ b[m] = j
    <2>1. b[n] < b[m] /\ b[n] \in 1 .. N /\ b[m] \in 1 .. N
      BY <1>3, <1>4, <1>5
    <2>2. (b[n] = i /\ b[m] = j) \/ (b[n] = j /\ b[m] = i) \/ (b[n] = i /\ b[m] = i)
          \/ (b[n] = j /\ b[m] = j)
      BY <1>5
    <2>3. i \in Nat /\ j \in Nat
      OBVIOUS
    <2>4. QED
      BY <2>1, <2>2, <2>3
  <1>6. CASE i # j /\ h \in UniqueSet(its[i]) \cap UniqueSet(its[j])
    <2>1. PICK n \in 1 .. L : b[n] = i
      BY <1>4, <1>6
    <2>2. PICK m \in 1 .. L : b[m] = j
      BY <1>4, <1>6
    <2>3. n < m
      <3>1. ~(b[m] < b[n]) /\ b[m] # b[n]
        BY <1>6, <2>1, <2>2
      <3>2. QED
        BY <1>3, <1>4, <3>1
    <2>4. ASSUME NEW x \in 1 .. L, NEW y \in 1 .. L, b[x] = b[y]
          PROVE  x = y
      <3>1. ~(b[x] < b[y]) /\ ~(b[y] < b[x])
        BY <1>3, <2>4
      <3>2. QED
        BY <1>3, <1>4, <3>1
    <2>5. P = {<<n, m>>}
      <3>1. \A nm \in P : nm = <<n, m>>
        <4>1. TAKE nm \in P
        <4>2. PICK x \in 1 .. L, y \in 1 .. L : nm = <<x, y>>
          BY <1>3
        <4>3. x < y /\ {b[x], b[y]} = {i, j}
          BY <4>2
        <4>4. b[x] = i /\ b[y] = j
          BY <1>5, <4>3
        <4>5. QED
          BY <2>1, <2>2, <2>4, <4>2, <4>4
      <3>2. <<n, m>> \in P
        BY <1>3, <2>1, <2>2, <2>3
      <3> HIDE DEF P
      <3>3. QED
        BY <3>1, <3>2
    <2>6. Cardinality(P) = 1
      BY <2>5, FS_Singleton
    <2>7. QED
      BY <1>1, <1>6, <2>6 DEF b
  <1>7. CASE ~(i # j /\ h \in UniqueSet(its[i]) \cap UniqueSet(its[j]))
    <2>1. P = {}
      <3>1. SUFFICES ASSUME NEW n \in 1 .. L, NEW m \in 1 .. L, n < m, {b[n], b[m]} = {i, j}
                     PROVE  FALSE
        BY <1>3
      <3>2. QED
        BY <1>4, <1>5, <1>7, <3>1
    <2>2. Cardinality(P) = 0
      BY <2>1, FS_EmptySet
    <2>3. QED
      BY <1>1, <1>7, <2>2 DEF b
  <1>8. QED
    BY <1>6, <1>7

(* A sum of zeros and ones counts the ones: what MapThenSumSet makes of    *)
(* the buckets.                                                            *)
Met(its, maxBucket, i, j, h) ==
  IF Len(Bucket(its, h)) > maxBucket THEN 0 ELSE TimesPaired(Bucket(its, h), i, j)

MeetIn(its, maxBucket, i, j, C) ==
  \A h \in AllHashes(its) : Met(its, maxBucket, i, j, h) = IF h \in C THEN 1 ELSE 0

LEMMA SumCounts ==
  ASSUME NEW its, NEW maxBucket, NEW i, NEW j, NEW C, IsFiniteSet(AllHashes(its)),
         MeetIn(its, maxBucket, i, j, C)
  PROVE  PairShared(its, maxBucket, i, j) = Cardinality(AllHashes(its) \cap C)
  <1> DEFINE S == AllHashes(its)
             pick(s) == CHOOSE x \in s : TRUE
             step(f, s) == IF s = {} THEN 0
                           ELSE Met(its, maxBucket, i, j, pick(s)) + f[s \ {pick(s)}]
             iter == CHOOSE f : f = [s \in SUBSET S |-> step(f, s)]
             g == [s \in SUBSET S |-> Cardinality(s \cap C)]
  <1>1. PairShared(its, maxBucket, i, j) = iter[S]
    BY DEF PairShared, MapThenSumSet, MapThenFoldSet, Met
  <1>2. \A s \in SUBSET S : s # {} => pick(s) \in s
    OBVIOUS
  <1>3. \A s \in SUBSET S : IsFiniteSet(s) /\ IsFiniteSet(s \cap C) /\ Cardinality(s \cap C) \in Nat
    BY FS_Subset, FS_Intersection, FS_CardinalityType
  <1> HIDE DEF pick
  <1>4. ASSUME NEW s \in SUBSET S
        PROVE  Cardinality(s \cap C) = step(g, s)
    <2>1. CASE s = {}
      BY <2>1, FS_EmptySet
    <2>2. CASE s # {}
      <3> DEFINE x == pick(s)
      <3>1. x \in s /\ x \in S /\ s \ {x} \in SUBSET S
        BY <1>2, <2>2
      <3>2. g[s \ {x}] = Cardinality((s \ {x}) \cap C)
        BY <3>1
      <3>3. Met(its, maxBucket, i, j, x) = IF x \in C THEN 1 ELSE 0
        BY <3>1 DEF MeetIn
      <3> HIDE DEF x, g
      <3>4. CASE x \in C
        <4>1. (s \ {x}) \cap C = (s \cap C) \ {x} /\ x \in s \cap C
          BY <3>1, <3>4
        <4>2. Cardinality((s \cap C) \ {x}) = Cardinality(s \cap C) - 1
          BY <1>3, <4>1, FS_RemoveElement
        <4>3. Cardinality(s \cap C) = 1 + Cardinality((s \ {x}) \cap C)
          <5> DEFINE c == Cardinality(s \cap C)
          <5>1. c \in Nat
            BY <1>3
          <5>2. Cardinality((s \ {x}) \cap C) = c - 1
            BY <4>1, <4>2, Zenon
          <5> HIDE DEF c
          <5>3. c = 1 + Cardinality((s \ {x}) \cap C)
            BY <5>1, <5>2
          <5>4. QED
            BY <5>3 DEF c
        <4>4. QED
          BY <2>2, <3>2, <3>3, <3>4, <4>3 DEF x
      <3>5. CASE x \notin C
        <4>1. (s \ {x}) \cap C = s \cap C
          BY <3>5
        <4>2. Cardinality(s \cap C) = 0 + Cardinality((s \ {x}) \cap C)
          BY <1>3, <4>1
        <4>3. QED
          BY <2>2, <3>2, <3>3, <3>5, <4>2 DEF x
      <3>6. QED
        BY <3>4, <3>5
    <2>3. QED
      BY <2>1, <2>2
  <1>5. g = [s \in SUBSET S |-> step(g, s)]
    <2>1. \A s \in SUBSET S : g[s] = step(g, s)
      <3>1. \A s \in SUBSET S : g[s] = Cardinality(s \cap C)
        OBVIOUS
      <3> HIDE DEF g
      <3>2. QED
        BY <1>4, <3>1
    <2>2. g = [s \in SUBSET S |-> g[s]]
      OBVIOUS
    <2> HIDE DEF g
    <2>3. QED
      BY <2>1, <2>2, Zenon
  <1>6. \A s \in SUBSET S : iter[s] = step(iter, s)
    <2> HIDE DEF g
    <2>1. iter = [s \in SUBSET S |-> step(iter, s)]
      BY <1>5, Zenon
    <2> HIDE DEF iter
    <2>2. QED
      BY <2>1
  <1>7. \A s \in SUBSET S : g[s] = step(g, s)
    <2> HIDE DEF g
    <2>1. QED
      BY <1>5
  <1> HIDE DEF g, iter
  <1> DEFINE Bad == {n \in Nat : \E s \in SUBSET S : Cardinality(s) = n /\ iter[s] # g[s]}
  <1>8. Bad = {}
    <2>1. SUFFICES ASSUME Bad # {} PROVE FALSE
      OBVIOUS
    <2>2. PICK n \in Bad : \A m \in Bad : n <= m
      <3>1. Bad \in SUBSET Nat
        OBVIOUS
      <3> HIDE DEF Bad
      <3>2. QED
        BY <2>1, <3>1, LeastNumber
    <2>3. PICK s \in SUBSET S : Cardinality(s) = n /\ iter[s] # g[s]
      OBVIOUS
    <2>4. s # {}
      BY <1>6, <1>7, <2>3
    <2> DEFINE x == pick(s)
    <2>5. x \in s /\ s \ {x} \in SUBSET S
      BY <1>2, <2>4
    <2> HIDE DEF x
    <2>6. Cardinality(s \ {x}) = n - 1 /\ Cardinality(s \ {x}) \in Nat /\ n \in Nat
      BY <1>3, <2>3, <2>5, FS_RemoveElement, FS_CardinalityType
    <2>7. Cardinality(s \ {x}) \notin Bad
      <3> HIDE DEF Bad
      <3>1. QED
        BY <2>2, <2>6
    <2>8. iter[s \ {x}] = g[s \ {x}]
      BY <2>5, <2>6, <2>7
    <2>9. iter[s] = g[s]
      <3> HIDE DEF Bad
      <3>1. iter[s] = Met(its, maxBucket, i, j, x) + iter[s \ {x}]
        BY <1>6, <2>4 DEF x
      <3>2. g[s] = Met(its, maxBucket, i, j, x) + g[s \ {x}]
        BY <1>7, <2>4 DEF x
      <3>3. QED
        BY <2>8, <3>1, <3>2
    <2>10. QED
      BY <2>3, <2>9
  <1>9. S \in SUBSET S /\ Cardinality(S) \in Nat
    BY FS_CardinalityType
  <1>10. iter[S] = g[S]
    BY <1>8, <1>9
  <1>11. g[S] = Cardinality(S \cap C)
    BY <1>9 DEF g
  <1>12. QED
    BY <1>1, <1>10, <1>11

(* The items hold finitely many fingerprints.                              *)
FiniteItems(its) == \A n \in DOMAIN its : IsFiniteSet(UniqueSet(its[n]))

LEMMA HashesFinite ==
  ASSUME NEW T, NEW its \in Seq(T), FiniteItems(its)
  PROVE  IsFiniteSet(AllHashes(its))
  <1> DEFINE D == DOMAIN its
             sets == {UniqueSet(its[n]) : n \in D}
  <1>1. IsFiniteSet(D)
    <2>1. D = 1 .. Len(its) /\ 1 \in Int /\ Len(its) \in Int
      OBVIOUS
    <2>2. QED
      BY <2>1, FS_Interval
  <1>2. IsFiniteSet(sets)
    <2> DEFINE f == [n \in D |-> UniqueSet(its[n])]
    <2>1. f \in Surjection(D, sets)
      BY DEF Surjection
    <2> HIDE DEF f, sets, D
    <2>2. QED
      BY <1>1, <2>1, FS_Surjection
  <1>3. \A s \in sets : IsFiniteSet(s)
    BY DEF FiniteItems
  <1> HIDE DEF sets
  <1>4. IsFiniteSet(UNION sets)
    BY <1>2, <1>3, FS_UNION
  <1>5. QED
    BY <1>4 DEF AllHashes, sets

(* With no bucket skipped, the inverted index counts what two items share; *)
(* an item shares nothing with itself.                                     *)
LEMMA CountsShared ==
  ASSUME NEW T, NEW its \in Seq(T), FiniteItems(its), NEW maxBucket \in Nat,
         maxBucket >= Len(its), NEW i \in 1 .. Len(its), NEW j \in 1 .. Len(its), i <= j
  PROVE  PairShared(its, maxBucket, i, j)
           = IF i = j THEN 0 ELSE Cardinality(UniqueSet(its[i]) \cap UniqueSet(its[j]))
  <1> DEFINE C == IF i = j THEN {} ELSE UniqueSet(its[i]) \cap UniqueSet(its[j])
  <1>1. ASSUME NEW h \in AllHashes(its)
        PROVE  Met(its, maxBucket, i, j, h) = IF h \in C THEN 1 ELSE 0
    <2>1. Len(Bucket(its, h)) <= Len(its) /\ Len(Bucket(its, h)) \in Nat
      <3>1. Lists(its, h, Len(its), Bucket(its, h))
        BY BucketLists
      <3>2. QED
        BY <3>1 DEF Lists
    <2>2. ~(Len(Bucket(its, h)) > maxBucket)
      BY <2>1
    <2>3. TimesPaired(Bucket(its, h), i, j)
            = IF i # j /\ h \in UniqueSet(its[i]) \cap UniqueSet(its[j]) THEN 1 ELSE 0
      BY PairedOnce
    <2>4. QED
      BY <2>2, <2>3 DEF Met
  <1>2. IsFiniteSet(AllHashes(its))
    BY HashesFinite
  <1>3. AllHashes(its) \cap C = C
    <2>1. DOMAIN its = 1 .. Len(its)
      OBVIOUS
    <2>2. UniqueSet(its[i]) \subseteq AllHashes(its)
      BY <2>1 DEF AllHashes
    <2>3. QED
      BY <2>2
  <1> HIDE DEF C
  <1>4. PairShared(its, maxBucket, i, j) = Cardinality(AllHashes(its) \cap C)
    <2>1. MeetIn(its, maxBucket, i, j, C)
      BY <1>1 DEF MeetIn
    <2>2. QED
      BY <1>2, <2>1, SumCounts
  <1>5. QED
    BY <1>3, <1>4, FS_EmptySet DEF C

(* What the oracle finds: the pairs that share a fingerprint, with what    *)
(* the sets of fingerprints share.                                         *)
Shared(its, i, j) == Cardinality(UniqueSet(its[i]) \cap UniqueSet(its[j]))

OverlapFinding(its, opts, i, j) ==
  Classified(its, opts, i, j, Overlap(UniqueSet(its[i]), UniqueSet(its[j])))

LEMMA NaiveFindings ==
  ASSUME NEW T, NEW its \in Seq(T), FiniteItems(its), NEW opts, opts.maxBucket \in Nat,
         opts.maxBucket >= Len(its), NEW f
  PROVE  f \in RunNaive(its, opts) <=>
           \E i, j \in 1 .. Len(its) :
             /\ i < j /\ Shared(its, i, j) > 0 /\ Shared(its, i, j) >= opts.minShared
             /\ f = OverlapFinding(its, opts, i, j)
  <1> DEFINE D == (DOMAIN its) \X (DOMAIN its)
             shared == [ij \in D |-> IF ij[1] > ij[2] THEN 0
                                     ELSE PairShared(its, opts.maxBucket, ij[1], ij[2])]
             union(ij) == Cardinality(UniqueSet(its[ij[1]]))
                          + Cardinality(UniqueSet(its[ij[2]])) - shared[ij]
             found(ij) == <<ij, ClassifyWithRoot(opts.root,
                                  [shared |-> shared[ij], union |-> union(ij)],
                                  EndOf(its[ij[1]]), EndOf(its[ij[2]]))>>
             pairs == {c \in DOMAIN shared : shared[c] > 0 /\ shared[c] >= opts.minShared}
  <1>1. RunNaive(its, opts) = {found(ij) : ij \in pairs}
    BY DEF RunNaive
  <1>2. DOMAIN its = 1 .. Len(its) /\ Len(its) \in Nat
    OBVIOUS
  <1>3. ASSUME NEW i \in 1 .. Len(its), NEW j \in 1 .. Len(its)
        PROVE  /\ <<i, j>> \in D
               /\ shared[<<i, j>>] = IF i < j THEN Shared(its, i, j) ELSE 0
    <2>1. <<i, j>> \in D
      BY <1>2
    <2>2. shared[<<i, j>>] = IF i > j THEN 0 ELSE PairShared(its, opts.maxBucket, i, j)
      BY <2>1
    <2>3. CASE i > j
      <3>1. ~(i < j)
        BY <1>2, <2>3
      <3>2. QED
        BY <2>1, <2>2, <2>3, <3>1
    <2>4. CASE ~(i > j)
      <3>1. i <= j /\ (i < j <=> i # j)
        BY <1>2, <2>4
      <3>2. PairShared(its, opts.maxBucket, i, j) = IF i = j THEN 0 ELSE Shared(its, i, j)
        BY <3>1, CountsShared DEF Shared
      <3> HIDE DEF shared
      <3>3. QED
        BY <2>1, <2>2, <2>4, <3>1, <3>2
    <2>5. QED
      BY <2>3, <2>4
  <1>4. DOMAIN shared = D
    OBVIOUS
  <1>5. ASSUME NEW i \in 1 .. Len(its), NEW j \in 1 .. Len(its), i < j
        PROVE  found(<<i, j>>) = OverlapFinding(its, opts, i, j)
    <2>1. shared[<<i, j>>] = Shared(its, i, j)
      BY <1>3, <1>5
    <2> HIDE DEF shared
    <2>2. [shared |-> shared[<<i, j>>], union |-> union(<<i, j>>)]
            = Overlap(UniqueSet(its[i]), UniqueSet(its[j]))
      BY <2>1 DEF Overlap, Shared
    <2> HIDE DEF union
    <2>3. QED
      BY <2>2 DEF OverlapFinding, Classified
  <1> HIDE DEF shared, found
  <1>6. ASSUME f \in RunNaive(its, opts)
        PROVE  \E i, j \in 1 .. Len(its) :
                 /\ i < j /\ Shared(its, i, j) > 0 /\ Shared(its, i, j) >= opts.minShared
                 /\ f = OverlapFinding(its, opts, i, j)
    <2>1. PICK ij \in pairs : f = found(ij)
      BY <1>1, <1>6
    <2>2. PICK i \in 1 .. Len(its), j \in 1 .. Len(its) : ij = <<i, j>>
      BY <1>2, <1>4, <2>1
    <2>3. shared[<<i, j>>] > 0 /\ shared[<<i, j>>] >= opts.minShared
      BY <2>1, <2>2
    <2>4. i < j
      BY <1>3, <2>3
    <2>5. shared[<<i, j>>] = Shared(its, i, j)
      BY <1>3, <2>4
    <2>6. QED
      BY <1>5, <2>1, <2>2, <2>3, <2>4, <2>5
  <1>7. ASSUME NEW i \in 1 .. Len(its), NEW j \in 1 .. Len(its), i < j,
               Shared(its, i, j) > 0, Shared(its, i, j) >= opts.minShared,
               f = OverlapFinding(its, opts, i, j)
        PROVE  f \in RunNaive(its, opts)
    <2>1. <<i, j>> \in D /\ shared[<<i, j>>] = Shared(its, i, j)
      BY <1>3, <1>7
    <2>2. <<i, j>> \in pairs
      BY <1>4, <1>7, <2>1
    <2>3. f = found(<<i, j>>)
      BY <1>5, <1>7
    <2> HIDE DEF pairs
    <2>4. QED
      BY <1>1, <2>2, <2>3
  <1>8. QED
    BY <1>6, <1>7

(* The candidates of the index are the pairs that share a band.            *)
SketchOfItem(its, i) == SketchOf(UniqueSet(its[i]))

LEMMA SharedBandKeys ==
  ASSUME NEW s, NEW t
  PROVE  ShareBand(s, t) <=> \E key : key \in BandKeys(s) /\ key \in BandKeys(t)
  <1>1. ASSUME NEW b \in 1 .. Bands, NEW c \in 1 .. Bands
        PROVE  BandHash(s, b) = BandHash(t, c) <=>
                 b = c /\ \A r \in 1 .. Rows : s[(b - 1) * Rows + r] = t[(b - 1) * Rows + r]
    <2> DEFINE f(u, d) == [r \in 1 .. Rows |-> u[(d - 1) * Rows + r]]
    <2>1. BandHash(s, b) = <<b, f(s, b)>> /\ BandHash(t, c) = <<c, f(t, c)>>
      BY DEF BandHash
    <2>2. f(s, b) = f(t, b) <=> \A r \in 1 .. Rows : f(s, b)[r] = f(t, b)[r]
      OBVIOUS
    <2>3. \A r \in 1 .. Rows : /\ f(s, b)[r] = s[(b - 1) * Rows + r]
                               /\ f(t, b)[r] = t[(b - 1) * Rows + r]
      OBVIOUS
    <2> HIDE DEF f
    <2>4. f(s, b) = f(t, b) <=>
            \A r \in 1 .. Rows : s[(b - 1) * Rows + r] = t[(b - 1) * Rows + r]
      BY <2>2, <2>3
    <2>5. BandHash(s, b) = BandHash(t, c) <=> b = c /\ f(s, b) = f(t, c)
      BY <2>1
    <2>6. QED
      BY <2>4, <2>5
  <1>2. ShareBand(s, t) <=> \E b, c \in 1 .. Bands : BandHash(s, b) = BandHash(t, c)
    BY <1>1 DEF ShareBand
  <1>3. QED
    BY <1>2 DEF BandKeys

LEMMA CandidatesOfItems ==
  ASSUME NEW T, NEW its \in Seq(T), NEW i \in 1 .. Len(its), NEW j \in 1 .. Len(its)
  PROVE  <<i, j>> \in CandidatePairs(IndexOf(its)) <=>
           i < j /\ ShareBand(SketchOfItem(its, i), SketchOfItem(its, j))
  <1> DEFINE ix == IndexOf(its)
             alive == {b \in ix.buckets : IsAlive(ix, b[2])}
             keys(n) == BandKeys(SketchOfItem(its, n))
  <1>1. ix.buckets = UNION {keys(m) \X {m} : m \in 1 .. Len(its)}
    BY IndexOfFields DEF SketchOfItem
  <1>2. \A n \in 1 .. Len(its) : IsAlive(ix, n)
    BY IndexOfFields DEF IsAlive, Ids
  <1>3. CandidatePairs(ix) =
          {ij \in {b[2] : b \in alive} \X {b[2] : b \in alive} :
             ij[1] < ij[2] /\ \E b \in alive : b[2] = ij[1] /\ <<b[1], ij[2]>> \in alive}
    BY DEF CandidatePairs
  <1> HIDE DEF ix
  <1>4. \A b \in alive : \E m \in 1 .. Len(its) : b[2] = m /\ b[1] \in keys(m) /\ b = <<b[1], m>>
    BY <1>1
  <1>5. \A m \in 1 .. Len(its) : \A key : <<key, m>> \in alive <=> key \in keys(m)
    <2> SUFFICES ASSUME NEW m \in 1 .. Len(its), NEW key
                 PROVE  <<key, m>> \in alive <=> key \in keys(m)
      OBVIOUS
    <2>1. <<key, m>> \in ix.buckets <=> key \in keys(m)
      <3> HIDE DEF keys
      <3>1. QED
        BY <1>1
    <2>2. QED
      BY <1>2, <2>1
  <1> HIDE DEF alive, keys
  <1>6. <<i, j>> \in CandidatePairs(ix) <=>
          i < j /\ \E key : key \in keys(i) /\ key \in keys(j)
    <2>1. ASSUME <<i, j>> \in CandidatePairs(ix)
          PROVE  i < j /\ \E key : key \in keys(i) /\ key \in keys(j)
      <3>1. i < j /\ \E b \in alive : b[2] = i /\ <<b[1], j>> \in alive
        BY <1>3, <2>1
      <3>2. PICK b \in alive : b[2] = i /\ <<b[1], j>> \in alive
        BY <3>1
      <3>3. b[1] \in keys(i) /\ b[1] \in keys(j)
        BY <1>4, <1>5, <3>2
      <3>4. QED
        BY <3>1, <3>3
    <2>2. ASSUME i < j, NEW key, key \in keys(i), key \in keys(j)
          PROVE  <<i, j>> \in CandidatePairs(ix)
      <3>1. <<key, i>> \in alive /\ <<key, j>> \in alive
        BY <1>5, <2>2
      <3> DEFINE b == <<key, i>>
                 c == <<key, j>>
      <3>2. b[2] = i /\ b[1] = key /\ c[2] = j /\ b \in alive /\ c \in alive
        BY <3>1
      <3>3. i \in {d[2] : d \in alive} /\ j \in {d[2] : d \in alive}
        BY <3>2
      <3>4. \E d \in alive : d[2] = i /\ <<d[1], j>> \in alive
        BY <3>1, <3>2
      <3>5. QED
        BY <1>3, <2>2, <3>3, <3>4
    <2>3. QED
      BY <2>1, <2>2
  <1>7. QED
    BY <1>6, SharedBandKeys DEF ix, keys

LEMMA LshFindings ==
  ASSUME NEW T, NEW its \in Seq(T), NEW opts, NEW f
  PROVE  f \in RunLsh(its, IndexOf(its), opts) <=>
           \E i, j \in 1 .. Len(its) :
             /\ i < j /\ ShareBand(SketchOfItem(its, i), SketchOfItem(its, j))
             /\ EstimateReaches(SketchOfItem(its, i), SketchOfItem(its, j), opts.min)
             /\ Reaches(Overlap(UniqueSet(its[i]), UniqueSet(its[j])), opts.min)
             /\ f = OverlapFinding(its, opts, i, j)
  <1> DEFINE ix == IndexOf(its)
             close(i, j) == /\ EstimateReaches(ix.sketches[i], ix.sketches[j], opts.min)
                            /\ Reaches(Overlap(UniqueSet(its[i]), UniqueSet(its[j])), opts.min)
             pairs == {c \in CandidatePairs(ix) : close(c[1], c[2])}
             found(ij) == <<ij, ClassifyWithRoot(opts.root,
                                  Overlap(UniqueSet(its[ij[1]]), UniqueSet(its[ij[2]])),
                                  EndOf(its[ij[1]]), EndOf(its[ij[2]]))>>
  <1>1. RunLsh(its, ix, opts) = {found(ij) : ij \in pairs}
    BY DEF RunLsh
  <1>2. \A n \in 1 .. Len(its) : ix.sketches[n] = SketchOfItem(its, n)
    BY IndexOfFields DEF SketchOfItem
  <1>3. \A i, j : found(<<i, j>>) = OverlapFinding(its, opts, i, j)
    BY DEF OverlapFinding, Classified
  <1>4. \A i, j \in 1 .. Len(its) :
          close(i, j) <=> /\ EstimateReaches(SketchOfItem(its, i), SketchOfItem(its, j), opts.min)
                          /\ Reaches(Overlap(UniqueSet(its[i]), UniqueSet(its[j])), opts.min)
    BY <1>2
  <1>5. \A ij \in CandidatePairs(ix) : \E i, j \in 1 .. Len(its) : ij = <<i, j>>
    BY CandidateIds
  <1>6. \A i, j \in 1 .. Len(its) :
          <<i, j>> \in CandidatePairs(ix) <=>
            i < j /\ ShareBand(SketchOfItem(its, i), SketchOfItem(its, j))
    BY CandidatesOfItems
  <1>7. \A i, j \in 1 .. Len(its) :
          <<i, j>> \in pairs <=> <<i, j>> \in CandidatePairs(ix) /\ close(i, j)
    OBVIOUS
  <1>8. \A ij \in pairs : ij \in CandidatePairs(ix)
    OBVIOUS
  <1>9. f \in RunLsh(its, ix, opts) <=>
          \E i, j \in 1 .. Len(its) : <<i, j>> \in pairs /\ f = OverlapFinding(its, opts, i, j)
    <2> HIDE DEF ix, found, pairs
    <2>1. ASSUME f \in RunLsh(its, ix, opts)
          PROVE  \E i, j \in 1 .. Len(its) : <<i, j>> \in pairs /\ f = OverlapFinding(its, opts, i, j)
      <3>1. PICK ij \in pairs : f = found(ij)
        BY <1>1, <2>1
      <3>2. PICK i \in 1 .. Len(its), j \in 1 .. Len(its) : ij = <<i, j>>
        BY <1>5, <1>8
      <3>3. QED
        BY <1>3, <3>1, <3>2
    <2>2. ASSUME NEW i \in 1 .. Len(its), NEW j \in 1 .. Len(its), <<i, j>> \in pairs,
                 f = OverlapFinding(its, opts, i, j)
          PROVE  f \in RunLsh(its, ix, opts)
      BY <1>1, <1>3, <2>2
    <2>3. QED
      BY <2>1, <2>2
  <1> HIDE DEF close, pairs
  <1>10. QED
    BY <1>4, <1>6, <1>7, <1>9 DEF ix

(* Sets that overlap enough share something, where anything is asked for.  *)
LEMMA ReachesShared ==
  ASSUME NEW A, NEW B, IsFiniteSet(A), IsFiniteSet(B), NEW min \in Int \X Nat, min[1] > 0,
         Reaches(Overlap(A, B), min)
  PROVE  Cardinality(A \cap B) > 0
  <1> DEFINE v == Overlap(A, B)
             n == Cardinality(A \cap B)
             u == Cardinality(A) + Cardinality(B) - n
  <1>1. v.shared = n /\ v.union = u
    BY DEF Overlap
  <1>2. n \in Nat /\ u \in Nat
    <2>1. Cardinality(A) \in Nat /\ Cardinality(B) \in Nat /\ n \in Nat
      BY FS_Intersection, FS_CardinalityType
    <2>2. n <= Cardinality(A)
      BY FS_Subset
    <2>3. QED
      BY <2>1, <2>2
  <1>3. min[1] \in Nat /\ min[2] \in Nat
    OBVIOUS
  <1>4. AtMost(min, Jaccard(v))
    BY DEF Reaches
  <1> HIDE DEF v, n, u
  <1>5. CASE u = 0
    <2>1. Jaccard(v) = <<0, 1>>
      BY <1>1, <1>5 DEF Jaccard
    <2>2. min[1] * 1 <= 0 * min[2]
      BY <1>4, <2>1 DEF AtMost
    <2>3. QED
      BY <1>3, <2>2
  <1>6. CASE u # 0
    <2>1. Jaccard(v) = <<n, u>>
      BY <1>1, <1>6 DEF Jaccard
    <2>2. min[1] * u <= n * min[2]
      BY <1>4, <2>1 DEF AtMost
    <2>3. SUFFICES ASSUME n = 0 PROVE FALSE
      BY <1>2 DEF n
    <2>4. n * min[2] = 0
      BY <1>3, <2>3
    <2>5. min[1] * u > 0
      <3> DEFINE m == min[1]
      <3>1. m \in Nat /\ m > 0 /\ u > 0
        BY <1>2, <1>3, <1>6
      <3> HIDE DEF m
      <3>2. m * u > 0
        BY <1>2, <3>1
      <3>3. QED
        BY <3>2 DEF m
    <2>6. min[1] * u \in Nat
      BY <1>2, <1>3
    <2>7. QED
      BY <2>2, <2>4, <2>5, <2>6
  <1>7. QED
    BY <1>5, <1>6

(* What the normalizer and the fingerprinter make of an item.              *)
LEMMA ItemRight ==
  ASSUME NEW opts \in ScanOpts \cup IndexOpts \cup AskingOpts, NEW item \in WorkspaceItems(opts)
  PROVE  PartRight(item.text, item.hashes) /\ item.hashes # <<>>
  <1>1. PICK q \in Paths, part \in AllParts(opts) : item = Item(q, part, opts)
    BY DEF WorkspaceItems
  <1>2. PICK p \in Paths, c \in Contents : part \in Range(Parts(p, c, opts))
    BY DEF AllParts
  <1>3. PICK m \in DOMAIN Parts(p, c, opts) : part = Parts(p, c, opts)[m]
    BY <1>2 DEF Range
  <1>4. QED
    BY <1>1, <1>3, InputsAssumption DEF PartsAssumed, WorkspaceItems

(* The fingerprints of an item are a sequence, so there are finitely many. *)
LEMMA ItemsAreFinite ==
  ASSUME NEW opts \in ScanOpts \cup IndexOpts \cup AskingOpts,
         NEW its \in Seq(WorkspaceItems(opts))
  PROVE  FiniteItems(its)
  <1>1. SUFFICES ASSUME NEW n \in DOMAIN its PROVE IsFiniteSet(UniqueSet(its[n]))
    BY DEF FiniteItems
  <1>2. its[n] \in WorkspaceItems(opts)
    OBVIOUS
  <1>3. its[n].hashes \in Seq(Range(its[n].hashes))
    BY <1>2, ItemRight DEF PartRight
  <1> DEFINE hs == its[n].hashes
  <1> HIDE DEF hs
  <1>4. hs \in Seq(Range(hs))
    BY <1>3 DEF hs
  <1>5. IsFiniteSet(Range(hs))
    <2>1. DOMAIN hs = 1 .. Len(hs) /\ Len(hs) \in Int /\ 1 \in Int
      BY <1>4
    <2>2. IsFiniteSet(DOMAIN hs)
      BY <2>1, FS_Interval
    <2>3. hs \in Surjection(DOMAIN hs, Range(hs))
      <3>1. hs = [k \in DOMAIN hs |-> hs[k]]
        BY <1>4
      <3>2. QED
        BY <3>1 DEF Surjection, Range
    <2>4. QED
      BY <2>2, <2>3, FS_Surjection
  <1>6. QED
    BY <1>5 DEF UniqueSet, hs

OracleOpts(its, opts) == [root |-> opts.root, minShared |-> 1, maxBucket |-> Len(its)]

Kept(opts, f) == opts.granularity = "Function" => ~SameEndpoint(f[2])

LEMMA OracleFindings ==
  ASSUME NEW opts \in ScanOpts, NEW its \in Workspaces(opts), NEW r,
         r.items = its, r.opts = opts, NEW f
  PROVE  f \in Oracle(r) <=>
           \E i, j \in 1 .. Len(its) :
             /\ i < j /\ Shared(its, i, j) > 0
             /\ f = OverlapFinding(its, opts, i, j) /\ Kept(opts, f)
  <1> DEFINE oo == OracleOpts(its, opts)
  <1>1. its \in Seq(WorkspaceItems(opts))
    BY WorkspaceType
  <1>2. Oracle(r) = {g \in RunNaive(its, oo) : Kept(opts, g)}
    BY DEF Oracle, Kept, OracleOpts
  <1>3. /\ oo.maxBucket = Len(its) /\ oo.minShared = 1 /\ oo.root = opts.root
        /\ Len(its) \in Nat
    BY <1>1 DEF OracleOpts
  <1> HIDE DEF oo
  <1>4. \A i, j : OverlapFinding(its, oo, i, j) = OverlapFinding(its, opts, i, j)
    BY <1>3 DEF OverlapFinding, Classified
  <1>5. \A i, j \in 1 .. Len(its) : Shared(its, i, j) \in Nat
    <2>1. FiniteItems(its) /\ DOMAIN its = 1 .. Len(its)
      BY <1>1, ItemsAreFinite
    <2>2. QED
      BY <2>1, FS_Intersection, FS_CardinalityType DEF Shared, FiniteItems
  <1>6. f \in RunNaive(its, oo) <=>
          \E i, j \in 1 .. Len(its) :
            /\ i < j /\ Shared(its, i, j) > 0 /\ Shared(its, i, j) >= oo.minShared
            /\ f = OverlapFinding(its, oo, i, j)
    <2>1. FiniteItems(its) /\ oo.maxBucket \in Nat /\ oo.maxBucket >= Len(its)
      BY <1>1, <1>3, ItemsAreFinite
    <2>2. QED
      BY <1>1, <2>1, NaiveFindings
  <1>7. \A i, j \in 1 .. Len(its) :
          Shared(its, i, j) > 0 => Shared(its, i, j) >= oo.minShared
    BY <1>3, <1>5
  <1>8. QED
    BY <1>2, <1>4, <1>6, <1>7

(* The finding of a pair says which pair it is of and what it shares.      *)
LEMMA FindingOfPair ==
  ASSUME NEW its, NEW opts, NEW i, NEW j
  PROVE  /\ OverlapFinding(its, opts, i, j)[1] = <<i, j>>
         /\ OverlapFinding(its, opts, i, j)[2].shared = Shared(its, i, j)
  BY DEF OverlapFinding, Classified, ClassifyWithRoot, Overlap, Shared

Verified(its, opts, i, j) ==
  /\ ShareBand(SketchOfItem(its, i), SketchOfItem(its, j))
  /\ EstimateReaches(SketchOfItem(its, i), SketchOfItem(its, j), opts.min)
  /\ Reaches(Overlap(UniqueSet(its[i]), UniqueSet(its[j])), opts.min)

LEMMA LshAgrees ==
  ASSUME NEW opts \in ScanOpts, NEW its \in Workspaces(opts), NEW r,
         r.items = its, r.opts = opts, ~opts.naive, opts.min[1] > 0
  PROVE  FoundIn(its, opts) = FoundByLsh(r)
  <1>1. its \in Seq(WorkspaceItems(opts))
    BY WorkspaceType
  <1>2. ASSUME NEW f
        PROVE  f \in FoundIn(its, opts) <=>
                 \E i, j \in 1 .. Len(its) :
                   /\ i < j /\ Verified(its, opts, i, j)
                   /\ f = OverlapFinding(its, opts, i, j) /\ Kept(opts, f)
    <2>1. FoundIn(its, opts) = {g \in RunLsh(its, IndexOf(its), opts) : Kept(opts, g)}
      BY DEF FoundIn, Kept
    <2>2. QED
      BY <1>1, <2>1, LshFindings DEF Verified
  <1>3. ASSUME NEW i \in 1 .. Len(its), NEW j \in 1 .. Len(its), Verified(its, opts, i, j)
        PROVE  Shared(its, i, j) > 0
    <2>1. IsFiniteSet(UniqueSet(its[i])) /\ IsFiniteSet(UniqueSet(its[j]))
      <3>1. FiniteItems(its) /\ DOMAIN its = 1 .. Len(its)
        BY <1>1, ItemsAreFinite
      <3>2. QED
        BY <3>1 DEF FiniteItems
    <2>2. opts.min \in Int \X Nat
      BY InputsAssumption DEF FlagsAssumed
    <2>3. Reaches(Overlap(UniqueSet(its[i]), UniqueSet(its[j])), opts.min)
      BY <1>3 DEF Verified
    <2>4. QED
      BY <2>1, <2>2, <2>3, ReachesShared DEF Shared
  <1>4. ASSUME NEW f
        PROVE  f \in FoundByLsh(r) <=>
                 \E i, j \in 1 .. Len(its) :
                   /\ i < j /\ Shared(its, i, j) > 0 /\ Verified(its, opts, i, j)
                   /\ f = OverlapFinding(its, opts, i, j) /\ Kept(opts, f)
    <2> DEFINE P(g) == /\ ShareBand(SketchAt(r, g[1][1]), SketchAt(r, g[1][2]))
                       /\ EstimateReaches(SketchAt(r, g[1][1]), SketchAt(r, g[1][2]), opts.min)
                       /\ Reaches(Overlap(UniqueSet(its[g[1][1]]), UniqueSet(its[g[1][2]])), opts.min)
    <2>1. FoundByLsh(r) = {g \in Oracle(r) : P(g)}
      BY DEF FoundByLsh
    <2>2. \A i, j : P(OverlapFinding(its, opts, i, j)) <=> Verified(its, opts, i, j)
      <3>1. \A i, j : OverlapFinding(its, opts, i, j)[1] = <<i, j>>
        BY FindingOfPair
      <3>2. \A i : SketchAt(r, i) = SketchOfItem(its, i)
        BY DEF SketchAt, SketchOfItem
      <3>3. QED
        BY <3>1, <3>2 DEF Verified
    <2> HIDE DEF P
    <2>3. f \in Oracle(r) <=>
            \E i, j \in 1 .. Len(its) :
              /\ i < j /\ Shared(its, i, j) > 0
              /\ f = OverlapFinding(its, opts, i, j) /\ Kept(opts, f)
      BY OracleFindings
    <2>4. QED
      BY <2>1, <2>2, <2>3
  <1>5. \A f : f \in FoundIn(its, opts) <=> f \in FoundByLsh(r)
    BY <1>2, <1>3, <1>4
  <1>6. QED
    BY <1>5

LEMMA NaiveAgrees ==
  ASSUME NEW opts \in ScanOpts, NEW its \in Workspaces(opts), NEW r,
         r.items = its, r.opts = opts, opts.naive, opts.maxBucket >= Len(its)
  PROVE  FoundIn(its, opts) = {f \in Oracle(r) : f[2].shared >= opts.minShared}
  <1>1. its \in Seq(WorkspaceItems(opts)) /\ opts.maxBucket \in Nat
    BY WorkspaceType, InputsAssumption DEF FlagsAssumed
  <1>2. FiniteItems(its)
    BY <1>1, ItemsAreFinite
  <1>3. FoundIn(its, opts) = {g \in RunNaive(its, opts) : Kept(opts, g)}
    BY DEF FoundIn, Kept
  <1>4. ASSUME NEW f
        PROVE  f \in RunNaive(its, opts) <=>
                 \E i, j \in 1 .. Len(its) :
                   /\ i < j /\ Shared(its, i, j) > 0 /\ Shared(its, i, j) >= opts.minShared
                   /\ f = OverlapFinding(its, opts, i, j)
    BY <1>1, <1>2, NaiveFindings
  <1>5. ASSUME NEW f
        PROVE  f \in Oracle(r) <=>
                 \E i, j \in 1 .. Len(its) :
                   /\ i < j /\ Shared(its, i, j) > 0
                   /\ f = OverlapFinding(its, opts, i, j) /\ Kept(opts, f)
    BY OracleFindings
  <1>6. \A i, j : OverlapFinding(its, opts, i, j)[2].shared = Shared(its, i, j)
    BY FindingOfPair
  <1>7. QED
    BY <1>3, <1>4, <1>5, <1>6

(* The index and the inverted index find the same pairs, with the same     *)
(* verdicts, but for what the LSH backend leaves out on purpose; and the   *)
(* inverted index, where it skips no bucket, counts what the sets share.   *)
THEOREM TheBackendsAgree == CommandsSpec => []BackendsAgree
  <1>1. CommandsIInv => BackendsAgree
    <2>1. SUFFICES ASSUME CommandsIInv, report.items # <<>>
                   PROVE  /\ \A f \in Oracle(report) :
                               f[2].shared = Shared(report.items, f[1][1], f[1][2])
                          /\ ~report.opts.naive /\ report.opts.min[1] > 0 =>
                               Range(report.findings) = FoundByLsh(report)
                          /\ report.opts.naive /\ report.opts.maxBucket >= Len(report.items) =>
                               Range(report.findings)
                                 = {f \in Oracle(report) : f[2].shared >= report.opts.minShared}
      BY Zenon DEF BackendsAgree, Shared
    <2>2. report # NoReport
      BY <2>1 DEF NoReport
    <2>3. PICK opts \in ScanOpts : \E its \in Workspaces(opts) : ReportOf(report, opts, its)
      BY <2>1, <2>2 DEF CommandsIInv, ReportInv, ReportIs
    <2>4. PICK its \in Workspaces(opts) : ReportOf(report, opts, its)
      BY <2>3
    <2>5. report.items = its /\ report.opts = opts
      BY <2>4 DEF ReportOf
    <2>6. Range(report.findings) = FoundIn(its, opts)
      <3> DEFINE F == FoundIn(its, opts)
                 s == report.findings
      <3>1. IsFiniteSet(F)
        BY WorkspaceType, FoundFinite
      <3>2. Ordering(s, F, ByScoreAndShared(F))
        BY <2>4 DEF ReportOf
      <3> HIDE DEF F, s
      <3>3. s \in [1 .. Cardinality(F) -> F]
        BY <3>2 DEF Ordering
      <3>4. \A x \in F : \E i \in 1 .. Cardinality(F) : s[i] = x
        BY <3>1, <3>2, OrderingOnto
      <3>5. Range(s) = F
        BY <3>3, <3>4 DEF Range
      <3>6. QED
        BY <3>5 DEF F, s
    <2>7. \A f \in Oracle(report) : f[2].shared = Shared(its, f[1][1], f[1][2])
      <3>1. TAKE f \in Oracle(report)
      <3>2. PICK i, j \in 1 .. Len(its) : f = OverlapFinding(its, opts, i, j)
        BY <2>5, OracleFindings
      <3>3. f[1] = <<i, j>> /\ f[2].shared = Shared(its, i, j)
        BY <3>2, FindingOfPair
      <3>4. QED
        BY <3>3
    <2>8. ~opts.naive /\ opts.min[1] > 0 => FoundIn(its, opts) = FoundByLsh(report)
      BY <2>5, LshAgrees
    <2>9. opts.naive /\ opts.maxBucket >= Len(its) =>
            FoundIn(its, opts) = {f \in Oracle(report) : f[2].shared >= opts.minShared}
      BY <2>5, NaiveAgrees
    <2>10. QED
      BY <2>5, <2>6, <2>7, <2>8, <2>9
  <1>2. QED
    BY <1>1, CommandsInvariant, PTL

-----------------------------------------------------------------------------
(* What a search finds.  The rows a sequence is joined from stay where     *)
(* they are put.                                                           *)
PrefixOf(u, v) == Len(u) <= Len(v) /\ \A m \in 1 .. Len(u) : v[m] = u[m]

LEMMA FlattenKeeps ==
  ASSUME NEW T, NEW seqs \in Seq(Seq(T))
  PROVE  \E g \in [0 .. Len(seqs) -> Seq(T)] :
           /\ Flattens(g, seqs) /\ FlattenSeq(seqs) = g[Len(seqs)]
           /\ \A k \in 0 .. Len(seqs) : PrefixOf(g[k], FlattenSeq(seqs))
  <1> DEFINE N == Len(seqs)
             S == Seq(T)
  <1>1. N \in Nat /\ \A n \in 1 .. N : seqs[n] \in S
    OBVIOUS
  <1>2. PICK g \in [0 .. N -> S] : Flattens(g, seqs) /\ FlattenSeq(seqs) = g[N]
    BY FlattenSteps
  <1>3. \A k \in 1 .. N : g[k] = g[k - 1] \o seqs[k]
    BY <1>2, Zenon DEF Flattens
  <1>4. ASSUME NEW u \in S, NEW v \in S
        PROVE  PrefixOf(u, u \o v)
    BY DEF PrefixOf
  <1>5. ASSUME NEW u \in S, NEW v \in S, NEW w \in S, PrefixOf(u, v), PrefixOf(v, w)
        PROVE  PrefixOf(u, w)
    <2>1. Len(u) \in Nat /\ Len(v) \in Nat /\ Len(w) \in Nat
      OBVIOUS
    <2>2. Len(u) <= Len(w) /\ \A m \in 1 .. Len(u) : m \in 1 .. Len(v)
      BY <1>5, <2>1 DEF PrefixOf
    <2>3. QED
      BY <1>5, <2>2 DEF PrefixOf
  <1>6. ASSUME NEW u \in S
        PROVE  PrefixOf(u, u)
    BY DEF PrefixOf
  <1> HIDE DEF S, N
  <1> DEFINE Bad == {d \in 0 .. N : ~PrefixOf(g[N - d], g[N])}
  <1>7. Bad = {}
    <2>1. SUFFICES ASSUME Bad # {} PROVE FALSE
      OBVIOUS
    <2>2. PICK d \in Bad : \A e \in Bad : d <= e
      <3>1. Bad \in SUBSET Nat
        BY <1>1
      <3> HIDE DEF Bad
      <3>2. QED
        BY <2>1, <3>1, LeastNumber
    <2>3. N - d \in 0 .. N /\ N \in 0 .. N
      BY <1>1
    <2>4. d # 0
      <3>1. N - 0 = N /\ g[N] \in S
        BY <1>1, <1>2, <2>3
      <3>2. QED
        BY <1>6, <3>1
    <2>5. d - 1 \in 0 .. N /\ ~(d <= d - 1) /\ N - (d - 1) \in 1 .. N
          /\ (N - (d - 1)) - 1 = N - d
      BY <1>1, <2>4
    <2> DEFINE k == N - (d - 1)
    <2>6. k \in 1 .. N /\ k - 1 = N - d /\ k \in 0 .. N
      BY <1>1, <2>5
    <2>7. PrefixOf(g[k], g[N])
      BY <2>2, <2>5
    <2> HIDE DEF k
    <2>8. g[k] = g[N - d] \o seqs[k] /\ seqs[k] \in S /\ g[N - d] \in S /\ g[k] \in S /\ g[N] \in S
      BY <1>1, <1>2, <1>3, <2>3, <2>6
    <2>9. PrefixOf(g[N - d], g[k])
      BY <1>4, <2>8
    <2>10. PrefixOf(g[N - d], g[N])
      BY <1>5, <2>7, <2>8, <2>9
    <2>11. QED
      BY <2>10
  <1>8. ASSUME NEW k \in 0 .. N
        PROVE  PrefixOf(g[k], g[N])
    <2>1. N - k \in 0 .. N /\ N - (N - k) = k
      BY <1>1
    <2>2. N - k \notin Bad
      BY <1>7
    <2>3. PrefixOf(g[N - (N - k)], g[N])
      BY <2>1, <2>2
    <2>4. QED
      BY <2>1, <2>3
  <1>9. QED
    BY <1>2, <1>8 DEF N, S

(* Whatever a row holds is there.                                          *)
LEMMA FlattenHolds ==
  ASSUME NEW T, NEW seqs \in Seq(Seq(T)), NEW n \in 1 .. Len(seqs), NEW m \in 1 .. Len(seqs[n])
  PROVE  seqs[n][m] \in Range(FlattenSeq(seqs))
  <1> DEFINE N == Len(seqs)
             S == Seq(T)
             all == FlattenSeq(seqs)
  <1>1. N \in Nat /\ seqs[n] \in S /\ n - 1 \in 0 .. N /\ n \in 0 .. N
    OBVIOUS
  <1>2. all \in S
    BY FlattenType
  <1>3. PICK g \in [0 .. N -> S] : /\ Flattens(g, seqs) /\ all = g[N]
                                   /\ \A k \in 0 .. N : PrefixOf(g[k], all)
    BY FlattenKeeps
  <1>4. g[n] = g[n - 1] \o seqs[n]
    BY <1>3, Zenon DEF Flattens
  <1> HIDE DEF all, N
  <1>5. g[n - 1] \in S /\ g[n] \in S /\ PrefixOf(g[n], all)
    BY <1>1, <1>3
  <1> DEFINE l == Len(g[n - 1])
  <1>6. l \in Nat /\ Len(seqs[n]) \in Nat /\ Len(g[n]) = l + Len(seqs[n])
        /\ (g[n - 1] \o seqs[n])[l + m] = seqs[n][m]
    BY <1>1, <1>4, <1>5
  <1> HIDE DEF l
  <1>7. l + m \in 1 .. Len(g[n]) /\ g[n][l + m] = seqs[n][m]
    BY <1>4, <1>6, Zenon, SMT
  <1>8. all[l + m] = seqs[n][m] /\ l + m \in 1 .. Len(all)
    <2>1. Len(all) \in Nat /\ Len(g[n]) \in Nat
      BY <1>2, <1>5
    <2>2. QED
      BY <1>5, <1>7, <2>1 DEF PrefixOf
  <1>9. DOMAIN all = 1 .. Len(all)
    BY <1>2
  <1>10. QED
    BY <1>8, <1>9 DEF Range, all

(* The first word of a spelling, and what follows it: capitals that go on  *)
(* to a separator, or lower case to a separator or a capital.              *)
StartsSpelled(id, w) ==
  LET L == Len(w)
  IN  /\ id \in Seq(Characters) /\ L <= Len(id)
      /\ \A m \in 1 .. L : Lowered(id[m]) = w[m] /\ id[m] \notin Separators
      /\ \/ /\ \A m \in 2 .. L : id[m] \in Lower
            /\ L < Len(id) => id[L + 1] \in Upper \cup Separators
         \/ /\ \A m \in 1 .. L : id[m] \in Upper
            /\ L < Len(id) => id[L + 1] \in Separators

LEMMA FirstWordSplit ==
  ASSUME NEW id, NEW w \in Seq(Lower), Len(w) > 1, StartsSpelled(id, w)
  PROVE  w \in Range(SplitIdentifier(id))
  <1> DEFINE L == Len(w)
  <1>1. /\ id \in Seq(Characters) /\ L <= Len(id) /\ L \in Nat /\ L > 1 /\ Len(id) \in Nat
        /\ \A m \in 1 .. L : Lowered(id[m]) = w[m] /\ id[m] \notin Separators
        /\ \/ /\ \A m \in 2 .. L : id[m] \in Lower
              /\ L < Len(id) => id[L + 1] \in Upper \cup Separators
           \/ /\ \A m \in 1 .. L : id[m] \in Upper
              /\ L < Len(id) => id[L + 1] \in Separators
    BY DEF StartsSpelled
  <1>2. w = [m \in 1 .. L |-> w[m]]
    OBVIOUS
  <1> HIDE DEF L
  <1>3. Upper \cap Lower = {} /\ Lower \cap Separators = {} /\ Upper \cap Separators = {}
    BY SearchAssumption
  <1>4. ASSUME NEW m \in 2 .. L
        PROVE  ~BeginsWord(id, m) /\ id[m] \notin Separators
    <2>1. m \in 1 .. L /\ m - 1 \in 1 .. L /\ m # 1
      BY <1>1
    <2>2. id[m] \notin Separators /\ id[m - 1] \notin Separators
      BY <1>1, <2>1
    <2>3. ~(id[m] \in Upper /\ id[m - 1] \notin Upper)
      BY <1>1, <1>3, <2>1
    <2>4. ~(m < Len(id) /\ id[m] \in Upper /\ id[m + 1] \in Lower)
      <3>1. m = L \/ m + 1 \in 1 .. L
        BY <1>1
      <3>2. QED
        BY <1>1, <1>3, <2>1, <3>1
    <2>5. QED
      BY <2>1, <2>2, <2>3, <2>4 DEF BeginsWord
  <1>5. L + 1 = Len(id) + 1 \/ BeginsWord(id, L + 1) \/ id[L + 1] \in Separators
    <2>1. CASE L = Len(id)
      BY <2>1
    <2>2. CASE L < Len(id) /\ id[L + 1] \in Upper /\ \A m \in 2 .. L : id[m] \in Lower
      <3>1. id[(L + 1) - 1] \in Lower /\ id[L + 1] \notin Separators
        BY <1>1, <1>3, <2>2
      <3>2. QED
        BY <1>3, <2>2, <3>1 DEF BeginsWord
    <2>3. QED
      BY <1>1, <2>1, <2>2
  <1>6. IsBreak(id, 1, L + 1)
    <2>1. L + 1 \in (1 + 1) .. (Len(id) + 1) /\ \A m \in (1 + 1) .. ((L + 1) - 1) : m \in 2 .. L
      BY <1>1
    <2>2. QED
      BY <1>4, <1>5, <2>1 DEF IsBreak
  <1>7. KeptFrom(id, 1) = <<w>>
    <2>1. 1 \in 1 .. Len(id) /\ NextBreak(id, 1) - 1 = L
      BY <1>1, <1>6, NextBreakIs
    <2>2. KeptFrom(id, 1) = Word(id, 1, L)
      BY <1>1, <2>1, WordEndsAtBreak
    <2>3. Word(id, 1, L) = <<[m \in 1 .. (L - 1 + 1) |-> Lowered(id[1 + m - 1])]>>
      BY <1>1, Zenon DEF Word
    <2>4. [m \in 1 .. (L - 1 + 1) |-> Lowered(id[1 + m - 1])] = [m \in 1 .. L |-> w[m]]
      <3>1. 1 .. (L - 1 + 1) = 1 .. L /\ \A m \in 1 .. L : Lowered(id[1 + m - 1]) = w[m]
        BY <1>1
      <3>2. QED
        BY <3>1
    <2>5. QED
      BY <1>2, <2>2, <2>3, <2>4
  <1> DEFINE S == Seq(Characters)
             rows == WordsAt(id, 1)
  <1>8. rows \in Seq(Seq(S)) /\ 1 \in 1 .. Len(rows) /\ rows[1] = <<w>>
    <2>1. rows \in Seq(Seq(S)) /\ Len(rows) = Len(id)
      BY <1>1, WordTypes, SearchAssumption
    <2>2. BeginsFrom(id, 1, 1)
      BY <1>1 DEF BeginsFrom
    <2>3. rows[1] = KeptFrom(id, 1)
      BY <1>1, <2>2 DEF WordsAt
    <2>4. QED
      BY <1>1, <1>7, <2>1, <2>3
  <1> HIDE DEF rows, S
  <1>9. 1 \in 1 .. Len(rows[1]) /\ rows[1][1] = w
    BY <1>8
  <1>10. w \in Range(FlattenSeq(rows))
    BY <1>8, <1>9, FlattenHolds
  <1>11. SplitIdentifier(id) = FlattenSeq(rows)
    BY <1>1, SplitKeepsWords, WordsOfBoundaries DEF WordsAfter, rows
  <1>12. QED
    BY <1>10, <1>11

(* What is in one identifier is in all of them.                            *)
LEMMA SplitType ==
  ASSUME NEW ident \in Seq(Characters)
  PROVE  SplitIdentifier(ident) \in Seq(Seq(Characters))
  BY SplitKeepsWords, WordsOfBoundaries, WordsAfterTypes, SearchAssumption

LEMMA WordOfOne ==
  ASSUME NEW idents \in Seq(Seq(Characters)), NEW id \in Range(idents),
         NEW w \in Range(SplitIdentifier(id))
  PROVE  w \in Range(Words(idents))
  <1> DEFINE S == Seq(Characters)
             rows == [n \in DOMAIN idents |-> SplitIdentifier(idents[n])]
  <1>1. DOMAIN idents = 1 .. Len(idents) /\ Len(idents) \in Nat
    OBVIOUS
  <1>2. \A n \in 1 .. Len(idents) : idents[n] \in S
    <2> HIDE DEF S
    <2>1. idents \in Seq(S)
      BY DEF S
    <2>2. QED
      BY <2>1
  <1>3. \A n \in 1 .. Len(idents) : SplitIdentifier(idents[n]) \in Seq(S)
    BY <1>2, SplitType
  <1> HIDE DEF S
  <1>4. rows \in [1 .. Len(idents) -> Seq(S)]
    BY <1>1, <1>3
  <1>5. PICK n \in 1 .. Len(idents) : id = idents[n]
    BY <1>1 DEF Range
  <1>6. rows[n] = SplitIdentifier(id)
    BY <1>1, <1>5
  <1>7. Words(idents) = FlattenSeq(rows)
    BY DEF Words
  <1> HIDE DEF rows
  <1>8. rows \in Seq(Seq(S)) /\ Len(rows) = Len(idents) /\ rows[n] \in Seq(S)
    <2> DEFINE R == Seq(S)
               N == Len(idents)
    <2>1. rows \in [1 .. N -> R] /\ N \in Nat /\ n \in 1 .. N
      BY <1>1, <1>4
    <2> HIDE DEF R, N
    <2>2. rows \in Seq(R) /\ Len(rows) = N /\ rows[n] \in R
      BY <2>1
    <2>3. QED
      BY <2>2 DEF R, N
  <1>9. PICK m \in 1 .. Len(rows[n]) : w = rows[n][m]
    BY <1>6, <1>8 DEF Range
  <1>10. QED
    BY <1>7, <1>8, <1>9, FlattenHolds

(* How a word may be spelled in an identifier: as it is, with a capital,   *)
(* or in capitals, after a separator or not.                               *)
Capital(w) == <<UpperOf(w[1])>> \o Tail(w)

Capitals(w) == [m \in DOMAIN w |-> UpperOf(w[m])]

LEMMA CapitalOf ==
  ASSUME NEW ch \in Range(LowerOf)
  PROVE  /\ UpperOf(ch) \in Upper /\ Lowered(UpperOf(ch)) = ch
         /\ ch \in Lower /\ Lowered(ch) = ch
  <1>1. \E u \in Upper : LowerOf[u] = ch
    BY SearchAssumption DEF Range
  <1>2. UpperOf(ch) \in Upper /\ LowerOf[UpperOf(ch)] = ch
    BY <1>1 DEF UpperOf
  <1>3. ch \in Lower /\ ch \notin Upper
    BY SearchAssumption
  <1>4. QED
    BY <1>2, <1>3 DEF Lowered

LEMMA SpelledForms ==
  ASSUME NEW w, NEW n, NEW c \in Conventions, <<>> \o w = w, <<>> \o Capitals(w) = Capitals(w)
  PROVE  /\ n = 1 => SpelledWord(w, n, c) =
              IF c = "SCREAMING_CASE" THEN Capitals(w)
              ELSE IF c = "PascalCase" THEN Capital(w) ELSE w
         /\ n # 1 => SpelledWord(w, n, c) =
              IF c \in {"camelCase", "PascalCase"} THEN Capital(w)
              ELSE IF c = "SCREAMING_CASE" THEN <<"_">> \o Capitals(w)
              ELSE IF c = "snake_case" THEN <<"_">> \o w ELSE <<"-">> \o w
  <1>1. CASE c = "camelCase"
    BY <1>1 DEF SpelledWord, Capital, Capitals
  <1>2. CASE c = "PascalCase"
    BY <1>2 DEF SpelledWord, Capital, Capitals
  <1>3. CASE c = "snake_case"
    BY <1>3 DEF SpelledWord, Capital, Capitals
  <1>4. CASE c = "kebab-case"
    BY <1>4 DEF SpelledWord, Capital, Capitals
  <1>5. CASE c = "SCREAMING_CASE"
    BY <1>5 DEF SpelledWord, Capital, Capitals
  <1>6. QED
    BY <1>1, <1>2, <1>3, <1>4, <1>5 DEF Conventions

(* The letters of a first word, and the first character of a later one.    *)
SpellsFirst(row, w, c) ==
  /\ Len(row) = Len(w)
  /\ \A m \in 1 .. Len(w) : Lowered(row[m]) = w[m] /\ row[m] \notin Separators
  /\ c # "SCREAMING_CASE" => \A m \in 2 .. Len(w) : row[m] \in Lower
  /\ c = "SCREAMING_CASE" => \A m \in 1 .. Len(w) : row[m] \in Upper

SpellsLater(row, c) ==
  /\ Len(row) > 0 /\ row[1] \in Upper \cup Separators
  /\ c = "SCREAMING_CASE" => row[1] \in Separators

LEMMA SpelledRow ==
  ASSUME NEW w \in Seq(Range(LowerOf)), Len(w) > 1, NEW n, NEW c \in Conventions
  PROVE  /\ SpelledWord(w, n, c) \in Seq(Characters)
         /\ n = 1 => SpellsFirst(SpelledWord(w, n, c), w, c)
         /\ n # 1 => SpellsLater(SpelledWord(w, n, c), c)
  <1> DEFINE L == Len(w)
  <1>1. L \in Nat /\ L > 1 /\ DOMAIN w = 1 .. L /\ \A m \in 1 .. L : w[m] \in Range(LowerOf)
    OBVIOUS
  <1>2. \A m \in 1 .. L : /\ UpperOf(w[m]) \in Upper /\ Lowered(UpperOf(w[m])) = w[m]
                          /\ w[m] \in Lower /\ Lowered(w[m]) = w[m]
    BY <1>1, CapitalOf
  <1>3. Upper \cap Separators = {} /\ Lower \cap Separators = {} /\ {"_", "-"} \subseteq Separators
    BY SearchAssumption, WordListsAssumption
  <1>4. \A m \in 1 .. L : w[m] \in Characters /\ UpperOf(w[m]) \in Characters
    BY <1>2 DEF Characters
  <1>5. w \in Seq(Characters) /\ w \in Seq(Lower)
    <2>1. w \in [1 .. L -> Characters] /\ w \in [1 .. L -> Lower]
      BY <1>1, <1>2, <1>4
    <2>2. QED
      BY <1>1, <2>1
  <1>6. /\ Capitals(w) \in Seq(Characters) /\ Len(Capitals(w)) = L
        /\ \A m \in 1 .. L : Capitals(w)[m] = UpperOf(w[m])
    <2>1. Capitals(w) \in [1 .. L -> Characters]
      BY <1>1, <1>4 DEF Capitals
    <2>2. \A m \in 1 .. L : Capitals(w)[m] = UpperOf(w[m])
      BY <1>1 DEF Capitals
    <2>3. QED
      BY <1>1, <2>1, <2>2
  <1>7. /\ Capital(w) \in Seq(Characters) /\ Len(Capital(w)) = L /\ Capital(w)[1] = UpperOf(w[1])
        /\ \A m \in 2 .. L : Capital(w)[m] = w[m]
    <2> DEFINE ch == UpperOf(w[1])
    <2>1. ch \in Characters
      BY <1>1, <1>4
    <2> HIDE DEF ch
    <2>2. /\ <<ch>> \o Tail(w) \in Seq(Characters) /\ Len(<<ch>> \o Tail(w)) = L
          /\ (<<ch>> \o Tail(w))[1] = ch
          /\ \A m \in 2 .. L : (<<ch>> \o Tail(w))[m] = w[m]
      BY <1>1, <1>5, <2>1
    <2>3. QED
      BY <2>2 DEF Capital, ch
  <1>8. ASSUME NEW ch \in Separators, NEW s \in Seq(Characters)
        PROVE  <<ch>> \o s \in Seq(Characters) /\ Len(<<ch>> \o s) > 0 /\ (<<ch>> \o s)[1] = ch
    BY DEF Characters
  <1>9. <<>> \o w = w /\ <<>> \o Capitals(w) = Capitals(w)
    BY <1>5, <1>6
  <1>10. "_" \in Separators /\ "-" \in Separators
    BY <1>3
  <1> HIDE DEF L
  <1>11. CASE n = 1
    <2>1. SpellsFirst(Capitals(w), w, "SCREAMING_CASE")
      BY <1>2, <1>3, <1>6 DEF SpellsFirst, L
    <2>2. c # "SCREAMING_CASE" => SpellsFirst(w, w, c)
      <3>1. \A m \in 2 .. L : m \in 1 .. L
        BY <1>1
      <3>2. \A m \in 1 .. L : w[m] \notin Separators
        BY <1>2, <1>3
      <3>3. QED
        BY <1>2, <3>1, <3>2 DEF SpellsFirst, L
    <2>3. c # "SCREAMING_CASE" => SpellsFirst(Capital(w), w, c)
      <3>1. 1 \in 1 .. L /\ \A m \in 1 .. L : m = 1 \/ m \in 2 .. L
        BY <1>1
      <3>2. \A m \in 1 .. L : Lowered(Capital(w)[m]) = w[m] /\ Capital(w)[m] \notin Separators
        BY <1>2, <1>3, <1>7, <3>1
      <3>3. \A m \in 2 .. L : Capital(w)[m] \in Lower
        BY <1>1, <1>2, <1>7
      <3>4. QED
        BY <1>7, <3>2, <3>3 DEF SpellsFirst, L
    <2>4. SpelledWord(w, n, c) =
            IF c = "SCREAMING_CASE" THEN Capitals(w)
            ELSE IF c = "PascalCase" THEN Capital(w) ELSE w
      BY <1>9, <1>11, SpelledForms
    <2>5. CASE SpelledWord(w, n, c) = Capitals(w) /\ c = "SCREAMING_CASE"
      <3>1. SpellsFirst(SpelledWord(w, n, c), w, c)
        BY <2>1, <2>5
      <3>2. QED
        BY <1>6, <1>11, <2>5, <3>1, Zenon
    <2>6. CASE SpelledWord(w, n, c) = Capital(w) /\ c # "SCREAMING_CASE"
      BY <1>7, <1>11, <2>3, <2>6, Zenon
    <2>7. CASE SpelledWord(w, n, c) = w /\ c # "SCREAMING_CASE"
      BY <1>5, <1>11, <2>2, <2>7, Zenon
    <2>8. QED
      BY <2>4, <2>5, <2>6, <2>7, Zenon
  <1>12. CASE n # 1
    <2>1. c # "SCREAMING_CASE" => SpellsLater(Capital(w), c)
      BY <1>1, <1>2, <1>7 DEF SpellsLater
    <2>2. ASSUME NEW ch \in Separators, NEW s \in Seq(Characters)
          PROVE  SpellsLater(<<ch>> \o s, c)
      BY <1>8 DEF SpellsLater
    <2>3. SpellsLater(<<"_">> \o w, c) /\ SpellsLater(<<"-">> \o w, c)
          /\ SpellsLater(<<"_">> \o Capitals(w), c)
      BY <1>5, <1>6, <1>10, <2>2
    <2>4. <<"_">> \o w \in Seq(Characters) /\ <<"-">> \o w \in Seq(Characters)
          /\ <<"_">> \o Capitals(w) \in Seq(Characters)
      BY <1>5, <1>6, <1>8, <1>10
    <2>5. SpelledWord(w, n, c) =
            IF c \in {"camelCase", "PascalCase"} THEN Capital(w)
            ELSE IF c = "SCREAMING_CASE" THEN <<"_">> \o Capitals(w)
            ELSE IF c = "snake_case" THEN <<"_">> \o w ELSE <<"-">> \o w
      BY <1>9, <1>12, SpelledForms
    <2>6. CASE SpelledWord(w, n, c) = Capital(w) /\ c # "SCREAMING_CASE"
      BY <1>7, <1>12, <2>1, <2>6
    <2>7. CASE SpelledWord(w, n, c) \in {<<"_">> \o w, <<"-">> \o w, <<"_">> \o Capitals(w)}
      BY <1>12, <2>3, <2>4, <2>7, Zenon
    <2>8. QED
      BY <2>5, <2>6, <2>7, Zenon
  <1>13. QED
    BY <1>11, <1>12

(* A spelling begins with its first word.                                  *)
LEMMA SpelledStarts ==
  ASSUME NEW words \in Seq(Seq(Range(LowerOf))), words # <<>>,
         \A n \in DOMAIN words : Len(words[n]) > 1, NEW c \in Conventions
  PROVE  StartsSpelled(Spell(words, c), words[1])
  <1> DEFINE N == Len(words)
             Row(n) == SpelledWord(words[n], n, c)
             rows == [n \in DOMAIN words |-> Row(n)]
             S == Seq(Characters)
             w == words[1]
             id == FlattenSeq(rows)
  <1>1. N \in Nat /\ N > 0 /\ DOMAIN words = 1 .. N /\ 1 \in 1 .. N
    OBVIOUS
  <1>2. \A n \in 1 .. N : words[n] \in Seq(Range(LowerOf)) /\ Len(words[n]) > 1
    <2> DEFINE T == Seq(Range(LowerOf))
    <2>1. words \in Seq(T)
      OBVIOUS
    <2> HIDE DEF T
    <2>2. \A n \in 1 .. N : words[n] \in T
      BY <2>1
    <2>3. QED
      BY <1>1, <2>2 DEF T
  <1>3. /\ \A n \in 1 .. N : Row(n) \in S
        /\ SpellsFirst(Row(1), w, c)
        /\ \A n \in 1 .. N : n # 1 => SpellsLater(Row(n), c)
    BY <1>1, <1>2, SpelledRow
  <1>4. Spell(words, c) = id
    BY DEF Spell
  <1>5. w \in Seq(Range(LowerOf)) /\ Len(w) \in Nat /\ Len(w) > 1
    BY <1>1, <1>2
  <1> HIDE DEF Row, S, N, w
  <1>6. rows \in [1 .. N -> S] /\ \A n \in 1 .. N : rows[n] = Row(n)
    BY <1>1, <1>3
  <1> HIDE DEF rows
  <1>7. rows \in Seq(S) /\ Len(rows) = N
    BY <1>1, <1>6
  <1>8. id \in S
    BY <1>7, FlattenType DEF S
  <1>9. PICK g \in [0 .. N -> S] : /\ Flattens(g, rows) /\ id = g[N]
                                   /\ \A k \in 0 .. N : PrefixOf(g[k], id)
    BY <1>7, FlattenKeeps DEF S
  <1> HIDE DEF id
  <1> DEFINE first == Row(1)
             L == Len(first)
  <1>10. first \in S /\ L = Len(w) /\ L \in Nat /\ L > 1 /\ Len(id) \in Nat
    BY <1>1, <1>3, <1>5, <1>8 DEF SpellsFirst, S
  <1>11. g[1] = first
    <2>1. g[0] = <<>> /\ g[1] = g[1 - 1] \o rows[1]
      BY <1>1, <1>7, <1>9, Zenon DEF Flattens
    <2>2. rows[1] = first
      BY <1>1, <1>6
    <2> HIDE DEF first
    <2>3. <<>> \o first = first
      BY <1>10 DEF S
    <2>4. 1 - 1 = 0
      OBVIOUS
    <2>5. QED
      BY <2>1, <2>2, <2>3, <2>4
  <1> HIDE DEF first, L
  <1>12. L <= Len(id) /\ \A m \in 1 .. L : id[m] = first[m]
    <2>1. PrefixOf(g[1], id)
      BY <1>1, <1>9
    <2>2. QED
      BY <1>11, <2>1 DEF PrefixOf, L
  <1>13. L < Len(id) => \E n \in 1 .. N : n # 1 /\ id[L + 1] = Row(n)[1]
    <2>1. SUFFICES ASSUME L < Len(id) PROVE \E n \in 1 .. N : n # 1 /\ id[L + 1] = Row(n)[1]
      OBVIOUS
    <2>2. N # 1
      BY <1>9, <1>11, <2>1, <1>10 DEF L
    <2>3. 2 \in 1 .. N /\ 2 \in 0 .. N
      BY <1>1, <2>2
    <2>4. g[2] = g[2 - 1] \o rows[2]
      BY <1>7, <1>9, <2>3, Zenon DEF Flattens
    <2> DEFINE second == Row(2)
    <2>5. rows[2] = second /\ second \in S /\ Len(second) > 0
      BY <1>3, <1>6, <2>3 DEF SpellsLater
    <2> HIDE DEF second
    <2>6. 2 - 1 = 1
      OBVIOUS
    <2>7. g[2] = first \o second
      BY <1>11, <2>4, <2>5, <2>6
    <2>8. /\ (first \o second)[L + 1] = second[1] /\ L + 1 \in 1 .. Len(first \o second)
      BY <1>10, <2>5 DEF S, L
    <2>9. PrefixOf(first \o second, id)
      BY <1>9, <2>3, <2>7
    <2>10. id[L + 1] = second[1]
      BY <2>8, <2>9 DEF PrefixOf
    <2>11. QED
      BY <2>3, <2>10 DEF second
  <1>14. \A m \in 1 .. L : Lowered(id[m]) = w[m] /\ id[m] \notin Separators
    BY <1>3, <1>10, <1>12 DEF SpellsFirst, first
  <1>15. CASE c = "SCREAMING_CASE"
    <2>1. \A m \in 1 .. L : id[m] \in Upper
      BY <1>3, <1>10, <1>12, <1>15 DEF SpellsFirst, first
    <2>2. L < Len(id) => id[L + 1] \in Separators
      BY <1>3, <1>13, <1>15 DEF SpellsLater
    <2>3. QED
      BY <1>4, <1>8, <1>10, <1>12, <1>14, <2>1, <2>2 DEF StartsSpelled, S, w
  <1>16. CASE c # "SCREAMING_CASE"
    <2>1. \A m \in 2 .. L : id[m] \in Lower
      <3>1. \A m \in 2 .. L : m \in 1 .. L
        BY <1>10
      <3>2. QED
        BY <1>3, <1>10, <1>12, <1>16, <3>1 DEF SpellsFirst, first
    <2>2. L < Len(id) => id[L + 1] \in Upper \cup Separators
      BY <1>3, <1>13 DEF SpellsLater
    <2>3. QED
      BY <1>4, <1>8, <1>10, <1>12, <1>14, <2>1, <2>2 DEF StartsSpelled, S, w
  <1>17. QED
    BY <1>15, <1>16

(* However it is spelled, an identifier holds its first word.              *)
LEMMA SpelledWordFound ==
  ASSUME NEW words \in WordLists, NEW idents \in Seq(Seq(Characters)),
         Range(idents) \cap Spellings(words) # {}
  PROVE  words[1] \in Range(Words(idents))
  <1>1. /\ words \in Seq(Seq(Range(LowerOf))) /\ words # <<>>
        /\ \A n \in DOMAIN words : Len(words[n]) > 1
    BY WordListsAssumption
  <1>2. PICK id \in Range(idents), c \in Conventions : id = Spell(words, c)
    BY DEF Spellings
  <1>3. StartsSpelled(id, words[1])
    BY <1>1, <1>2, SpelledStarts
  <1>4. words[1] \in Seq(Lower) /\ Len(words[1]) > 1
    <2> DEFINE T == Seq(Range(LowerOf))
               w == words[1]
    <2>1. words \in Seq(T) /\ words # <<>>
      BY <1>1
    <2> HIDE DEF T
    <2>2. w \in T /\ 1 \in DOMAIN words
      BY <2>1
    <2>3. Len(w) > 1
      BY <1>1, <2>2
    <2> HIDE DEF w
    <2>4. w \in Seq(Range(LowerOf))
      BY <2>2 DEF T
    <2>5. w \in Seq(Lower)
      BY <2>4, SearchAssumption
    <2>6. QED
      BY <2>3, <2>5 DEF w
  <1>5. words[1] \in Range(SplitIdentifier(id))
    BY <1>3, <1>4, FirstWordSplit
  <1>6. QED
    BY <1>5, WordOfOne

(* The first of a sorting, up to a number of them.                         *)
LEMMA FirstOfIs ==
  ASSUME NEW T, NEW r \in Seq(T), NEW top \in Nat
  PROVE  /\ Len(FirstOf(r, top)) = top \/ FirstOf(r, top) = r
         /\ top > 0 /\ Len(r) > 0 => Len(FirstOf(r, top)) > 0 /\ FirstOf(r, top)[1] = r[1]
  <1> DEFINE m == Min({top, Len(r)})
  <1>1. Len(r) \in Nat
    OBVIOUS
  <1>2. m \in {top, Len(r)} /\ m <= top /\ m <= Len(r)
    <2> DEFINE S == {top, Len(r)}
    <2>1. S \in SUBSET Nat /\ S # {} /\ top \in S /\ Len(r) \in S
      BY <1>1
    <2> HIDE DEF S
    <2>2. Min(S) \in S /\ Min(S) <= top /\ Min(S) <= Len(r)
      BY <2>1, LeastOf
    <2>3. QED
      BY <2>2 DEF S
  <1>3. FirstOf(r, top) = SubSeq(r, 1, m)
    BY DEF FirstOf
  <1> HIDE DEF m
  <1>4. Len(SubSeq(r, 1, m)) = m /\ \A i \in 1 .. m : SubSeq(r, 1, m)[i] = r[i]
    BY <1>1, <1>2
  <1>5. m = Len(r) => SubSeq(r, 1, m) = r
    OBVIOUS
  <1>6. QED
    BY <1>1, <1>2, <1>3, <1>4, <1>5

(* The entries of an index.                                                *)
EntriesFrom(si, its, opts) ==
  /\ DOMAIN si.entries = 1 .. Len(its) /\ Len(its) \in Nat
  /\ si.config.blind = opts.blind /\ si.config.k = opts.k
  /\ \A n \in 1 .. Len(its) :
       /\ si.entries[n].lang = LangOf[its[n].path] /\ si.entries[n].text = its[n].text
       /\ si.entries[n].unique = UniqueSet(its[n])
       /\ si.entries[n].sketch = SketchOf(UniqueSet(its[n]))
       /\ si.entries[n].words = Words(Identifiers(its[n].text))

LEMMA EntriesOf ==
  ASSUME NEW opts, NEW its \in Workspaces(opts)
  PROVE  EntriesFrom(BuildIndex(its, opts), its, opts)
  <1>1. its \in Seq(WorkspaceItems(opts))
    BY WorkspaceType
  <1>2. DOMAIN its = 1 .. Len(its) /\ Len(its) \in Nat
    BY <1>1
  <1>3. QED
    BY <1>2 DEF BuildIndex, EntriesFrom

LEMMA SomeNumbersFinite ==
  ASSUME NEW N \in Nat, NEW S, S \subseteq 1 .. N
  PROVE  IsFiniteSet(S)
  <1>1. IsFiniteSet(1 .. N)
    BY FS_Interval
  <1>2. QED
    BY <1>1, FS_Subset

(* A sorting of finitely many entries, shown as matches.                   *)
LEMMA SortedMatches ==
  ASSUME NEW hits, IsFiniteSet(hits), NEW before, NEW s \in Sorted(hits, before)
  PROVE  /\ Ordering(s, hits, before) /\ DOMAIN s = 1 .. Cardinality(hits)
         /\ Cardinality(hits) \in Nat
  <1>1. s \in Orderings(hits, before)
    BY SortedOrderings
  <1>2. QED
    BY <1>1, FS_CardinalityType DEF Orderings

LEMMA EntryFound ==
  ASSUME NEW opts \in IndexOpts \cup AskingOpts, NEW its \in Workspaces(opts), NEW si,
         si = BuildIndex(its, opts), NEW query, query.top \in Nat,
         query.keywords \in Seq(Seq(Characters)), NEW matches \in KeywordAnswers(si, query),
         NEW words \in WordLists, NEW n \in DOMAIN si.entries,
         Range(Identifiers(si.entries[n].text)) \cap Spellings(words) # {},
         Range(query.keywords) \cap Spellings(words) # {}
  PROVE  Len(matches) = query.top \/ Match(si, n, "bm25") \in Range(matches)
  <1> DEFINE terms == QueryTerms(query.keywords)
             hits == {m \in DOMAIN si.entries : Range(si.entries[m].words) \cap terms # {}}
             before == {nm \in hits \X hits :
                          ScoresAbove(si.entries[nm[1]], si.entries[nm[2]], terms)}
             Shown(s) == [m \in DOMAIN s |-> Match(si, s[m], "bm25")]
  <1>1. its \in Seq(WorkspaceItems(opts))
    BY WorkspaceType
  <1>2. n \in 1 .. Len(its) /\ DOMAIN si.entries = 1 .. Len(its) /\ Len(its) \in Nat
        /\ EntriesFrom(si, its, opts)
    <2>1. EntriesFrom(si, its, opts)
      BY EntriesOf, Zenon
    <2>2. QED
      BY <2>1, Zenon DEF EntriesFrom
  <1>3. n \in hits
    <2>1. si.entries[n].words = Words(Identifiers(si.entries[n].text))
          /\ si.entries[n].text = its[n].text
      BY <1>2 DEF EntriesFrom
    <2>2. its[n] \in WorkspaceItems(opts)
      BY <1>1, <1>2
    <2>3. Identifiers(its[n].text) \in Seq(Seq(Characters))
      BY <2>2, ItemRight DEF PartRight
    <2>4. words[1] \in Range(si.entries[n].words)
      BY <2>1, <2>3, SpelledWordFound
    <2>5. words[1] \in terms
      BY SpelledWordFound DEF QueryTerms
    <2>6. QED
      BY <1>2, <2>4, <2>5
  <1>4. IsFiniteSet(hits)
    <2>1. hits \subseteq 1 .. Len(its) /\ Len(its) \in Nat
      BY <1>2, Zenon
    <2> HIDE DEF hits
    <2>2. QED
      BY <2>1, SomeNumbersFinite, Zenon
  <1>5. PICK s \in Sorted(hits, before) : matches = FirstOf(Shown(s), query.top)
    BY Zenon DEF KeywordAnswers
  <1> HIDE DEF hits, before
  <1>6. Ordering(s, hits, before) /\ DOMAIN s = 1 .. Cardinality(hits)
        /\ Cardinality(hits) \in Nat
    BY <1>4, <1>5, SortedMatches
  <1>7. PICK m \in 1 .. Cardinality(hits) : s[m] = n
    BY <1>3, <1>4, <1>6, OrderingOnto
  <1>8. DOMAIN Shown(s) = 1 .. Cardinality(hits) /\ Shown(s)[m] = Match(si, n, "bm25")
    BY <1>6, <1>7
  <1>9. Shown(s) \in Seq(Range(Shown(s)))
    <2>1. Shown(s) = [i \in 1 .. Cardinality(hits) |-> Shown(s)[i]]
      BY <1>6
    <2> HIDE DEF Shown
    <2>2. QED
      BY <1>6, <1>8, <2>1 DEF Range
  <1>10. Match(si, n, "bm25") \in Range(Shown(s))
    BY <1>7, <1>8 DEF Range
  <1> HIDE DEF Shown
  <1>11. Len(matches) = query.top \/ matches = Shown(s)
    BY <1>5, <1>9, FirstOfIs
  <1>12. QED
    BY <1>10, <1>11

(* A snippet is read as the index was: the code of an entry has the        *)
(* fingerprints the entry has.                                             *)
LEMMA SnippetHashes ==
  ASSUME NEW opts \in IndexOpts \cup AskingOpts, NEW its \in Workspaces(opts), NEW si,
         EntriesFrom(si, its, opts), NEW query, NEW n \in 1 .. Len(its),
         si.entries[n].text = query.text, si.entries[n].lang = LangOfSnippet(query)
  PROVE  /\ QueryHashes(si, query) = UniqueSet(its[n])
         /\ UniqueSet(its[n]) # {} /\ IsFiniteSet(UniqueSet(its[n]))
         /\ DOMAIN SketchOf(UniqueSet(its[n])) = 1 .. (Bands * Rows)
  <1> DEFINE item == its[n]
  <1>1. its \in Seq(WorkspaceItems(opts)) /\ item \in WorkspaceItems(opts)
    BY WorkspaceType
  <1>2. item.hashes = Hashes(item.text, LangOf[item.path], opts.blind, opts.k)
    <2>1. PICK p \in Paths, part \in AllParts(opts) : item = Item(p, part, opts)
      BY <1>1 DEF WorkspaceItems
    <2>2. QED
      BY <2>1 DEF Item
  <1>3. BlindOf(si) = opts.blind /\ si.config.k = opts.k
    <2>1. opts.blind \in {"Strict", "Mild", "Aggressive"}
      BY InputsAssumption DEF FlagsAssumed
    <2>2. si.config.blind = opts.blind /\ si.config.k = opts.k
      BY DEF EntriesFrom
    <2>3. QED
      BY <2>1, <2>2 DEF BlindOf
  <1>4. query.text = item.text /\ LangOfSnippet(query) = LangOf[item.path]
    BY DEF EntriesFrom
  <1>5. QueryHashes(si, query) = UniqueSet(item)
    BY <1>2, <1>3, <1>4, Zenon DEF QueryHashes, UniqueSet
  <1>6. PartRight(item.text, item.hashes) /\ item.hashes # <<>>
    BY <1>1, ItemRight
  <1>7. UniqueSet(item) # {}
    <2> DEFINE hs == item.hashes
    <2>1. hs \in Seq(Range(hs)) /\ hs # <<>>
      BY <1>6 DEF PartRight
    <2> HIDE DEF hs
    <2>2. 1 \in DOMAIN hs
      BY <2>1
    <2>3. QED
      BY <2>2 DEF UniqueSet, Range, hs
  <1>8. IsFiniteSet(UniqueSet(item))
    <2>1. FiniteItems(its) /\ n \in DOMAIN its
      BY <1>1, ItemsAreFinite
    <2>2. QED
      BY <2>1 DEF FiniteItems
  <1>9. QED
    BY <1>5, <1>6, <1>7, <1>8 DEF PartRight, UniqueSet

(* An entry whose sketch the snippet has is among the candidates, compared *)
(* one by one or looked up by a band, whatever is asked for.               *)
LEMMA SnippetCandidate ==
  ASSUME NEW opts \in IndexOpts \cup AskingOpts, NEW its \in Workspaces(opts), NEW si,
         si = BuildIndex(its, opts), NEW n \in 1 .. Len(its), NEW q, NEW min \in Int \X Nat,
         SketchOf(q) = SketchOf(UniqueSet(its[n])),
         DOMAIN SketchOf(q) = 1 .. (Bands * Rows), min[1] <= min[2]
  PROVE  SnippetCandidates(si, q, min) \subseteq 1 .. Len(its) /\ n \in SnippetCandidates(si, q, min)
  <1> DEFINE s == SketchOf(q)
             slots == Bands * Rows
             near == {m \in DOMAIN si.entries :
                        EstimateReaches(s, si.entries[m].sketch, <<min[1], 2 * min[2]>>)}
             ix == TempIndex(si)
  <1>1. SnippetCandidates(si, q, min) \in {near, QuerySketch(ix, s)}
    BY Zenon DEF SnippetCandidates
  <1>2. EntriesFrom(si, its, opts)
    BY EntriesOf
  <1>3. its \in Seq(WorkspaceItems(opts)) /\ DOMAIN its = 1 .. Len(its)
    BY WorkspaceType
  <1>4. near \subseteq 1 .. Len(its)
    BY <1>2 DEF EntriesFrom
  <1>5. n \in near
    <2>1. si.entries[n].sketch = s /\ n \in DOMAIN si.entries
      BY <1>2 DEF EntriesFrom
    <2>2. slots \in Nat
      BY LshIndexAssumption
    <2>3. SketchAgreement(s, s) = slots
      <3>1. {i \in DOMAIN s : s[i] = s[i]} = 1 .. slots
        OBVIOUS
      <3> HIDE DEF slots, s
      <3>2. Cardinality(1 .. slots) = slots
        BY <2>2, FS_Interval
      <3>3. QED
        BY <3>1, <3>2 DEF SketchAgreement
    <2>4. AtMost(<<min[1], 2 * min[2]>>, <<slots, slots>>)
      <3> DEFINE a == min[1]
                 b == 2 * min[2]
      <3>1. a \in Int /\ b \in Int /\ a <= b
        OBVIOUS
      <3> HIDE DEF a, b, slots
      <3>2. a * slots <= slots * b
        BY <2>2, <3>1
      <3>3. QED
        BY <3>2 DEF AtMost, a, b
    <2>5. EstimateReaches(s, s, <<min[1], 2 * min[2]>>)
      BY <2>3, <2>4 DEF EstimateReaches
    <2> HIDE DEF s
    <2>6. QED
      BY <2>1, <2>5
  <1>6. ix = IndexOf(its)
    <2> DEFINE entries == [m \in DOMAIN si.entries |->
                 [path |-> si.entries[m].path, granule |-> si.entries[m].granule,
                  sketch |-> si.entries[m].sketch]]
    <2>1. entries = LshEntries(its)
      BY <1>3 DEF BuildIndex, LshEntries
    <2> HIDE DEF entries
    <2>2. QED
      BY <2>1 DEF TempIndex, IndexOf, entries
  <1>7. DOMAIN ix.files = 1 .. Len(its) /\ ix.files[n].alive
        /\ ix.buckets = UNION {BandKeys(SketchOf(UniqueSet(its[m]))) \X {m} : m \in 1 .. Len(its)}
    BY <1>3, <1>6, IndexOfFields
  <1> HIDE DEF ix, near
  <1>8. QuerySketch(ix, s) \subseteq 1 .. Len(its)
    BY <1>7 DEF QuerySketch, IsAlive, Ids
  <1>9. n \in QuerySketch(ix, s)
    <2>1. PICK key : key \in BandKeys(s)
      BY LshIndexAssumption DEF BandKeys
    <2>2. <<key, n>> \in BandKeys(SketchOf(UniqueSet(its[n]))) \X {n}
      BY <2>1
    <2>3. <<key, n>> \in ix.buckets
      BY <1>7, <2>2
    <2> HIDE DEF s
    <2>4. n \in InBucketsOf(ix, s)
      BY <2>1, <2>3 DEF InBucketsOf
    <2>5. IsAlive(ix, n)
      BY <1>7 DEF IsAlive, Ids
    <2>6. QED
      BY <2>4, <2>5 DEF QuerySketch
  <1>10. QED
    BY <1>1, <1>4, <1>5, <1>8, <1>9

(* A full overlap is the greatest there is.                                *)
LEMMA FullOverlap ==
  ASSUME NEW q, IsFiniteSet(q), q # {}
  PROVE  /\ Jaccard(Overlap(q, q)) = <<Cardinality(q), Cardinality(q)>>
         /\ Cardinality(q) \in Nat /\ Cardinality(q) > 0
  <1> DEFINE c == Cardinality(q)
  <1>1. c \in Nat /\ c > 0
    BY FS_CardinalityType, FS_EmptySet
  <1>2. Cardinality(q \cap q) = c
    OBVIOUS
  <1> HIDE DEF c
  <1>3. Overlap(q, q) = [shared |-> c, union |-> c + c - c]
    BY <1>2 DEF Overlap, c
  <1>4. c + c - c = c /\ c # 0
    BY <1>1
  <1>5. Jaccard(Overlap(q, q)) = <<c, c>>
    BY <1>3, <1>4 DEF Jaccard
  <1>6. QED
    BY <1>1, <1>5 DEF c

LEMMA JaccardType ==
  ASSUME NEW A, NEW B, IsFiniteSet(A), IsFiniteSet(B)
  PROVE  Jaccard(Overlap(A, B)) \in Int \X Int
  <1> DEFINE a == Cardinality(A)
             b == Cardinality(B)
             c == Cardinality(A \cap B)
  <1>1. a \in Nat /\ b \in Nat /\ c \in Nat
    BY FS_CardinalityType, FS_Intersection
  <1>2. Overlap(A, B) = [shared |-> c, union |-> a + b - c]
    BY DEF Overlap
  <1> HIDE DEF a, b, c
  <1>3. QED
    BY <1>1, <1>2 DEF Jaccard

(* What has as good a score as a full match is one.                        *)
LEMMA AsGoodAsFull ==
  ASSUME NEW c \in Nat, c > 0, NEW x \in Int \X Int, AtMost(<<c, c>>, x)
  PROVE  AtMost(<<1, 1>>, x)
  <1> DEFINE a == x[1]
             b == x[2]
  <1>1. a \in Int /\ b \in Int /\ c * b <= a * c
    BY DEF AtMost
  <1> HIDE DEF a, b
  <1>2. b <= a
    <2>1. SUFFICES ASSUME b > a PROVE FALSE
      BY <1>1
    <2>2. b - a \in Nat /\ b - a > 0 /\ b = a + (b - a)
      BY <1>1, <2>1
    <2> DEFINE d == b - a
    <2>3. d \in Nat /\ d > 0 /\ b = a + d
      BY <2>2
    <2> HIDE DEF d
    <2>4. c * d > 0 /\ c * d \in Int
      BY <2>3
    <2>5. c * b = a * c + c * d
      BY <1>1, <2>3
    <2>6. a * c \in Int
      BY <1>1
    <2>7. QED
      BY <1>1, <2>4, <2>5, <2>6
  <1>3. QED
    BY <1>1, <1>2 DEF AtMost, a, b

(* Code that is in the index is found with its own text, and first.        *)
LEMMA TextFound ==
  ASSUME NEW opts \in IndexOpts \cup AskingOpts, NEW its \in Workspaces(opts), NEW si,
         si = BuildIndex(its, opts), NEW query, query.top \in Nat, query.top > 0,
         query.min \in Int \X Nat, AtMost(query.min, <<1, 1>>),
         NEW matches \in SnippetAnswers(si, query), NEW n \in DOMAIN si.entries,
         si.entries[n].text = query.text, si.entries[n].lang = LangOfSnippet(query)
  PROVE  matches # <<>> /\ AtMost(<<1, 1>>, matches[1].score)
  <1> DEFINE q == QueryHashes(si, query)
             jaccard(m) == Jaccard(Overlap(q, si.entries[m].unique))
             close == {m \in SnippetCandidates(si, q, query.min) : AtMost(query.min, jaccard(m))}
             before == {nm \in close \X close : ~AtMost(jaccard(nm[1]), jaccard(nm[2]))}
             Shown(s) == [m \in DOMAIN s |-> Match(si, s[m], jaccard(s[m]))]
             c == Cardinality(q)
  <1>1. EntriesFrom(si, its, opts) /\ n \in 1 .. Len(its)
        /\ \A m \in 1 .. Len(its) : si.entries[m].unique = UniqueSet(its[m])
    BY EntriesOf DEF EntriesFrom
  <1>2. /\ q = UniqueSet(its[n]) /\ q # {} /\ IsFiniteSet(q)
        /\ DOMAIN SketchOf(q) = 1 .. (Bands * Rows)
    BY <1>1, SnippetHashes
  <1>3. query.min[1] <= query.min[2]
    <2> DEFINE a == query.min[1]
               b == query.min[2]
    <2>1. a \in Int /\ b \in Nat /\ a * 1 <= 1 * b
      BY DEF AtMost
    <2> HIDE DEF a, b
    <2>2. a <= b
      BY <2>1
    <2>3. QED
      BY <2>2 DEF a, b
  <1>4. SnippetCandidates(si, q, query.min) \subseteq 1 .. Len(its)
        /\ n \in SnippetCandidates(si, q, query.min)
    <2>1. SketchOf(q) = SketchOf(UniqueSet(its[n])) /\ DOMAIN SketchOf(q) = 1 .. (Bands * Rows)
      BY <1>2
    <2> HIDE DEF q
    <2>2. QED
      BY <1>1, <1>3, <2>1, SnippetCandidate
  <1>5. jaccard(n) = <<c, c>> /\ c \in Nat /\ c > 0
    <2>1. si.entries[n].unique = q
      BY <1>1, <1>2
    <2> HIDE DEF q
    <2>2. QED
      BY <1>2, <2>1, FullOverlap
  <1>6. \A m \in 1 .. Len(its) : jaccard(m) \in Int \X Int
    <2>1. \A m \in 1 .. Len(its) : IsFiniteSet(si.entries[m].unique)
      <3>1. its \in Seq(WorkspaceItems(opts))
        BY WorkspaceType
      <3>2. FiniteItems(its) /\ DOMAIN its = 1 .. Len(its)
        BY <3>1, ItemsAreFinite
      <3>3. QED
        BY <1>1, <3>2 DEF FiniteItems
    <2> HIDE DEF q
    <2>2. QED
      BY <1>2, <2>1, JaccardType
  <1>7. PICK s \in Sorted(close, before) : matches = FirstOf(Shown(s), query.top)
    <2>1. q # {}
      BY <1>2
    <2>2. QED
      BY <2>1, Zenon DEF SnippetAnswers
  <1> HIDE DEF q, jaccard, c
  <1>8. n \in close
    <2>1. AtMost(query.min, <<c, c>>)
      <3> DEFINE a == query.min[1]
                 b == query.min[2]
      <3>1. a \in Int /\ b \in Int /\ a <= b
        BY <1>3
      <3> HIDE DEF a, b
      <3>2. a * c <= c * b
        BY <1>5, <3>1
      <3>3. QED
        BY <3>2 DEF AtMost, a, b
    <2>2. QED
      BY <1>4, <1>5, <2>1
  <1>9. close \subseteq 1 .. Len(its)
    BY <1>4
  <1>10. \A m, o \in close : <<m, o>> \notin before => AtMost(jaccard(m), jaccard(o))
    OBVIOUS
  <1> HIDE DEF close, before
  <1>11. IsFiniteSet(close)
    <2>1. Len(its) \in Nat
      BY <1>1 DEF EntriesFrom
    <2>2. QED
      BY <1>9, <2>1, SomeNumbersFinite, Zenon
  <1> DEFINE N == Cardinality(close)
  <1>12. Ordering(s, close, before) /\ DOMAIN s = 1 .. N /\ N \in Nat
    BY <1>7, <1>11, SortedMatches
  <1>13. PICK m \in 1 .. N : s[m] = n
    BY <1>8, <1>11, <1>12, OrderingOnto
  <1> HIDE DEF N
  <1>14. 1 \in 1 .. N /\ 1 <= m
    BY <1>12, <1>13
  <1>15. s[1] \in close /\ <<n, s[1]>> \notin before
    BY <1>12, <1>13, <1>14 DEF Ordering, N
  <1>16. AtMost(<<1, 1>>, jaccard(s[1]))
    <2>1. AtMost(<<c, c>>, jaccard(s[1])) /\ jaccard(s[1]) \in Int \X Int
      BY <1>5, <1>6, <1>8, <1>9, <1>10, <1>15
    <2>2. QED
      BY <1>5, <2>1, AsGoodAsFull
  <1>17. Shown(s) \in Seq(Range(Shown(s))) /\ Len(Shown(s)) > 0
         /\ Shown(s)[1].score = jaccard(s[1])
    <2>1. Shown(s)[1].score = jaccard(s[1]) /\ DOMAIN Shown(s) = 1 .. N
      BY <1>12, <1>14 DEF Match
    <2>2. Shown(s) = [i \in 1 .. N |-> Shown(s)[i]]
      BY <1>12
    <2> DEFINE r == Shown(s)
    <2> HIDE DEF Shown
    <2>3. r \in Seq(Range(r)) /\ Len(r) = N
      <3> HIDE DEF r
      <3>1. r = [i \in 1 .. N |-> r[i]]
        BY <2>2 DEF r
      <3>2. QED
        BY <1>12, <3>1, FunctionIsSequence
    <2>4. QED
      BY <1>12, <1>14, <2>1, <2>3
  <1> HIDE DEF Shown
  <1>18. Len(matches) > 0 /\ matches[1] = Shown(s)[1]
    BY <1>7, <1>17, FirstOfIs
  <1>19. QED
    BY <1>16, <1>17, <1>18

(* A search finds the code and the identifiers that are in the index it is *)
(* asked of, whatever the flags of the search and the spelling.            *)
THEOREM SearchesFind == CommandsSpec => []SearchFinds
  <1>1. CommandsIInv => SearchFinds
    <2>1. SUFFICES ASSUME CommandsIInv PROVE VerbatimFound /\ KeywordsFound
      BY DEF SearchFinds
    <2>2. AnswerIs(answer, built) /\ \A si \in built : IsBuilt(si)
      BY <2>1 DEF CommandsIInv, SavedInv
    <2>3. CASE answer = NoAnswer
      <3>1. answer.query.kind = "none"
        BY <2>3 DEF NoAnswer
      <3>2. QED
        BY <3>1 DEF VerbatimFound, KeywordsFound
    <2>4. CASE answer # NoAnswer
      <3>1. PICK si \in built, query \in AllQueries :
              \E matches \in AnswersTo(si, query) :
                answer = [query |-> query, matches |-> matches, of |-> si]
        BY <2>2, <2>4 DEF AnswerIs
      <3>2. /\ answer.query = query /\ answer.of = si
            /\ answer.matches \in AnswersTo(si, query)
        BY <3>1
      <3>3. PICK opts \in IndexOpts \cup AskingOpts : \E its \in Workspaces(opts) :
              si = BuildIndex(its, opts)
        BY <2>2, <3>1 DEF IsBuilt
      <3>4. PICK its \in Workspaces(opts) : si = BuildIndex(its, opts)
        BY <3>3
      <3>5. /\ query.top \in Nat
            /\ query.kind = "snippet" => query.min \in Int \X Nat
            /\ query.kind = "keywords" => query.keywords \in Seq(Seq(Characters))
        BY InputsAssumption, CommandsAssumption DEF FlagsAssumed, AllQueries
      <3>6. VerbatimFound
        <4>1. SUFFICES ASSUME query.kind = "snippet", query.top > 0, AtMost(query.min, <<1, 1>>),
                              NEW n \in DOMAIN si.entries, si.entries[n].text = query.text,
                              si.entries[n].lang = LangOfSnippet(query)
                       PROVE  answer.matches # <<>> /\ AtMost(<<1, 1>>, answer.matches[1].score)
          BY <3>2, Zenon DEF VerbatimFound
        <4>2. answer.matches \in SnippetAnswers(si, query)
          BY <3>2, <4>1 DEF AnswersTo
        <4>3. QED
          BY <3>4, <3>5, <4>1, <4>2, TextFound
      <3>7. KeywordsFound
        <4>1. SUFFICES ASSUME query.kind = "keywords", NEW words \in WordLists,
                              NEW n \in DOMAIN si.entries,
                              Range(Identifiers(si.entries[n].text)) \cap Spellings(words) # {},
                              Range(query.keywords) \cap Spellings(words) # {}
                       PROVE  Len(answer.matches) = query.top
                                \/ Match(si, n, "bm25") \in Range(answer.matches)
          BY <3>2, Zenon DEF KeywordsFound
        <4>2. answer.matches \in KeywordAnswers(si, query)
          BY <3>2, <4>1 DEF AnswersTo
        <4>3. QED
          BY <3>4, <3>5, <4>1, <4>2, EntryFound
      <3>8. QED
        BY <3>6, <3>7
    <2>5. QED
      BY <2>3, <2>4
  <1>2. QED
    BY <1>1, CommandsInvariant, PTL
=============================================================================
