-------------------------- MODULE FilePipelineProofs --------------------------
(***************************************************************************)
(* Proofs about FilePipeline: the lexer and the literate reader keep their *)
(* account of tokens and lines, winnowing emits the minima of the windows, *)
(* equal runs share a fingerprint, and a sketch is what its slots promise. *)
(* What holds for texts, tables, hashes and windows of any size.           *)
(***************************************************************************)
EXTENDS FilePipeline, FiniteSetTheorems, SequenceTheorems, TLAPS

-----------------------------------------------------------------------------
(* Numbers and sequences.                                                  *)

(* A set of numbers that is not empty has a least one.                     *)
LEMMA LeastNumber ==
  ASSUME NEW S \in SUBSET Nat, S # {}
  PROVE  \E x \in S : \A y \in S : x <= y
  <1>1. PICK x \in S : \A y \in S : ~(<<y, x>> \in OpToRel(<, Nat))
    BY NatLessThanWellFounded, WFMin
  <1>2. \A y \in S : ~(y < x)
    BY <1>1 DEF OpToRel
  <1>3. QED
    BY <1>2

(* IsSequence says what it should.                                         *)
LEMMA SequenceFacts ==
  ASSUME NEW s, IsSequence(s)
  PROVE  Len(s) \in Nat /\ DOMAIN s = 1 .. Len(s)
  BY DEF IsSequence

(* A sequence over any set is one.                                         *)
LEMMA SequenceOf ==
  ASSUME NEW S, NEW s \in Seq(S)
  PROVE  IsSequence(s)
  <1>1. DOMAIN s = 1 .. Len(s) /\ Len(s) \in Nat
    OBVIOUS
  <1>2. s = [n \in 1 .. Len(s) |-> s[n]]
    BY <1>1
  <1>3. s \in [1 .. Len(s) -> { s[n] : n \in DOMAIN s }]
    BY <1>1, <1>2
  <1>4. QED
    BY <1>1, <1>3 DEF IsSequence

(* Append adds one element behind the others.                              *)
LEMMA AppendSequence ==
  ASSUME NEW s, IsSequence(s), NEW e
  PROVE  /\ IsSequence(Append(s, e)) /\ Len(Append(s, e)) = Len(s) + 1
         /\ \A n \in 1 .. Len(s) : Append(s, e)[n] = s[n]
         /\ Append(s, e)[Len(s) + 1] = e
  <1> DEFINE S == { s[n] : n \in DOMAIN s } \cup {e}
  <1>1. s \in Seq(S) /\ e \in S
    <2>1. s \in Seq({ s[n] : n \in DOMAIN s })
      BY DEF IsSequence
    <2>2. QED
      BY <2>1
  <1> HIDE DEF S
  <1>2. Append(s, e) \in Seq(S)
    BY <1>1
  <1>3. IsSequence(Append(s, e))
    BY <1>2, SequenceOf
  <1>4. /\ Len(Append(s, e)) = Len(s) + 1 /\ Append(s, e)[Len(s) + 1] = e
        /\ \A n \in 1 .. Len(s) : Append(s, e)[n] = s[n]
    BY <1>1
  <1>5. QED
    BY <1>3, <1>4

(* SubSeq takes the elements from the one after a to b.                    *)
LEMMA SubSeqSequence ==
  ASSUME NEW s, IsSequence(s), NEW a \in Nat, NEW b \in 0 .. Len(s)
  PROVE  /\ IsSequence(SubSeq(s, a + 1, b))
         /\ Len(SubSeq(s, a + 1, b)) = IF a < b THEN b - a ELSE 0
         /\ \A n \in 1 .. (b - a) : SubSeq(s, a + 1, b)[n] = s[a + n]
  <1> DEFINE S == { s[n] : n \in DOMAIN s }
  <1>1. s \in Seq(S)
    BY DEF IsSequence
  <1> HIDE DEF S
  <1>2. SubSeq(s, a + 1, b) \in Seq(S)
    BY <1>1, SubSeqProperties
  <1>3. IsSequence(SubSeq(s, a + 1, b))
    BY <1>2, SequenceOf
  <1>4. Len(s) \in Nat /\ \A n \in (a + 1) .. b : s[n] \in S
    BY <1>1
  <1>5. /\ Len(SubSeq(s, a + 1, b)) = IF a + 1 <= b THEN b - (a + 1) + 1 ELSE 0
        /\ \A n \in 1 .. (b - (a + 1) + 1) : SubSeq(s, a + 1, b)[n] = s[a + 1 + n - 1]
    BY <1>4, SubSeqProperties
  <1>6. QED
    BY <1>3, <1>4, <1>5

-----------------------------------------------------------------------------
(* Windows and their minima.                                               *)

(* There is a window at s, and its rightmost minimum is at p.              *)
WindowAt(ks, s) == s \in Nat /\ Window > 0 /\ s + Window <= Len(ks)

MinAt(ks, p, s) ==
  /\ p \in s .. (s + Window - 1)
  /\ \A q \in s .. (s + Window - 1) :
       ks[p + 1] < ks[q + 1] \/ (ks[p + 1] = ks[q + 1] /\ q <= p)

(* The k-grams of a window are numbers.                                    *)
LEMMA WindowFacts ==
  ASSUME NEW ks \in Seq(Hashes), NEW s, WindowAt(ks, s)
  PROVE  /\ Window \in Nat /\ Window > 0 /\ s \in Nat /\ Len(ks) \in Nat
         /\ s + Window <= Len(ks)
         /\ \A q \in s .. (s + Window - 1) :
              q \in Nat /\ q + 1 \in 1 .. Len(ks) /\ ks[q + 1] \in Nat
  BY FingerprinterAssumption DEF WindowAt, Hashes

(* Every window has a rightmost minimum, which MinOfWindow picks.          *)
LEMMA WindowHasMin ==
  ASSUME kgrams \in Seq(Hashes), NEW s, WindowAt(kgrams, s)
  PROVE  MinOfWindow(s) \in Nat /\ MinAt(kgrams, MinOfWindow(s), s)
  <1> DEFINE W == s .. (s + Window - 1)
             V == { kgrams[q + 1] : q \in W }
  <1>1. /\ Window \in Nat /\ Window > 0 /\ s \in Nat /\ s \in W
    BY WindowFacts
  <1>2. \A q \in W : q \in Nat /\ kgrams[q + 1] \in Nat
    BY WindowFacts
  <1>3. V \in SUBSET Nat /\ V # {}
    BY <1>1, <1>2
  <1>4. PICK v \in V : \A u \in V : v <= u
    BY <1>3, LeastNumber
  <1> DEFINE R == { s + Window - q : q \in { p \in W : kgrams[p + 1] = v } }
  <1>5. R \in SUBSET Nat /\ R # {}
    BY <1>1, <1>4
  <1>6. PICK r \in R : \A t \in R : r <= t
    BY <1>5, LeastNumber
  <1>7. PICK p \in W : kgrams[p + 1] = v /\ r = s + Window - p
    BY <1>6
  <1>8. \A q \in W : kgrams[p + 1] <= kgrams[q + 1]
    BY <1>4, <1>7
  <1>9. \A q \in W : kgrams[q + 1] = kgrams[p + 1] => q <= p
    <2>1. SUFFICES ASSUME NEW q \in W, kgrams[q + 1] = v PROVE q <= p
      BY <1>7
    <2>2. s + Window - q \in R
      BY <2>1
    <2>3. r <= s + Window - q
      BY <2>2, <1>6
    <2>4. QED
      BY <2>3, <1>7, <1>1, <1>2
  <1>10. \A q \in (p + 1) .. (s + Window - 1) : kgrams[p + 1] < kgrams[q + 1]
    BY <1>8, <1>9, <1>2, <1>1
  <1>11. LET m == MinOfWindow(s)
         IN  /\ m \in W
             /\ \A q \in W : kgrams[m + 1] <= kgrams[q + 1]
             /\ \A q \in (m + 1) .. (s + Window - 1) : kgrams[m + 1] < kgrams[q + 1]
    BY <1>8, <1>10 DEF MinOfWindow
  <1>12. QED
    BY <1>11, <1>2, <1>1, SMTT(40) DEF MinAt

(* A window has one rightmost minimum.                                     *)
LEMMA MinIsUnique ==
  ASSUME NEW ks \in Seq(Hashes), NEW s, WindowAt(ks, s), NEW p, NEW q,
         MinAt(ks, p, s), MinAt(ks, q, s)
  PROVE  p = q
  BY WindowFacts, SMTT(40) DEF MinAt

(* The minimum moves to the right with the window, or stays.               *)
LEMMA MinMovesRight ==
  ASSUME NEW ks \in Seq(Hashes), NEW s, WindowAt(ks, s), s > 0, NEW p, NEW q,
         MinAt(ks, p, s - 1), MinAt(ks, q, s)
  PROVE  p \in Nat /\ q \in Nat /\ p <= q
  <1>1. WindowAt(ks, s - 1)
    BY WindowFacts DEF WindowAt
  <1>2. /\ p \in (s - 1) .. (s - 1 + Window - 1) /\ q \in s .. (s + Window - 1)
        /\ p \in Nat /\ q \in Nat /\ ks[p + 1] \in Nat /\ ks[q + 1] \in Nat
    BY <1>1, WindowFacts DEF MinAt
  <1>3. Window \in Nat /\ s \in Nat
    BY WindowFacts
  <1>4. SUFFICES ASSUME q < p PROVE FALSE
    BY <1>2
  <1>5. q \in (s - 1) .. (s - 1 + Window - 1) /\ p \in s .. (s + Window - 1)
    BY <1>2, <1>3, <1>4
  <1>6. ks[q + 1] < ks[p + 1]
    BY <1>5, <1>4, <1>2 DEF MinAt
  <1>7. ks[p + 1] <= ks[q + 1]
    BY <1>5, <1>2 DEF MinAt
  <1>8. QED
    BY <1>6, <1>7, <1>2

(* What winnowing has emitted when it has seen the windows before st.      *)
Fingerprints == [hash : Hashes, pos : Nat]
Emits(ks, fs, s) == \E n \in 1 .. Len(fs) : MinAt(ks, fs[n].pos, s)
Chosen(ks, f, st) ==
  /\ \E s \in 0 .. (st - 1) : MinAt(ks, f.pos, s)
  /\ f.hash = ks[f.pos + 1]
LastChosen(ks, fs, st) ==
  IF st = 0 THEN fs = <<>>
  ELSE fs # <<>> /\ WindowAt(ks, st - 1) /\ MinAt(ks, fs[Len(fs)].pos, st - 1)
Winnowed(ks, fs, st) ==
  /\ \A s \in 0 .. (st - 1) : Emits(ks, fs, s)
  /\ \A n \in 1 .. Len(fs) : Chosen(ks, fs[n], st)
  /\ \A n \in 2 .. Len(fs) : fs[n - 1].pos < fs[n].pos
  /\ LastChosen(ks, fs, st)

(* The next window's minimum is the last one that was emitted, or is       *)
(* emitted behind it.                                                      *)
LEMMA WinnowedGrows ==
  ASSUME NEW ks \in Seq(Hashes), NEW fs \in Seq(Fingerprints), NEW st \in Nat,
         WindowAt(ks, st), Winnowed(ks, fs, st), NEW p, MinAt(ks, p, st),
         NEW last, last = IF fs = <<>> THEN -1 ELSE fs[Len(fs)].pos,
         NEW gs, gs = IF p = last THEN fs ELSE Append(fs, [hash |-> ks[p + 1], pos |-> p])
  PROVE  gs \in Seq(Fingerprints) /\ Winnowed(ks, gs, st + 1)
  <1>1. p \in Nat /\ p + 1 \in 1 .. Len(ks) /\ [hash |-> ks[p + 1], pos |-> p] \in Fingerprints
    BY WindowFacts, SMTT(40) DEF MinAt, Fingerprints
  <1> DEFINE f == [hash |-> ks[p + 1], pos |-> p]
  <1>2. f.pos = p /\ f.hash = ks[p + 1] /\ f \in Fingerprints
    BY <1>1
  <1> HIDE DEF f
  <1> DEFINE Kept == \A g : Chosen(ks, g, st) => Chosen(ks, g, st + 1)
  <1>k. Kept
    <2>1. \A s : s \in 0 .. (st - 1) => s \in 0 .. (st + 1 - 1)
      OBVIOUS
    <2>2. QED
      BY <2>1 DEF Chosen
  <1>3. CASE p = last
    <2>1. gs = fs /\ fs # <<>> /\ p = fs[Len(fs)].pos /\ Len(fs) \in 1 .. Len(fs)
      BY <1>1, <1>3
    <2>2. \A s \in 0 .. st : Emits(ks, gs, s)
      <3>1. Emits(ks, gs, st)
        BY <2>1 DEF Emits
      <3>2. QED
        BY <3>1, <2>1 DEF Winnowed
    <2>3. \A n \in 1 .. Len(gs) : Chosen(ks, gs[n], st + 1)
      BY <2>1, <1>k DEF Winnowed
    <2>4. LastChosen(ks, gs, st + 1)
      BY <2>1 DEF LastChosen
    <2>5. QED
      BY <2>1, <2>2, <2>3, <2>4, SMTT(40) DEF Winnowed
  <1>4. CASE p # last
    <2>1. gs = Append(fs, f)
      BY <1>4 DEF f
    <2>2. /\ Len(fs) \in Nat /\ Len(gs) = Len(fs) + 1 /\ gs[Len(fs) + 1] = f
          /\ \A n \in 1 .. Len(fs) : gs[n] = fs[n]
          /\ gs \in Seq(Fingerprints) /\ gs # <<>>
      BY <1>2, <2>1
    <2>3. \A s \in 0 .. st : Emits(ks, gs, s)
      <3>1. Emits(ks, gs, st)
        <4>1. MinAt(ks, gs[Len(fs) + 1].pos, st) /\ Len(fs) + 1 \in 1 .. Len(gs)
          BY <1>2, <2>2
        <4>2. QED
          BY <4>1 DEF Emits
      <3>2. ASSUME NEW s \in 0 .. (st - 1)
            PROVE  Emits(ks, gs, s)
        <4>1. PICK n \in 1 .. Len(fs) : MinAt(ks, fs[n].pos, s)
          BY DEF Winnowed, Emits
        <4>2. n \in 1 .. Len(gs) /\ MinAt(ks, gs[n].pos, s)
          BY <4>1, <2>2
        <4>3. QED
          BY <4>2 DEF Emits
      <3>3. QED
        BY <3>1, <3>2
    <2>4. \A n \in 1 .. Len(gs) : Chosen(ks, gs[n], st + 1)
      <3>1. Chosen(ks, f, st + 1)
        BY <1>2 DEF Chosen
      <3>2. \A n \in 1 .. Len(fs) : Chosen(ks, fs[n], st + 1)
        BY <1>k DEF Winnowed
      <3>3. QED
        BY <3>1, <3>2, <2>2
    <2>5. fs # <<>> => fs[Len(fs)].pos < p
      <3>1. SUFFICES ASSUME fs # <<>> PROVE fs[Len(fs)].pos < p
        OBVIOUS
      <3>2. st > 0 /\ MinAt(ks, fs[Len(fs)].pos, st - 1)
        BY <3>1 DEF Winnowed, LastChosen
      <3>3. fs[Len(fs)].pos \in Nat /\ fs[Len(fs)].pos <= p
        BY <3>2, MinMovesRight
      <3>4. QED
        BY <3>1, <3>3, <1>4, <1>1
    <2>6. \A n \in 2 .. Len(gs) : gs[n - 1].pos < gs[n].pos
      <3>1. TAKE n \in 2 .. Len(gs)
      <3>2. CASE n = Len(gs)
        <4>1. fs # <<>> /\ n - 1 = Len(fs) /\ n = Len(fs) + 1 /\ n - 1 \in 1 .. Len(fs)
          BY <3>2, <2>2
        <4>2. QED
          BY <4>1, <2>2, <2>5, <1>2
      <3>3. CASE n # Len(gs)
        <4>1. n \in 2 .. Len(fs) /\ n - 1 \in 1 .. Len(fs) /\ n \in 1 .. Len(fs)
          BY <3>3, <2>2
        <4>2. QED
          BY <4>1, <2>2 DEF Winnowed
      <3>4. QED
        BY <3>2, <3>3
    <2>7. LastChosen(ks, gs, st + 1)
      BY <1>2, <2>2 DEF LastChosen
    <2>8. QED
      BY <2>2, <2>3, <2>4, <2>6, <2>7 DEF Winnowed
  <1>5. QED
    BY <1>3, <1>4
-----------------------------------------------------------------------------
(* The hashes of k-grams.                                                  *)

(* token_hash returns a word of the machine, whatever the token.           *)
TokenHashesFit == \A t : TokenHash(t) \in Hashes

KGramsOf(toks) == KGrams([n \in DOMAIN toks |-> TokenHash(toks[n])])

(* The hashes of the K tokens from the n-th.                               *)
Gram(toks, n) == [m \in 1 .. K |-> TokenHash(toks[n + m - 1])]

(* There is a k-gram for each place where K tokens follow.                 *)
LEMMA KGramFacts ==
  ASSUME TokenHashesFit, NEW toks, IsSequence(toks)
  PROVE  /\ KGramsOf(toks) \in Seq(Hashes)
         /\ Len(KGramsOf(toks)) = IF K = 0 \/ Len(toks) < K THEN 0 ELSE Len(toks) - K + 1
         /\ \A n \in 1 .. Len(KGramsOf(toks)) : KGramsOf(toks)[n] = KGramHash(Gram(toks, n))
  <1> DEFINE hs == [n \in DOMAIN toks |-> TokenHash(toks[n])]
  <1>1. K \in Nat /\ Len(toks) \in Nat /\ DOMAIN toks = 1 .. Len(toks)
    BY FingerprinterAssumption, SequenceFacts
  <1>2. /\ hs \in Seq(Hashes) /\ Len(hs) = Len(toks)
        /\ \A n \in 1 .. Len(toks) : hs[n] = TokenHash(toks[n])
    BY <1>1 DEF TokenHashesFit
  <1>3. KGramsOf(toks) = KGrams(hs)
    BY DEF KGramsOf
  <1> HIDE DEF hs
  <1>4. CASE K = 0 \/ Len(toks) < K
    BY <1>2, <1>3, <1>4 DEF KGrams
  <1>5. CASE ~(K = 0 \/ Len(toks) < K)
    <2> DEFINE ks == [n \in 1 .. (Len(hs) - K + 1) |-> KGramHash(SubSeq(hs, n, n + K - 1))]
    <2>1. KGramsOf(toks) = ks /\ Len(hs) - K + 1 \in Nat
      BY <1>1, <1>2, <1>3, <1>5 DEF KGrams
    <2>2. ASSUME NEW n \in 1 .. (Len(hs) - K + 1)
          PROVE  SubSeq(hs, n, n + K - 1) = Gram(toks, n) /\ Gram(toks, n) \in [1 .. K -> Hashes]
      <3>1. \A m \in n .. (n + K - 1) : hs[m] \in Hashes
        BY <1>1, <1>2
      <3>2. n \in Int /\ n + K - 1 \in Int /\ n <= n + K - 1 /\ (n + K - 1) - n + 1 = K
        BY <1>1, <1>5
      <3>3. /\ SubSeq(hs, n, n + K - 1) \in Seq(Hashes)
            /\ Len(SubSeq(hs, n, n + K - 1)) = K
            /\ \A m \in 1 .. K : SubSeq(hs, n, n + K - 1)[m] = hs[n + m - 1]
        BY <3>1, <3>2, SubSeqProperties
      <3>4. SubSeq(hs, n, n + K - 1) = [m \in 1 .. K |-> SubSeq(hs, n, n + K - 1)[m]]
        BY <3>3
      <3>5. \A m \in 1 .. K : n + m - 1 \in 1 .. Len(toks)
        BY <1>1, <1>2
      <3>6. \A m \in 1 .. K : hs[n + m - 1] = TokenHash(toks[n + m - 1])
        BY <3>5, <1>2
      <3>7. QED
        BY <3>3, <3>4, <3>6 DEF Gram, TokenHashesFit
    <2>3. \A n \in 1 .. (Len(hs) - K + 1) : ks[n] = KGramHash(Gram(toks, n)) /\ ks[n] \in Hashes
      BY <2>2, FingerprinterAssumption
    <2>4. ks \in Seq(Hashes) /\ Len(ks) = Len(hs) - K + 1
      BY <2>1, <2>3
    <2> HIDE DEF ks
    <2>5. QED
      BY <2>1, <2>3, <2>4, <1>2, <1>5
  <1>6. QED
    BY <1>4, <1>5

(* Equal runs of tokens have equal k-grams.                                *)
LEMMA RunsHaveEqualKGrams ==
  ASSUME TokenHashesFit, IsSequence(granule), kgrams = KGramsOf(granule), K > 0, Window > 0,
         NEW p \in 0 .. (Len(granule) - (K + Window - 1)),
         NEW q \in 0 .. (Len(granule) - (K + Window - 1)), Run(p) = Run(q)
  PROVE  /\ WindowAt(kgrams, p) /\ WindowAt(kgrams, q)
         /\ \A m \in 1 .. Window : kgrams[p + m] = kgrams[q + m]
  <1>1. K \in Nat /\ Window \in Nat /\ Len(granule) \in Nat
    BY FingerprinterAssumption, SequenceFacts
  <1>2. /\ Len(kgrams) = Len(granule) - K + 1
        /\ \A n \in 1 .. Len(kgrams) : kgrams[n] = KGramHash(Gram(granule, n))
    BY <1>1, KGramFacts, SMTT(40)
  <1>3. WindowAt(kgrams, p) /\ WindowAt(kgrams, q)
    BY <1>1, <1>2 DEF WindowAt
  <1>4. ASSUME NEW m \in 1 .. Window
        PROVE  kgrams[p + m] = kgrams[q + m]
    <2>1. p + m \in 1 .. Len(kgrams) /\ q + m \in 1 .. Len(kgrams)
      BY <1>1, <1>2
    <2>2. ASSUME NEW j \in 1 .. K
          PROVE  TokenHash(granule[(p + m) + j - 1]) = TokenHash(granule[(q + m) + j - 1])
      <3>1. m + j - 1 \in 1 .. (K + Window - 1)
        BY <1>1
      <3>2. Run(p)[m + j - 1] = TokenHash(granule[p + (m + j - 1)])
        BY <3>1 DEF Run
      <3>3. Run(q)[m + j - 1] = TokenHash(granule[q + (m + j - 1)])
        BY <3>1 DEF Run
      <3>4. (p + m) + j - 1 = p + (m + j - 1) /\ (q + m) + j - 1 = q + (m + j - 1)
        BY <1>1
      <3>5. QED
        BY <3>2, <3>3, <3>4
    <2>3. Gram(granule, p + m) = Gram(granule, q + m)
      BY <2>2 DEF Gram
    <2>4. QED
      BY <2>1, <2>3, <1>2
  <1>5. QED
    BY <1>3, <1>4

-----------------------------------------------------------------------------
(* The hash functions of the sketch.                                       *)

(* d divides m.                                                            *)
Divides(d, m) == \E k \in Nat : m = k * d

(* An odd number times a smaller one is no multiple of a power of two.     *)
LEMMA OddIsInvertible ==
  ASSUME NEW a \in Nat, a % 2 = 1, NEW n \in Nat, 0 < n, n < Modulus
  PROVE  ~Divides(Modulus, a * n)
  <1> DEFINE M == Modulus
             D == { d \in Nat : d > 0 /\ Divides(M, a * d) }
  <1>1. M \in Nat /\ M > 0
    BY FingerprinterAssumption
  <1>2. SUFFICES ASSUME n \in D PROVE FALSE
    OBVIOUS
  <1>3. PICK d \in D : \A e \in D : d <= e
    <2>1. D \in SUBSET Nat /\ D # {}
      BY <1>2
    <2> HIDE DEF D
    <2>2. QED
      BY <2>1, LeastNumber
  <1>4. d \in Nat /\ d > 0 /\ d < M /\ Divides(M, a * d)
    BY <1>2, <1>3, <1>1
  <1>5. PICK k \in Nat : a * d = k * M
    BY <1>4 DEF Divides
  <1> HIDE DEF M
  <1>6. PICK q \in Nat, r \in Nat : M = q * d + r /\ r < d
    <2>1. M \div d \in Nat /\ M % d \in Nat /\ M % d < d /\ M = d * (M \div d) + (M % d)
      BY <1>1, <1>4
    <2>2. d * (M \div d) = (M \div d) * d
      BY <2>1, <1>4
    <2>3. QED
      BY <2>1, <2>2
  <1>7. r = 0
    <2>1. SUFFICES ASSUME r > 0 PROVE FALSE
      BY <1>6
    <2>2. a * r = a * M - q * (a * d)
      BY <1>6, <1>4, <1>1
    <2>3. a * r = (a - q * k) * M
      BY <2>2, <1>5, <1>1
    <2>4. a * r > 0
      BY <2>1, <1>6
    <2>5. a - q * k \in Nat
      BY <2>3, <2>4, <1>1
    <2>6. r \in D
      BY <2>1, <2>3, <2>5, <1>6 DEF Divides, M
    <2>7. d <= r
      BY <2>6, <1>3
    <2>8. r < d
      BY <1>6
    <2>9. QED
      BY <2>7, <2>8, <1>4
  <1>8. M = q * d
    BY <1>6, <1>7
  <1>9. a = k * q
    <2>1. a * d = (k * q) * d
      BY <1>5, <1>8, <1>4
    <2>2. QED
      BY <2>1, <1>4
  <1>10. q \in 1 .. M /\ M % q = 0
    BY <1>8, <1>1, <1>4
  <1>11. q % 2 = 1
    <2>1. SUFFICES ASSUME q % 2 = 0 PROVE FALSE
      BY <1>6
    <2>2. PICK h \in Nat : q = 2 * h
      BY <2>1, <1>6
    <2>3. a = 2 * (k * h)
      BY <2>2, <1>9, <1>5
    <2>4. k * h \in Nat
      BY <1>5, <2>2
    <2>5. QED
      BY <2>3, <2>4
  <1>12. q = 1
    BY <1>10, <1>11, FingerprinterAssumption DEF M
  <1>13. QED
    BY <1>8, <1>12, <1>4

(* An image is a hash, and the multiplier is odd.                          *)
LEMMA SlotHashTypes ==
  ASSUME NEW s \in Slots, NEW x \in Hashes
  PROVE  /\ SlotHash(s, x) \in Hashes
         /\ Odd(MixA[s]) \in Nat /\ Odd(MixA[s]) % 2 = 1 /\ MixB[s] \in Nat
  <1>1. Modulus \in Nat /\ Modulus > 0 /\ MixA[s] \in Nat /\ MixB[s] \in Nat /\ x \in Nat
    BY FingerprinterAssumption DEF Hashes
  <1>2. Odd(MixA[s]) \in Nat /\ Odd(MixA[s]) % 2 = 1
    BY <1>1 DEF Odd
  <1>3. Odd(MixA[s]) * x + MixB[s] \in Nat
    BY <1>1, <1>2
  <1>4. SlotHash(s, x) \in 0 .. (Modulus - 1)
    BY <1>1, <1>3 DEF SlotHash
  <1>5. QED
    BY <1>1, <1>2, <1>4 DEF Hashes

(* A hash function of the sketch maps no two hashes to one.                *)
LEMMA SlotHashSeparates ==
  ASSUME NEW s \in Slots, NEW x \in Hashes, NEW y \in Hashes, x < y
  PROVE  SlotHash(s, x) # SlotHash(s, y)
  <1> DEFINE a == Odd(MixA[s])
             v == a * x + MixB[s]
             w == a * y + MixB[s]
             M == Modulus
  <1>1. M \in Nat /\ M > 0 /\ x \in Nat /\ y \in Nat /\ y - x \in Nat /\ 0 < y - x /\ y - x < M
    BY FingerprinterAssumption DEF Hashes
  <1>2. a \in Nat /\ a % 2 = 1 /\ MixB[s] \in Nat
    BY SlotHashTypes
  <1>3. ~Divides(M, a * (y - x))
    BY <1>1, <1>2, OddIsInvertible
  <1>4. SUFFICES ASSUME v % M = w % M PROVE FALSE
    BY DEF SlotHash
  <1> HIDE DEF a, M
  <1>5. v \in Nat /\ w \in Nat /\ w - v = a * (y - x) /\ w >= v
    <2>1. a * y = a * x + a * (y - x)
      BY <1>1, <1>2
    <2>2. a * x \in Nat /\ a * (y - x) \in Nat /\ a * y \in Nat
      BY <1>1, <1>2
    <2>3. QED
      BY <1>2, <2>1, <2>2
  <1> HIDE DEF v, w
  <1>6. v = M * (v \div M) + (v % M) /\ w = M * (w \div M) + (w % M)
        /\ v \div M \in Nat /\ w \div M \in Nat
    BY <1>1, <1>5
  <1>7. w - v = ((w \div M) - (v \div M)) * M
    BY <1>1, <1>4, <1>5, <1>6
  <1>8. (w \div M) - (v \div M) \in Nat
    BY <1>1, <1>5, <1>6, <1>7
  <1>9. QED
    BY <1>3, <1>5, <1>7, <1>8 DEF Divides

(* So two hashes with one image are one.                                   *)
LEMMA SlotHashInjective ==
  ASSUME NEW s \in Slots, NEW x \in Hashes, NEW y \in Hashes, SlotHash(s, x) = SlotHash(s, y)
  PROVE  x = y
  <1>1. x \in Nat /\ y \in Nat
    BY FingerprinterAssumption DEF Hashes
  <1>2. ~(x < y) /\ ~(y < x)
    BY SlotHashSeparates
  <1>3. QED
    BY <1>1, <1>2

-----------------------------------------------------------------------------
(* The invariant of the fingerprinter.                                     *)

FpTyping ==
  /\ phase \in {"idle", "winnow", "sketch", "item", "none"}
  /\ IsSequence(granule)
  /\ kgrams \in Seq(Hashes)
  /\ start \in 0 .. Len(kgrams)
  /\ fps \in Seq(Fingerprints)
  /\ todo \subseteq FpHashes
  /\ sketch \in [Slots -> Hashes]

(* Windows are seen from the first, and all of them before the sketch.     *)
WinnowInv ==
  /\ phase = "idle" => granule = <<>> /\ start = 0
  /\ kgrams = KGramsOf(granule)
  /\ Winnowed(kgrams, fps, start)
  /\ phase \in {"sketch", "item", "none"} => ~WindowAt(kgrams, start)

(* A slot holds the least image of the hashes that have been taken.        *)
SlotInv(s) ==
  /\ \A x \in FpHashes \ todo : sketch[s] <= SlotHash(s, x)
  /\ \/ todo = FpHashes /\ sketch[s] = Modulus - 1
     \/ \E x \in FpHashes \ todo : SlotHash(s, x) = sketch[s]

SketchInv ==
  /\ phase \in {"idle", "winnow", "none"} => todo = {} /\ sketch = EmptySketch
  /\ phase \in {"sketch", "item"} => fps # <<>> /\ \A s \in Slots : SlotInv(s)
  /\ phase = "item" => todo = {}

FpIInv == FpTyping /\ WinnowInv /\ SketchInv

(* The hashes of the fingerprints, none when there are none.               *)
LEMMA FpHashesTypes ==
  ASSUME fps \in Seq(Fingerprints)
  PROVE  FpHashes \subseteq Hashes /\ (fps = <<>> => FpHashes = {}) /\ (fps # <<>> => FpHashes # {})
  <1>1. DOMAIN fps = 1 .. Len(fps) /\ Len(fps) \in Nat
    OBVIOUS
  <1>2. \A n \in 1 .. Len(fps) : fps[n].hash \in Hashes
    <2>1. \A f \in Fingerprints : f.hash \in Hashes
      BY DEF Fingerprints
    <2>2. \A n \in 1 .. Len(fps) : fps[n] \in Fingerprints
      OBVIOUS
    <2>3. QED
      BY <2>1, <2>2
  <1>3. fps = <<>> => DOMAIN fps = {}
    BY <1>1
  <1>4. fps # <<>> => 1 \in DOMAIN fps
    BY <1>1
  <1>5. QED
    BY <1>1, <1>2, <1>3, <1>4 DEF FpHashes

(* The invariant holds before anything is fingerprinted.                   *)
LEMMA FpStarts ==
  ASSUME TokenHashesFit, FingerprinterInit
  PROVE  FpIInv
  <1>1. IsSequence(granule)
    <2>1. granule \in Seq({})
      BY DEF FingerprinterInit
    <2>2. QED
      BY <2>1, SequenceOf
  <1>2. kgrams = KGramsOf(granule) /\ kgrams \in Seq(Hashes)
    <2>1. Len(granule) = 0
      BY DEF FingerprinterInit
    <2>2. KGramsOf(granule) \in Seq(Hashes) /\ Len(KGramsOf(granule)) = 0
      BY <1>1, <2>1, KGramFacts, FingerprinterAssumption
    <2>3. KGramsOf(granule) = <<>>
      BY <2>2
    <2>4. QED
      BY <2>2, <2>3 DEF FingerprinterInit
  <1>3. Winnowed(kgrams, fps, start)
    <2>1. start = 0 /\ fps = <<>> /\ Len(fps) = 0
      BY DEF FingerprinterInit
    <2>2. QED
      BY <2>1 DEF Winnowed, LastChosen
  <1>4. EmptySketch \in [Slots -> Hashes]
    BY FingerprinterAssumption DEF EmptySketch, Hashes
  <1>5. QED
    BY <1>1, <1>2, <1>3, <1>4 DEF FingerprinterInit, FpIInv, FpTyping, WinnowInv, SketchInv

(* The lexer leaves the fingerprinter alone.                               *)
LEMMA FpStutters ==
  ASSUME FpIInv, UNCHANGED fpVars
  PROVE  FpIInv'
  <1>1. UNCHANGED <<granule, kgrams, start, fps, todo, sketch, phase>>
    BY DEF fpVars
  <1>2. FpTyping'
    BY <1>1 DEF FpIInv, FpTyping, FpHashes
  <1>3. WinnowInv'
    BY <1>1 DEF FpIInv, WinnowInv, KGramsOf
  <1>4. SketchInv'
    BY <1>1 DEF FpIInv, SketchInv, SlotInv, FpHashes, SlotHash, EmptySketch
  <1>5. QED
    BY <1>2, <1>3, <1>4 DEF FpIInv

(* Reject and NothingToIndex: there is nothing to fingerprint.             *)
LEMMA NoItemKeepsFp ==
  ASSUME TokenHashesFit, FpIInv, phase = "idle", phase' = "none",
         UNCHANGED <<granule, kgrams, start, fps, todo, sketch>>
  PROVE  FpIInv'
  <1>1. kgrams = KGramsOf(granule) /\ Len(granule) = 0 /\ start = 0
    BY DEF FpIInv, WinnowInv
  <1>2. Len(kgrams) = 0
    BY <1>1, KGramFacts, FingerprinterAssumption DEF FpIInv, FpTyping
  <1>3. ~WindowAt(kgrams, start)
    BY <1>1, <1>2, FingerprinterAssumption DEF WindowAt
  <1>4. QED
    BY <1>3 DEF FpIInv, FpTyping, WinnowInv, SketchInv, FpHashes

(* Begin hashes the k-grams; no window has been seen.                      *)
LEMMA BeginKeepsFp ==
  ASSUME TokenHashesFit, FpIInv, NEW toks, IsSequence(toks), Begin(toks)
  PROVE  FpIInv'
  <1>1. granule' = toks /\ kgrams' = KGramsOf(toks) /\ phase = "idle" /\ phase' = "winnow"
        /\ UNCHANGED <<start, fps, todo, sketch>>
    BY DEF Begin, KGramsOf
  <1>2. kgrams' \in Seq(Hashes)
    BY <1>1, KGramFacts
  <1>3. start = 0 /\ fps = <<>> /\ Len(fps) = 0
    BY <1>1 DEF FpIInv, WinnowInv, Winnowed, LastChosen
  <1>4. Winnowed(kgrams', fps', start')
    BY <1>1, <1>3 DEF Winnowed, LastChosen
  <1>5. start' \in 0 .. Len(kgrams') /\ IsSequence(granule')
    BY <1>1, <1>2, <1>3
  <1>6. FpTyping'
    BY <1>1, <1>2, <1>5 DEF FpIInv, FpTyping, FpHashes
  <1>7. WinnowInv'
    BY <1>1, <1>4 DEF WinnowInv
  <1>8. SketchInv'
    BY <1>1 DEF FpIInv, SketchInv, EmptySketch
  <1>9. QED
    BY <1>6, <1>7, <1>8 DEF FpIInv

(* The loop runs while there is a window.                                  *)
LEMMA WindowsExact ==
  ASSUME kgrams \in Seq(Hashes), start \in 0 .. Len(kgrams)
  PROVE  start \in Windows <=> WindowAt(kgrams, start)
  BY FingerprinterAssumption DEF Windows, WindowAt

(* WindowStep sees one window more.                                        *)
LEMMA WindowKeepsFp ==
  ASSUME FpIInv, WindowStep
  PROVE  FpIInv'
  <1> DEFINE p == MinOfWindow(start)
             last == LastEmitted
  <1>1. /\ kgrams \in Seq(Hashes) /\ fps \in Seq(Fingerprints) /\ start \in Nat
        /\ Winnowed(kgrams, fps, start) /\ WindowAt(kgrams, start)
    BY WindowsExact DEF FpIInv, FpTyping, WinnowInv, WindowStep
  <1>2. MinAt(kgrams, p, start)
    BY <1>1, WindowHasMin
  <1>3. last = IF fps = <<>> THEN -1 ELSE fps[Len(fps)].pos
    BY DEF LastEmitted
  <1>4. fps' = IF p = last THEN fps ELSE Append(fps, [hash |-> kgrams[p + 1], pos |-> p])
    BY DEF WindowStep
  <1>5. /\ start' = start + 1 /\ phase = "winnow"
        /\ UNCHANGED <<granule, kgrams, todo, sketch, phase>>
    BY DEF WindowStep
  <1> HIDE DEF p, last
  <1>6. fps' \in Seq(Fingerprints) /\ Winnowed(kgrams, fps', start + 1)
    BY <1>1, <1>2, <1>3, <1>4, WinnowedGrows
  <1>7. start + 1 \in 0 .. Len(kgrams)
    BY <1>1, WindowFacts
  <1>8. todo = {}
    BY <1>5 DEF FpIInv, SketchInv
  <1>9. FpTyping'
    BY <1>5, <1>6, <1>7, <1>8 DEF FpIInv, FpTyping
  <1>10. WinnowInv'
    BY <1>5, <1>6 DEF FpIInv, WinnowInv, KGramsOf
  <1>11. SketchInv'
    BY <1>5 DEF FpIInv, SketchInv, EmptySketch
  <1>12. QED
    BY <1>9, <1>10, <1>11 DEF FpIInv

(* WinnowDone has seen them all; no hash has been taken.                   *)
LEMMA DoneKeepsFp ==
  ASSUME FpIInv, WinnowDone
  PROVE  FpIInv'
  <1>1. /\ kgrams \in Seq(Hashes) /\ fps \in Seq(Fingerprints) /\ ~WindowAt(kgrams, start)
        /\ sketch = EmptySketch
    BY WindowsExact DEF FpIInv, FpTyping, WinnowInv, SketchInv, WinnowDone
  <1>2. /\ phase' = IF fps = <<>> THEN "none" ELSE "sketch"
        /\ todo' = FpHashes /\ UNCHANGED <<granule, kgrams, start, fps, sketch>>
    BY DEF WinnowDone
  <1>3. FpHashes' = FpHashes
    BY <1>2 DEF FpHashes
  <1>4. FpTyping'
    BY <1>2, <1>3 DEF FpIInv, FpTyping
  <1>5. WinnowInv'
    BY <1>1, <1>2 DEF FpIInv, WinnowInv, KGramsOf
  <1>6. SketchInv'
    <2>1. CASE fps = <<>>
      BY <2>1, <1>1, <1>2, FpHashesTypes DEF SketchInv, EmptySketch
    <2>2. CASE fps # <<>>
      <3>1. \A s \in Slots : SlotInv(s)'
        BY <1>1, <1>2, <1>3 DEF SlotInv, EmptySketch
      <3>2. QED
        BY <2>2, <3>1, <1>2 DEF SketchInv
    <2>3. QED
      BY <2>1, <2>2
  <1>7. QED
    BY <1>4, <1>5, <1>6 DEF FpIInv

(* SketchStep takes one hash into every slot.                              *)
LEMMA SketchKeepsFp ==
  ASSUME FpIInv, SketchStep
  PROVE  FpIInv'
  <1>1. PICK x \in todo :
          /\ sketch' = [s \in Slots |-> IF SlotHash(s, x) < sketch[s] THEN SlotHash(s, x) ELSE sketch[s]]
          /\ todo' = todo \ {x}
    BY DEF SketchStep
  <1>2. phase = "sketch" /\ UNCHANGED <<granule, kgrams, start, fps, phase>>
    BY DEF SketchStep
  <1>3. /\ FpHashes' = FpHashes /\ todo \subseteq FpHashes /\ FpHashes \subseteq Hashes
        /\ x \in Hashes /\ x \in FpHashes /\ sketch \in [Slots -> Hashes]
    BY <1>2, FpHashesTypes DEF FpHashes, FpIInv, FpTyping
  <1>4. FpTyping'
    <2>1. \A s \in Slots : SlotHash(s, x) \in Hashes
      BY <1>3, SlotHashTypes
    <2>2. sketch' \in [Slots -> Hashes]
      BY <1>1, <1>3, <2>1
    <2>3. QED
      BY <1>1, <1>2, <1>3, <2>2 DEF FpIInv, FpTyping
  <1>5. WinnowInv'
    BY <1>2 DEF FpIInv, WinnowInv, KGramsOf
  <1>6. ASSUME NEW s \in Slots
        PROVE  SlotInv(s)'
    <2> DEFINE h == [y \in Hashes |-> SlotHash(s, y)]
    <2>1. \A y \in Hashes : h[y] = SlotHash(s, y) /\ h[y] \in Nat /\ h[y] <= Modulus - 1
      BY SlotHashTypes, FingerprinterAssumption, SMTT(40) DEF Hashes
    <2> HIDE DEF h
    <2>2. sketch[s] \in Nat /\ Modulus \in Nat
      BY <1>3, FingerprinterAssumption DEF Hashes
    <2>3. /\ \A y \in FpHashes \ todo : sketch[s] <= h[y]
          /\ \/ todo = FpHashes /\ sketch[s] = Modulus - 1
             \/ \E y \in FpHashes \ todo : h[y] = sketch[s]
      BY <1>2, <1>3, <2>1 DEF FpIInv, SketchInv, SlotInv
    <2>4. sketch'[s] = IF h[x] < sketch[s] THEN h[x] ELSE sketch[s]
      BY <1>1, <1>3, <2>1
    <2>5. FpHashes \ todo' = (FpHashes \ todo) \cup {x}
      BY <1>1, <1>3
    <2>6. /\ \A y \in FpHashes \ todo' : sketch'[s] <= h[y]
          /\ \E y \in FpHashes \ todo' : h[y] = sketch'[s]
      <3>1. h[x] \in Nat /\ h[x] <= Modulus - 1 /\ \A y \in FpHashes : h[y] \in Nat
        BY <1>3, <2>1
      <3>2. \A y \in FpHashes \ todo' : sketch'[s] <= h[y]
        BY <2>2, <2>3, <2>4, <2>5, <3>1
      <3>3. CASE h[x] < sketch[s]
        BY <2>4, <2>5, <3>3, <3>2
      <3>4. CASE ~(h[x] < sketch[s]) /\ \E y \in FpHashes \ todo : h[y] = sketch[s]
        BY <2>4, <2>5, <3>4, <3>2
      <3>5. CASE ~(h[x] < sketch[s]) /\ sketch[s] = Modulus - 1
        BY <2>2, <2>4, <2>5, <3>5, <3>2, <3>1
      <3>6. QED
        BY <3>3, <3>4, <3>5, <2>3
    <2>7. QED
      BY <2>6, <2>1, <1>3 DEF SlotInv
  <1>7. SketchInv'
    BY <1>2, <1>6 DEF FpIInv, SketchInv
  <1>8. QED
    BY <1>4, <1>5, <1>7 DEF FpIInv

(* SketchDone has taken them all.                                          *)
LEMMA ItemKeepsFp ==
  ASSUME FpIInv, SketchDone
  PROVE  FpIInv'
  <1>1. /\ phase = "sketch" /\ phase' = "item" /\ todo = {}
        /\ UNCHANGED <<granule, kgrams, start, fps, todo, sketch>>
    BY DEF SketchDone
  <1>2. FpTyping'
    BY <1>1 DEF FpIInv, FpTyping, FpHashes
  <1>3. WinnowInv'
    BY <1>1 DEF FpIInv, WinnowInv, KGramsOf
  <1>4. SketchInv'
    BY <1>1, ZenonT(60) DEF FpIInv, SketchInv, SlotInv, FpHashes, SlotHash
  <1>5. QED
    BY <1>2, <1>3, <1>4 DEF FpIInv

-----------------------------------------------------------------------------
(* What follows from the invariant of the fingerprinter.                   *)

(* Winnowing has emitted what it should.                                   *)
LEMMA FpInvariantIsExact ==
  ASSUME FpIInv
  PROVE  FingerprintsExact
  <1>1. /\ kgrams \in Seq(Hashes) /\ fps \in Seq(Fingerprints) /\ start \in 0 .. Len(kgrams)
        /\ Winnowed(kgrams, fps, start) /\ DOMAIN fps = 1 .. Len(fps)
    BY DEF FpIInv, FpTyping, WinnowInv
  <1>2. \A q, s : MinAt(kgrams, q, s) <=> IsRightmostMin(q, s)
    BY DEF MinAt, IsRightmostMin
  <1>3. \A s \in 0 .. (start - 1) : \E n \in DOMAIN fps : IsRightmostMin(fps[n].pos, s)
    BY <1>1, <1>2 DEF Winnowed, Emits
  <1>4. \A n \in DOMAIN fps :
          /\ \E s \in 0 .. (start - 1) : IsRightmostMin(fps[n].pos, s)
          /\ fps[n].hash = kgrams[fps[n].pos + 1]
    BY <1>1, <1>2 DEF Winnowed, Chosen
  <1>5. \A n \in 2 .. Len(fps) : fps[n - 1].pos < fps[n].pos
    BY <1>1 DEF Winnowed
  <1>6. phase \in {"sketch", "item"} => start + Window > Len(kgrams)
    <2>1. SUFFICES ASSUME phase \in {"sketch", "item"} PROVE start + Window > Len(kgrams)
      OBVIOUS
    <2>2. fps # <<>> /\ ~WindowAt(kgrams, start)
      BY <2>1 DEF FpIInv, SketchInv, WinnowInv
    <2>3. start # 0 /\ WindowAt(kgrams, start - 1)
      BY <1>1, <2>2 DEF Winnowed, LastChosen
    <2>4. Window \in Nat /\ Window > 0
      BY <1>1, <2>3, WindowFacts
    <2>5. QED
      BY <2>2, <2>4, <1>1 DEF WindowAt
  <1>7. QED
    BY <1>3, <1>4, <1>5, <1>6 DEF FingerprintsExact

(* The minimum of a window in one run is that of its window in the other.  *)
LEMMA FpInvariantFindsRuns ==
  ASSUME TokenHashesFit, FpIInv
  PROVE  CommonRunFound
  <1>1. /\ kgrams \in Seq(Hashes) /\ fps \in Seq(Fingerprints) /\ start \in Nat
        /\ Winnowed(kgrams, fps, start) /\ DOMAIN fps = 1 .. Len(fps)
        /\ IsSequence(granule) /\ kgrams = KGramsOf(granule)
    BY DEF FpIInv, FpTyping, WinnowInv
  <1>2. SUFFICES ASSUME K > 0, Window > 0, phase \in {"sketch", "item", "none"},
                        NEW p \in 0 .. (Len(granule) - (K + Window - 1)),
                        NEW q \in 0 .. (Len(granule) - (K + Window - 1)), Run(p) = Run(q)
                 PROVE  \E n, o \in DOMAIN fps :
                          /\ fps[n].hash = fps[o].hash
                          /\ fps[n].pos \in p .. (p + Window - 1)
                          /\ fps[n].pos - p = fps[o].pos - q
    BY DEF CommonRunFound
  <1>3. /\ WindowAt(kgrams, p) /\ WindowAt(kgrams, q)
        /\ \A m \in 1 .. Window : kgrams[p + m] = kgrams[q + m]
    BY <1>1, <1>2, RunsHaveEqualKGrams
  <1>4. /\ Window \in Nat /\ p \in Nat /\ q \in Nat /\ Len(kgrams) \in Nat
        /\ \A m \in 1 .. Window : kgrams[p + m] \in Nat
    BY <1>1, <1>3, WindowFacts, FingerprinterAssumption, SMTT(40) DEF WindowAt, Hashes
  <1>5. p \in 0 .. (start - 1) /\ q \in 0 .. (start - 1)
    <2>1. ~WindowAt(kgrams, start)
      BY <1>2 DEF FpIInv, WinnowInv
    <2>2. QED
      BY <2>1, <1>1, <1>2, <1>3, <1>4 DEF WindowAt
  <1>6. PICK n \in 1 .. Len(fps), o \in 1 .. Len(fps) :
          MinAt(kgrams, fps[n].pos, p) /\ MinAt(kgrams, fps[o].pos, q)
    BY <1>1, <1>5 DEF Winnowed, Emits
  <1>7. PICK m \in 0 .. (Window - 1) : fps[n].pos = p + m
    <2>1. fps[n].pos \in p .. (p + Window - 1)
      BY <1>6 DEF MinAt
    <2>2. fps[n].pos - p \in 0 .. (Window - 1) /\ fps[n].pos = p + (fps[n].pos - p)
      BY <2>1, <1>4, SMTT(40)
    <2>3. QED
      BY <2>2
  <1>8. MinAt(kgrams, q + m, q)
    <2>1. q + m \in q .. (q + Window - 1)
      BY <1>4
    <2>2. ASSUME NEW r \in q .. (q + Window - 1)
          PROVE  \/ kgrams[q + m + 1] < kgrams[r + 1]
                 \/ kgrams[q + m + 1] = kgrams[r + 1] /\ r <= q + m
      <3>1. r - q + 1 \in 1 .. Window /\ m + 1 \in 1 .. Window
        BY <1>4
      <3>2. kgrams[p + (r - q + 1)] = kgrams[q + (r - q + 1)] /\ kgrams[p + (m + 1)] = kgrams[q + (m + 1)]
        BY <3>1, <1>3
      <3>3. p + (r - q) \in p .. (p + Window - 1)
        BY <1>4
      <3>4. \/ kgrams[p + m + 1] < kgrams[p + (r - q) + 1]
            \/ kgrams[p + m + 1] = kgrams[p + (r - q) + 1] /\ p + (r - q) <= p + m
        BY <3>3, <1>6, <1>7 DEF MinAt
      <3>5. /\ p + (r - q + 1) = p + (r - q) + 1 /\ q + (r - q + 1) = r + 1
            /\ p + (m + 1) = p + m + 1 /\ q + (m + 1) = q + m + 1
        BY <1>4
      <3>6. QED
        BY <3>2, <3>4, <3>5, <1>4
    <2>3. QED
      BY <2>1, <2>2 DEF MinAt
  <1>9. fps[o].pos = q + m
    BY <1>1, <1>3, <1>6, <1>8, MinIsUnique
  <1>10. fps[n].hash = kgrams[p + m + 1] /\ fps[o].hash = kgrams[q + m + 1]
    BY <1>1, <1>7, <1>9 DEF Winnowed, Chosen
  <1>11. kgrams[p + m + 1] = kgrams[q + m + 1]
    <2>1. m + 1 \in 1 .. Window /\ p + m + 1 = p + (m + 1) /\ q + m + 1 = q + (m + 1)
      BY <1>4
    <2>2. QED
      BY <2>1, <1>3
  <1>12. /\ fps[n].hash = fps[o].hash /\ fps[n].pos \in p .. (p + Window - 1)
         /\ fps[n].pos - p = fps[o].pos - q
    BY <1>4, <1>7, <1>9, <1>10, <1>11
  <1>13. QED
    BY <1>1, <1>12

(* The image of a slot comes from one hash alone.                          *)
LEMMA FpInvariantSketches ==
  ASSUME FpIInv
  PROVE  SketchExact
  <1>1. SUFFICES ASSUME phase = "item", NEW s \in Slots
                 PROVE  /\ \A x \in FpHashes : sketch[s] <= SlotHash(s, x)
                        /\ \E x \in FpHashes :
                             /\ SlotHash(s, x) = sketch[s]
                             /\ \A y \in Hashes \ {x} : SlotHash(s, y) # sketch[s]
    BY DEF SketchExact
  <1>2. todo = {} /\ FpHashes # {} /\ FpHashes \subseteq Hashes /\ SlotInv(s)
    BY <1>1, FpHashesTypes DEF FpIInv, FpTyping, SketchInv
  <1>3. \A x \in FpHashes : sketch[s] <= SlotHash(s, x)
    BY <1>2 DEF SlotInv
  <1>4. PICK x \in FpHashes : SlotHash(s, x) = sketch[s]
    BY <1>2 DEF SlotInv
  <1>5. \A y \in Hashes \ {x} : SlotHash(s, y) # sketch[s]
    BY <1>2, <1>4, SlotHashInjective
  <1>6. QED
    BY <1>3, <1>4, <1>5

-----------------------------------------------------------------------------
(* Markers and the bytes they match.                                       *)

(* A marker is a sequence that is not empty and holds no line break.       *)
LEMMA MarkerFacts ==
  ASSUME NEW mk \in Markers
  PROVE  /\ IsSequence(mk) /\ Len(mk) \in Nat /\ Len(mk) > 0
         /\ \A n \in 1 .. Len(mk) : mk[n] # Newline
  <1>1. IsSequence(mk) /\ mk # <<>> /\ \A n \in DOMAIN mk : mk[n] # Newline
    BY NormalizerAssumption
  <1>2. Len(mk) \in Nat /\ DOMAIN mk = 1 .. Len(mk)
    BY <1>1, SequenceFacts
  <1>3. Len(mk) # 0
    BY <1>1 DEF IsSequence
  <1>4. QED
    BY <1>1, <1>2, <1>3

(* A marker at the cursor ends within the text and spans no line break.    *)
LEMMA MarkerSpan ==
  ASSUME IsSequence(src), i \in 0 .. Len(src), NEW mk \in Markers, StartsWith(mk)
  PROVE  /\ i + Len(mk) \in (i + 1) .. Len(src)
         /\ \A n \in (i + 1) .. (i + Len(mk)) : src[n] # Newline
  <1>1. /\ Len(src) \in Nat /\ i \in Nat /\ Len(mk) \in Nat /\ Len(mk) > 0
        /\ \A n \in 1 .. Len(mk) : mk[n] # Newline
    BY MarkerFacts, SequenceFacts
  <1>2. i + Len(mk) <= Len(src) /\ SubSeq(src, i + 1, i + Len(mk)) = mk
    BY DEF StartsWith
  <1>3. \A n \in 1 .. Len(mk) : SubSeq(src, i + 1, i + Len(mk))[n] = src[i + n]
    <2>1. i + Len(mk) \in 0 .. Len(src) /\ i + Len(mk) - i = Len(mk)
      BY <1>1, <1>2
    <2>2. QED
      BY <1>1, <2>1, SubSeqSequence
  <1>4. ASSUME NEW n \in (i + 1) .. (i + Len(mk))
        PROVE  src[n] # Newline
    <2>1. n - i \in 1 .. Len(mk) /\ i + (n - i) = n
      BY <1>1
    <2>2. mk[n - i] = src[n] /\ mk[n - i] # Newline
      BY <2>1, <1>1, <1>2, <1>3
    <2>3. QED
      BY <2>2
  <1>5. QED
    BY <1>1, <1>2, <1>4

(* FirstMatch is one of the markers that match.                            *)
LEMMA FirstMatchMatches ==
  ASSUME IsSequence(src), i \in 0 .. Len(src), NEW needles \in Seq(Markers),
         Matching(needles) # {}
  PROVE  FirstMatch(needles) \in DOMAIN needles /\ StartsWith(needles[FirstMatch(needles)])
  <1> DEFINE hits == Matching(needles)
  <1>1. DOMAIN needles = 1 .. Len(needles) /\ Len(needles) \in Nat
    OBVIOUS
  <1>2. \A n \in hits : n \in DOMAIN needles /\ n \in Nat /\ StartsWith(needles[n])
    BY <1>1 DEF Matching
  <1>3. \A n \in hits : Len(needles[n]) \in Nat /\ Len(src) - (i + Len(needles[n])) \in Nat
    <2>1. TAKE n \in hits
    <2>2. needles[n] \in Markers /\ StartsWith(needles[n])
      BY <1>2
    <2>3. i + Len(needles[n]) \in (i + 1) .. Len(src) /\ Len(needles[n]) \in Nat
      BY <2>2, MarkerSpan, MarkerFacts
    <2>4. Len(src) \in Nat /\ i \in Nat
      BY SequenceFacts
    <2>5. QED
      BY <2>3, <2>4
  <1>4. i \in Nat /\ Len(src) \in Nat
    BY SequenceFacts
  <1> DEFINE rest == { Len(src) - (i + Len(needles[n])) : n \in hits }
  <1>5. PICK r \in rest : \A t \in rest : r <= t
    <2>1. rest \in SUBSET Nat /\ rest # {}
      BY <1>3
    <2> HIDE DEF rest
    <2>2. QED
      BY <2>1, LeastNumber
  <1>6. PICK longest \in hits : r = Len(src) - (i + Len(needles[longest]))
    BY <1>5
  <1>7. \A n \in hits : Len(needles[n]) <= Len(needles[longest])
    <2>1. TAKE n \in hits
    <2>2. r <= Len(src) - (i + Len(needles[n]))
      BY <1>5
    <2>3. QED
      BY <2>2, <1>3, <1>4, <1>6
  <1> DEFINE first == { n \in hits : Len(needles[n]) = Len(needles[longest]) }
  <1>8. PICK n \in first : \A o \in first : n <= o
    <2>1. first \in SUBSET Nat /\ first # {}
      BY <1>2, <1>6
    <2> HIDE DEF first
    <2>2. QED
      BY <2>1, LeastNumber
  <1>9. /\ n \in hits
        /\ \A o \in hits \ {n} :
             \/ Len(needles[o]) < Len(needles[n])
             \/ Len(needles[o]) = Len(needles[n]) /\ n < o
    <2>1. ASSUME NEW o \in hits, o # n, Len(needles[o]) = Len(needles[n])
          PROVE  n < o
      <3>1. o \in first
        BY <2>1, <1>8
      <3>2. QED
        BY <3>1, <2>1, <1>8, <1>2
    <2>2. QED
      BY <2>1, <1>3, <1>7, <1>8
  <1>10. FirstMatch(needles) \in hits
    BY <1>9 DEF FirstMatch
  <1>11. QED
    BY <1>2, <1>10

(* The markers of the table.                                               *)
LEMMA TableFacts ==
  /\ LineComments \in Seq(Markers) /\ BlockStarts \in Seq(Markers) /\ QuoteStarts \in Seq(Markers)
  /\ DOMAIN BlockStarts = DOMAIN BlockComments /\ DOMAIN QuoteStarts = DOMAIN Quotes
  /\ \A n \in DOMAIN BlockComments : BlockComments[n][1] \in Markers /\ BlockComments[n][2] \in Markers
  /\ \A n \in DOMAIN Quotes : Quotes[n].start \in Markers /\ Quotes[n].end \in Markers
  <1>1. /\ LineComments \in Seq(Markers)
        /\ BlockComments \in Seq(Markers \X Markers)
        /\ Quotes \in Seq([start : Markers, end : Markers, escape : BOOLEAN])
    BY NormalizerAssumption
  <1>2. \A n \in DOMAIN BlockComments : BlockComments[n][1] \in Markers /\ BlockComments[n][2] \in Markers
    <2>1. \A n \in DOMAIN BlockComments : BlockComments[n] \in Markers \X Markers
      BY <1>1
    <2>2. QED
      BY <2>1
  <1>3. \A n \in DOMAIN Quotes : Quotes[n].start \in Markers /\ Quotes[n].end \in Markers
    <2> DEFINE Quote == [start : Markers, end : Markers, escape : BOOLEAN]
    <2>1. \A q \in Quote : q.start \in Markers /\ q.end \in Markers
      OBVIOUS
    <2>2. Quotes \in Seq(Quote)
      BY <1>1
    <2> HIDE DEF Quote
    <2>3. \A n \in DOMAIN Quotes : Quotes[n] \in Quote
      BY <2>2
    <2>4. QED
      BY <2>1, <2>3
  <1>4. /\ DOMAIN BlockComments = 1 .. Len(BlockComments) /\ Len(BlockComments) \in Nat
        /\ DOMAIN Quotes = 1 .. Len(Quotes) /\ Len(Quotes) \in Nat
    BY <1>1
  <1>5. BlockStarts \in Seq(Markers) /\ DOMAIN BlockStarts = DOMAIN BlockComments
    BY <1>2, <1>4 DEF BlockStarts
  <1>6. QuoteStarts \in Seq(Markers) /\ DOMAIN QuoteStarts = DOMAIN Quotes
    BY <1>3, <1>4 DEF QuoteStarts
  <1>7. QED
    BY <1>1, <1>2, <1>3, <1>5, <1>6

(* A word ends within the text and spans no line break.                    *)
LEMMA WordSpan ==
  ASSUME IsSequence(src), i \in 0 .. Len(src), i < Len(src), src[i + 1] \in WordBytes
  PROVE  /\ WordEnd \in (i + 1) .. Len(src)
         /\ \A n \in (i + 1) .. WordEnd : src[n] # Newline
  <1>1. i \in Nat /\ Len(src) \in Nat
    BY SequenceFacts
  <1> DEFINE ends == { e \in (i + 1) .. Len(src) : e < Len(src) => src[e + 1] \notin WordBytes }
  <1>2. PICK e \in ends : \A f \in ends : e <= f
    <2>1. ends \in SUBSET Nat /\ Len(src) \in ends
      BY <1>1
    <2> HIDE DEF ends
    <2>2. QED
      BY <2>1, LeastNumber
  <1>3. \A n \in i .. (e - 1) : src[n + 1] \in WordBytes
    <2>1. ASSUME NEW n \in i .. (e - 1), src[n + 1] \notin WordBytes
          PROVE  FALSE
      <3>1. n # i /\ n \in ends /\ n < e
        BY <2>1, <1>1, <1>2
      <3>2. QED
        BY <3>1, <1>1, <1>2
    <2>2. QED
      BY <2>1
  <1>4. LET w == WordEnd
        IN  /\ w \in (i + 1) .. Len(src)
            /\ \A n \in i .. (w - 1) : src[n + 1] \in WordBytes
    BY <1>2, <1>3 DEF WordEnd
  <1>5. ASSUME NEW n \in (i + 1) .. WordEnd
        PROVE  src[n] # Newline
    <2>1. n - 1 \in i .. (WordEnd - 1) /\ n - 1 + 1 = n
      BY <1>1, <1>4
    <2>2. src[n] \in WordBytes
      BY <2>1, <1>4
    <2>3. QED
      BY <2>2, NormalizerAssumption
  <1>6. QED
    BY <1>4, <1>5

-----------------------------------------------------------------------------
(* The invariant of the lexer.                                             *)

LineClasses == {"code", "comment", "blank"}

LexTyping ==
  /\ IsSequence(src)
  /\ i \in 0 .. Len(src) /\ lineStart \in 0 .. i /\ tokenStart \in 0 .. i
  /\ mode \in LexModes \cup {"Literate", "Done"}
  /\ depth \in Nat
  /\ mode = "BlockComment" => depth > 0 /\ pairIdx \in DOMAIN BlockComments
  /\ mode = "Str" => quoteIdx \in DOMAIN Quotes /\ tokenStart < i
  /\ counts \in [LineClasses -> Nat]
  /\ line \in Nat /\ swallowed \in Nat

(* The tokens are apart and end before the byte at `to`.                   *)
Apart(ts, to) ==
  /\ IsSequence(ts)
  /\ \A n \in 1 .. Len(ts) :
       ts[n].start \in Nat /\ ts[n].end \in Nat /\ ts[n].start < ts[n].end /\ ts[n].end <= to
  /\ \A n \in 2 .. Len(ts) : ts[n - 1].end <= ts[n].start

(* A string's token will begin where the string does.                      *)
TokensInv == Apart(tokens, IF mode = "Str" THEN tokenStart ELSE i)

BreakSet(s, to) == { n \in 1 .. to : s[n] = Newline }

(* The lines committed, those an escape steps over counted apart.          *)
Accounts(s, to, total, skipped, number, first, last) ==
  /\ total + skipped = Cardinality(BreakSet(s, to)) + last
  /\ number = total - last + 1
  /\ first > 0 => s[first] = Newline

LastLine == IF mode = "Done" /\ (lineStart < Len(src) \/ lineHasCode \/ lineHasComment) THEN 1 ELSE 0

(* A byte of the line was seen exactly when the cursor is past its start.  *)
LinesInv ==
  /\ mode \in LexModes => (sawAnyByte <=> lineStart < i)
  /\ lines = <<>> => Accounts(src, i, Total, swallowed, line, lineStart, LastLine)

LexIInv == LexTyping /\ TokensInv /\ LinesInv

-----------------------------------------------------------------------------
(* Lines.                                                                  *)

(* How the number of line breaks grows with the cursor.                    *)
LEMMA BreakSetFacts ==
  ASSUME NEW s, NEW a \in Nat, NEW b \in Nat, a <= b
  PROVE  /\ IsFiniteSet(BreakSet(s, a)) /\ Cardinality(BreakSet(s, a)) \in Nat
         /\ (\A n \in (a + 1) .. b : s[n] # Newline) => BreakSet(s, b) = BreakSet(s, a)
         /\ s[a + 1] = Newline =>
              Cardinality(BreakSet(s, a + 1)) = Cardinality(BreakSet(s, a)) + 1
         /\ s[a + 1] # Newline => BreakSet(s, a + 1) = BreakSet(s, a)
  <1>1. IsFiniteSet(BreakSet(s, a)) /\ Cardinality(BreakSet(s, a)) \in Nat
    <2>1. IsFiniteSet(1 .. a)
      BY FS_Interval
    <2>2. BreakSet(s, a) \subseteq 1 .. a
      BY DEF BreakSet
    <2>3. IsFiniteSet(BreakSet(s, a))
      BY <2>1, <2>2, FS_Subset
    <2>4. QED
      BY <2>3, FS_CardinalityType
  <1>2. (\A n \in (a + 1) .. b : s[n] # Newline) => BreakSet(s, b) = BreakSet(s, a)
    BY DEF BreakSet
  <1>3. s[a + 1] = Newline =>
          Cardinality(BreakSet(s, a + 1)) = Cardinality(BreakSet(s, a)) + 1
    <2>1. SUFFICES ASSUME s[a + 1] = Newline
                   PROVE  Cardinality(BreakSet(s, a + 1)) = Cardinality(BreakSet(s, a)) + 1
      OBVIOUS
    <2>2. BreakSet(s, a + 1) = BreakSet(s, a) \cup {a + 1} /\ a + 1 \notin BreakSet(s, a)
      BY <2>1 DEF BreakSet
    <2>3. QED
      BY <1>1, <2>2, FS_AddElement
  <1>4. s[a + 1] # Newline => BreakSet(s, a + 1) = BreakSet(s, a)
    BY DEF BreakSet
  <1>5. QED
    BY <1>1, <1>2, <1>3, <1>4

(* Commit adds one line.                                                   *)
LEMMA CommitAddsOne ==
  ASSUME counts \in [LineClasses -> Nat], NEW a, NEW b, Commit(a, b)
  PROVE  /\ counts' \in [LineClasses -> Nat] /\ Total \in Nat /\ Total' = Total + 1
         /\ a => counts' = [counts EXCEPT !["code"] = @ + 1]
         /\ ~a /\ b => counts' = [counts EXCEPT !["comment"] = @ + 1]
         /\ ~a /\ ~b => counts' = [counts EXCEPT !["blank"] = @ + 1]
  <1> DEFINE class == IF a THEN "code" ELSE IF b THEN "comment" ELSE "blank"
  <1>1. class \in LineClasses /\ counts' = [counts EXCEPT ![class] = @ + 1]
    BY DEF Commit, LineClasses
  <1>2. counts' \in [LineClasses -> Nat]
    BY <1>1
  <1>3. \A c \in LineClasses : counts'[c] = IF c = class THEN counts[c] + 1 ELSE counts[c]
    BY <1>1
  <1>4. counts["code"] \in Nat /\ counts["comment"] \in Nat /\ counts["blank"] \in Nat
    BY DEF LineClasses
  <1>5. Total \in Nat /\ Total' = Total + 1
    BY <1>3, <1>4 DEF Total, LineClasses
  <1>6. /\ a => class = "code"
        /\ ~a /\ b => class = "comment"
        /\ ~a /\ ~b => class = "blank"
    OBVIOUS
  <1>7. QED
    BY <1>1, <1>2, <1>5, <1>6

(* The numbers of the account.                                             *)
LEMMA TotalTypes ==
  ASSUME LexTyping
  PROVE  /\ Total \in Nat /\ swallowed \in Nat /\ i \in Nat /\ Len(src) \in Nat
         /\ lineStart \in Nat /\ lineStart <= i /\ i <= Len(src) /\ line \in Nat
  BY SequenceFacts DEF LexTyping, Total, LineClasses

(* Bytes that break no line leave the account as it is.                    *)
LEMMA PlainBytesKeepLines ==
  ASSUME LexTyping, LinesInv, mode \in LexModes, mode' \in LexModes,
         i' \in (i + 1) .. Len(src), \A n \in (i + 1) .. i' : src[n] # Newline,
         sawAnyByte' = TRUE,
         UNCHANGED <<src, line, lineStart, counts, swallowed, lines>>
  PROVE  LinesInv'
  <1>1. i \in Nat /\ i' \in Nat /\ i <= i' /\ lineStart \in Nat /\ lineStart < i'
    BY TotalTypes
  <1>2. BreakSet(src, i') = BreakSet(src, i)
    BY <1>1, BreakSetFacts
  <1>3. Total' = Total /\ LastLine' = LastLine
    BY DEF Total, LastLine, LexModes
  <1>4. lines = <<>> => Accounts(src, i', Total, swallowed, line, lineStart, LastLine)
    BY <1>2 DEF LinesInv, Accounts
  <1>5. QED
    BY <1>1, <1>3, <1>4 DEF LinesInv

(* A line break commits a line and starts the next.                        *)
LEMMA LineBreakKeepsLines ==
  ASSUME LexTyping, LinesInv, LineBreak, UNCHANGED lines
  PROVE  LinesInv'
  <1>1. /\ mode \in LexModes /\ mode' \in LexModes /\ i < Len(src) /\ src[i + 1] = Newline
        /\ line' = line + 1 /\ lineStart' = i + 1 /\ i' = i + 1 /\ sawAnyByte' = FALSE
        /\ UNCHANGED <<src, swallowed>> /\ Commit(lineHasCode, lineHasComment)
    BY DEF LineBreak, LexModes
  <1>2. Total \in Nat /\ swallowed \in Nat /\ i \in Nat /\ line \in Nat /\ Total' = Total + 1
    BY <1>1, TotalTypes, CommitAddsOne DEF LexTyping
  <1>3. LastLine = 0 /\ LastLine' = 0
    BY <1>1 DEF LastLine, LexModes
  <1>4. /\ Cardinality(BreakSet(src, i)) \in Nat
        /\ Cardinality(BreakSet(src, i + 1)) = Cardinality(BreakSet(src, i)) + 1
    BY <1>1, <1>2, BreakSetFacts
  <1>5. lines = <<>> => Accounts(src, i + 1, Total + 1, swallowed, line + 1, i + 1, 0)
    BY <1>1, <1>2, <1>3, <1>4 DEF LinesInv, Accounts
  <1>6. QED
    BY <1>1, <1>2, <1>3, <1>5 DEF LinesInv

(* An escaped line break is swallowed: it is counted there.                *)
LEMMA SkipEscapedKeepsLines ==
  ASSUME LexTyping, LinesInv, SkipEscaped, UNCHANGED lines
  PROVE  LinesInv'
  <1>1. /\ mode \in LexModes /\ mode' = mode /\ src[i + 1] = Backslash /\ i + 1 < Len(src)
        /\ i' = i + 2 /\ sawAnyByte' = TRUE
        /\ swallowed' = IF src[i + 2] = Newline THEN swallowed + 1 ELSE swallowed
        /\ UNCHANGED <<src, line, lineStart, counts>>
    BY DEF SkipEscaped, InString, ByteIn, Escapes, LexModes
  <1>2. /\ Total \in Nat /\ swallowed \in Nat /\ i \in Nat /\ line \in Nat
        /\ lineStart \in Nat /\ lineStart <= i
    BY TotalTypes
  <1>3. Total' = Total /\ LastLine = 0 /\ LastLine' = 0
    BY <1>1 DEF Total, LastLine, LexModes
  <1>4. src[i + 1] # Newline
    BY <1>1, NormalizerAssumption
  <1>5. BreakSet(src, i + 1) = BreakSet(src, i) /\ Cardinality(BreakSet(src, i)) \in Nat
    BY <1>2, <1>4, BreakSetFacts
  <1>6. Cardinality(BreakSet(src, i + 2)) =
          Cardinality(BreakSet(src, i)) + (IF src[i + 2] = Newline THEN 1 ELSE 0)
    <2>1. i + 1 \in Nat /\ (i + 1) + 1 = i + 2
      BY <1>2
    <2>2. /\ src[i + 2] = Newline =>
               Cardinality(BreakSet(src, i + 2)) = Cardinality(BreakSet(src, i + 1)) + 1
          /\ src[i + 2] # Newline => BreakSet(src, i + 2) = BreakSet(src, i + 1)
      BY <2>1, BreakSetFacts
    <2>3. QED
      BY <2>2, <1>5
  <1>7. lines = <<>> => Accounts(src, i + 2, Total, swallowed', line, lineStart, 0)
    BY <1>1, <1>2, <1>3, <1>5, <1>6 DEF LinesInv, Accounts
  <1>8. QED
    BY <1>1, <1>2, <1>3, <1>7 DEF LinesInv

(* The last line is committed when something is on it.                     *)
LEMMA FinishKeepsLines ==
  ASSUME LexTyping, LinesInv, Finish, UNCHANGED lines
  PROVE  LinesInv'
  <1>1. /\ mode \in LexModes /\ mode' = "Done" /\ i >= Len(src)
        /\ UNCHANGED <<src, i, line, lineStart, lineHasCode, lineHasComment, swallowed>>
        /\ IF sawAnyByte \/ lineHasCode \/ lineHasComment
             THEN Commit(lineHasCode, lineHasComment)
             ELSE UNCHANGED counts
    BY DEF Finish, lineVars
  <1>2. /\ Total \in Nat /\ swallowed \in Nat /\ i \in Nat /\ line \in Nat
        /\ lineStart \in Nat /\ lineStart <= i /\ i = Len(src)
    BY <1>1, TotalTypes
  <1>3. sawAnyByte <=> lineStart < Len(src)
    BY <1>1, <1>2 DEF LinesInv
  <1>4. LastLine = 0 /\ LastLine' \in {0, 1} /\ Total' = Total + LastLine'
    <2>1. LastLine = 0
      BY <1>1 DEF LastLine, LexModes
    <2>2. CASE sawAnyByte \/ lineHasCode \/ lineHasComment
      <3>1. Total' = Total + 1
        BY <1>1, <2>2, CommitAddsOne DEF LexTyping
      <3>2. LastLine' = 1
        BY <1>1, <1>3, <2>2 DEF LastLine
      <3>3. QED
        BY <2>1, <3>1, <3>2
    <2>3. CASE ~(sawAnyByte \/ lineHasCode \/ lineHasComment)
      <3>1. Total' = Total
        BY <1>1, <2>3 DEF Total
      <3>2. LastLine' = 0
        BY <1>1, <1>3, <2>3 DEF LastLine
      <3>3. QED
        BY <2>1, <3>1, <3>2, <1>2
    <2>4. QED
      BY <2>2, <2>3
  <1>5. Cardinality(BreakSet(src, i)) \in Nat
    BY <1>2, BreakSetFacts
  <1>6. lines = <<>> => Accounts(src, i, Total', swallowed, line, lineStart, LastLine')
    <2>1. ASSUME NEW t, NEW l \in {0, 1}, t = Total + l, lines = <<>>
          PROVE  Accounts(src, i, t, swallowed, line, lineStart, l)
      <3>1. /\ Total + swallowed = Cardinality(BreakSet(src, i)) + 0
            /\ line = Total - 0 + 1
            /\ lineStart > 0 => src[lineStart] = Newline
        BY <1>4, <2>1 DEF LinesInv, Accounts
      <3>2. t + swallowed = Cardinality(BreakSet(src, i)) + l /\ line = t - l + 1
        BY <1>2, <1>5, <2>1, <3>1
      <3>3. QED
        BY <3>1, <3>2 DEF Accounts
    <2>2. QED
      BY <1>4, <2>1
  <1>7. QED
    BY <1>1, <1>6 DEF LinesInv, LexModes

-----------------------------------------------------------------------------
(* Tokens.                                                                 *)

(* Tokens that end before a byte end before a later one.                   *)
LEMMA ApartStays ==
  ASSUME NEW ts, NEW a \in Nat, NEW b \in Nat, a <= b, Apart(ts, a)
  PROVE  Apart(ts, b)
  BY DEF Apart

(* A token that starts behind the others is apart from them.               *)
LEMMA ApartGrows ==
  ASSUME NEW ts, NEW a \in Nat, Apart(ts, a), NEW t, t.start \in Nat, t.end \in Nat,
         a <= t.start, t.start < t.end
  PROVE  Apart(Append(ts, t), t.end)
  <1>1. Len(ts) \in Nat /\ IsSequence(ts)
    BY SequenceFacts DEF Apart
  <1>2. /\ IsSequence(Append(ts, t)) /\ Len(Append(ts, t)) = Len(ts) + 1
        /\ \A n \in 1 .. Len(ts) : Append(ts, t)[n] = ts[n]
        /\ Append(ts, t)[Len(ts) + 1] = t
    BY <1>1, AppendSequence
  <1> DEFINE us == Append(ts, t)
  <1> HIDE DEF us
  <1>3. ASSUME NEW n \in 1 .. Len(us)
        PROVE  us[n].start \in Nat /\ us[n].end \in Nat /\ us[n].start < us[n].end /\ us[n].end <= t.end
    <2>1. CASE n = Len(ts) + 1
      BY <1>2, <2>1 DEF us
    <2>2. CASE n # Len(ts) + 1
      <3>1. n \in 1 .. Len(ts) /\ us[n] = ts[n]
        BY <1>1, <1>2, <2>2 DEF us
      <3>2. QED
        BY <3>1 DEF Apart
    <2>3. QED
      BY <2>1, <2>2
  <1>4. ASSUME NEW n \in 2 .. Len(us)
        PROVE  us[n - 1].end <= us[n].start
    <2>1. n - 1 \in 1 .. Len(ts) /\ us[n - 1] = ts[n - 1]
      BY <1>1, <1>2 DEF us
    <2>2. CASE n = Len(ts) + 1
      <3>1. us[n] = t
        BY <1>2, <2>2 DEF us
      <3>2. ts[n - 1].end <= a /\ ts[n - 1].end \in Nat
        BY <2>1 DEF Apart
      <3>3. QED
        BY <2>1, <3>1, <3>2
    <2>3. CASE n # Len(ts) + 1
      <3>1. n \in 2 .. Len(ts) /\ us[n] = ts[n]
        BY <1>1, <1>2, <2>3 DEF us
      <3>2. QED
        BY <2>1, <3>1 DEF Apart
    <2>4. QED
      BY <2>2, <2>3
  <1>5. QED
    BY <1>2, <1>3, <1>4 DEF Apart, us

(* A token has the bytes it is made of.                                    *)
LEMMA TokenFacts ==
  ASSUME NEW k, NEW a, NEW b
  PROVE  Token(k, a, b).start = a /\ Token(k, a, b).end = b
  BY DEF Token

-----------------------------------------------------------------------------
(* The steps of the lexer keep its invariant.                              *)

(* LineBreak, in every state of the lexer.                                 *)
LEMMA LineBreakKeepsLexer ==
  ASSUME LexIInv, LineBreak, UNCHANGED lines
  PROVE  LexIInv'
  <1>1. /\ mode \in LexModes /\ i < Len(src) /\ i' = i + 1 /\ lineStart' = i + 1 /\ line' = line + 1
        /\ mode' = IF mode = "LineComment" THEN "Code" ELSE mode
        /\ UNCHANGED <<src, depth, pairIdx, quoteIdx, tokenStart, tokens, swallowed>>
        /\ Commit(lineHasCode, lineHasComment)
    BY DEF LineBreak, blockVars, strVars
  <1>2. LexTyping
    BY DEF LexIInv
  <1>3. i \in Nat /\ Len(src) \in Nat /\ line \in Nat /\ tokenStart \in Nat
    BY <1>2, TotalTypes DEF LexTyping
  <1>4. counts' \in [LineClasses -> Nat]
    BY <1>1, <1>2, CommitAddsOne DEF LexTyping
  <1>5. LexTyping'
    BY <1>1, <1>2, <1>3, <1>4 DEF LexTyping, LexModes, IsSequence
  <1>6. TokensInv'
    <2>1. CASE mode = "Str"
      BY <1>1, <2>1 DEF LexIInv, TokensInv
    <2>2. CASE mode # "Str"
      <3>1. Apart(tokens, i)
        BY <2>2 DEF LexIInv, TokensInv
      <3>2. Apart(tokens, i + 1)
        BY <3>1, <1>3, ApartStays
      <3>3. mode' # "Str"
        BY <1>1, <2>2
      <3>4. QED
        BY <1>1, <3>2, <3>3 DEF TokensInv
    <2>3. QED
      BY <2>1, <2>2
  <1>7. LinesInv'
    BY LineBreakKeepsLines DEF LexIInv
  <1>8. QED
    BY <1>5, <1>6, <1>7 DEF LexIInv

(* What a branch of the loop leaves alone when it reads bytes of a line    *)
(* and emits no token.                                                     *)
Reads ==
  /\ mode \in LexModes /\ mode' \in LexModes
  /\ i' \in (i + 1) .. Len(src)
  /\ \A n \in (i + 1) .. i' : src[n] # Newline
  /\ sawAnyByte' = TRUE
  /\ UNCHANGED <<src, line, lineStart, counts, swallowed, lines>>

(* A branch that reads and emits no token.                                 *)
LEMMA ReadingKeepsLexer ==
  ASSUME LexIInv, Reads, UNCHANGED tokens, depth' \in Nat, tokenStart' \in 0 .. i',
         mode' = "BlockComment" => depth' > 0 /\ pairIdx' \in DOMAIN BlockComments,
         mode' = "Str" => /\ quoteIdx' \in DOMAIN Quotes /\ tokenStart' < i'
                          /\ IF mode = "Str" THEN tokenStart' = tokenStart ELSE tokenStart' = i,
         mode' # "Str" => mode # "Str"
  PROVE  LexIInv'
  <1>1. /\ mode \in LexModes /\ mode' \in LexModes
        /\ i' \in (i + 1) .. Len(src) /\ \A n \in (i + 1) .. i' : src[n] # Newline
        /\ sawAnyByte' = TRUE
        /\ UNCHANGED <<src, line, lineStart, counts, swallowed, lines>>
    BY DEF Reads
  <1>2. LexTyping /\ LinesInv
    BY DEF LexIInv
  <1>3. i \in Nat /\ i' \in Nat /\ i <= i' /\ Len(src) \in Nat /\ lineStart \in Nat /\ lineStart <= i
    BY <1>1, <1>2, TotalTypes
  <1>4. LexTyping'
    BY <1>1, <1>2, <1>3 DEF LexTyping, IsSequence
  <1>5. TokensInv'
    <2>1. CASE mode = "Str"
      BY <1>1, <2>1 DEF LexIInv, TokensInv
    <2>2. CASE mode # "Str" /\ mode' = "Str"
      BY <1>1, <2>2 DEF LexIInv, TokensInv
    <2>3. CASE mode # "Str" /\ mode' # "Str"
      <3>1. Apart(tokens, i)
        BY <2>3 DEF LexIInv, TokensInv
      <3>2. Apart(tokens, i')
        BY <3>1, <1>3, ApartStays
      <3>3. QED
        BY <3>2, <2>3 DEF TokensInv
    <2>4. QED
      BY <2>1, <2>2, <2>3
  <1>6. LinesInv'
    BY <1>1, <1>2, PlainBytesKeepLines
  <1>7. QED
    BY <1>4, <1>5, <1>6 DEF LexIInv

(* A branch that emits the token from `from` to the new cursor.            *)
LEMMA EmittingKeepsLexer ==
  ASSUME LexIInv, Reads, mode' = "Code", UNCHANGED <<depth, tokenStart>>,
         NEW k, NEW from, from = IF mode = "Str" THEN tokenStart ELSE i,
         tokens' = Append(tokens, Token(k, from, i'))
  PROVE  LexIInv'
  <1>1. /\ mode \in LexModes /\ mode' \in LexModes
        /\ i' \in (i + 1) .. Len(src) /\ \A n \in (i + 1) .. i' : src[n] # Newline
        /\ sawAnyByte' = TRUE
        /\ UNCHANGED <<src, line, lineStart, counts, swallowed, lines>>
    BY DEF Reads
  <1>2. LexTyping /\ LinesInv
    BY DEF LexIInv
  <1>3. /\ i \in Nat /\ i' \in Nat /\ i < i' /\ Len(src) \in Nat /\ lineStart \in Nat /\ lineStart <= i
        /\ tokenStart \in Nat /\ tokenStart <= i
    BY <1>1, <1>2, TotalTypes DEF LexTyping
  <1>4. LexTyping'
    BY <1>1, <1>2, <1>3 DEF LexTyping, IsSequence
  <1>5. TokensInv'
    <2> DEFINE t == Token(k, from, i')
    <2>1. t.start = from /\ t.end = i'
      BY TokenFacts
    <2> HIDE DEF t
    <2>2. from \in Nat /\ from < i'
      BY <1>3
    <2>3. Apart(tokens, from)
      BY DEF LexIInv, TokensInv
    <2>4. Apart(Append(tokens, t), t.end)
      BY <2>1, <2>2, <2>3, <1>3, ApartGrows
    <2>5. QED
      BY <2>1, <2>4 DEF TokensInv, t
  <1>6. LinesInv'
    BY <1>1, <1>2, PlainBytesKeepLines
  <1>7. QED
    BY <1>4, <1>5, <1>6 DEF LexIInv

(* Any byte but a line break, and the marker or word there, is read.       *)
LEMMA ByteRead ==
  ASSUME LexIInv, NEW m \in LexModes, ByteIn(m), UNCHANGED lines
  PROVE  /\ mode = m /\ i \in Nat /\ Len(src) \in Nat /\ i < Len(src) /\ IsSequence(src)
         /\ i \in 0 .. Len(src) /\ depth \in Nat /\ tokenStart \in Nat /\ tokenStart <= i
         /\ (mode' \in LexModes /\ UNCHANGED swallowed) =>
              /\ i' = i + 1 => Reads
              /\ \A mk \in Markers : StartsWith(mk) /\ i' = i + Len(mk) => Reads
              /\ src[i + 1] \in WordBytes /\ i' = WordEnd => Reads
  <1>1. /\ mode = m /\ i < Len(src) /\ src[i + 1] # Newline /\ sawAnyByte' = TRUE
        /\ UNCHANGED <<src, line, lineStart, counts, lines>>
    BY DEF ByteIn
  <1>2. LexTyping
    BY DEF LexIInv
  <1>3. /\ i \in Nat /\ Len(src) \in Nat /\ IsSequence(src) /\ i \in 0 .. Len(src)
        /\ depth \in Nat /\ tokenStart \in Nat /\ tokenStart <= i
    BY <1>2, TotalTypes DEF LexTyping
  <1>4. ASSUME mode' \in LexModes, UNCHANGED swallowed,
               i' \in (i + 1) .. Len(src), \A n \in (i + 1) .. i' : src[n] # Newline
        PROVE  Reads
    BY <1>1, <1>4 DEF Reads
  <1>5. ASSUME mode' \in LexModes, UNCHANGED swallowed, i' = i + 1
        PROVE  Reads
    BY <1>1, <1>3, <1>4, <1>5
  <1>6. ASSUME mode' \in LexModes, UNCHANGED swallowed,
               NEW mk \in Markers, StartsWith(mk), i' = i + Len(mk)
        PROVE  Reads
    BY <1>3, <1>4, <1>6, MarkerSpan
  <1>7. ASSUME mode' \in LexModes, UNCHANGED swallowed, src[i + 1] \in WordBytes, i' = WordEnd
        PROVE  Reads
    BY <1>1, <1>3, <1>4, <1>7, WordSpan
  <1>8. QED
    BY <1>1, <1>3, <1>5, <1>6, <1>7

(* The branches in turn: the marker that opens a line comment,             *)
LEMMA OpenLineCommentKeepsLexer ==
  ASSUME LexIInv, OpenLineComment, UNCHANGED lines
  PROVE  LexIInv'
  <1>1. /\ ByteIn("Code") /\ Matching(LineComments) # {} /\ mode' = "LineComment"
        /\ i' = i + Len(LineComments[FirstMatch(LineComments)])
        /\ UNCHANGED <<depth, pairIdx, quoteIdx, tokenStart, tokens, swallowed>>
    BY DEF OpenLineComment, AtLineComment, blockVars, strVars
  <1>2. "Code" \in LexModes /\ mode' \in LexModes
    BY <1>1 DEF LexModes
  <1>3. mode = "Code" /\ i \in Nat /\ IsSequence(src) /\ i \in 0 .. Len(src) /\ Len(src) \in Nat
    BY <1>1, <1>2, ByteRead
  <1>4. /\ FirstMatch(LineComments) \in DOMAIN LineComments
        /\ StartsWith(LineComments[FirstMatch(LineComments)])
        /\ LineComments[FirstMatch(LineComments)] \in Markers
    BY <1>1, <1>3, TableFacts, FirstMatchMatches
  <1>5. Reads
    BY <1>1, <1>2, <1>4, ByteRead
  <1>6. depth \in Nat /\ tokenStart \in Nat /\ tokenStart <= i /\ i' > i /\ i' \in Nat
    BY <1>1, <1>2, <1>3, <1>5, ByteRead DEF Reads
  <1>7. QED
    BY <1>1, <1>3, <1>5, <1>6, ReadingKeepsLexer

(* a block comment,                                                        *)
LEMMA OpenBlockCommentKeepsLexer ==
  ASSUME LexIInv, OpenBlockComment, UNCHANGED lines
  PROVE  LexIInv'
  <1>1. /\ ByteIn("Code") /\ Matching(BlockStarts) # {} /\ mode' = "BlockComment" /\ depth' = 1
        /\ pairIdx' = FirstMatch(BlockStarts)
        /\ i' = i + Len(BlockStarts[FirstMatch(BlockStarts)])
        /\ UNCHANGED <<quoteIdx, tokenStart, tokens, swallowed>>
    BY DEF OpenBlockComment, AtBlockComment, strVars
  <1>2. "Code" \in LexModes /\ mode' \in LexModes
    BY <1>1 DEF LexModes
  <1>3. mode = "Code" /\ i \in Nat /\ IsSequence(src) /\ i \in 0 .. Len(src) /\ Len(src) \in Nat
    BY <1>1, <1>2, ByteRead
  <1>4. /\ FirstMatch(BlockStarts) \in DOMAIN BlockStarts
        /\ StartsWith(BlockStarts[FirstMatch(BlockStarts)])
        /\ BlockStarts[FirstMatch(BlockStarts)] \in Markers
    BY <1>1, <1>3, TableFacts, FirstMatchMatches
  <1>5. Reads
    BY <1>1, <1>2, <1>4, ByteRead
  <1>6. /\ depth' \in Nat /\ depth' > 0 /\ tokenStart \in Nat /\ tokenStart <= i /\ i' > i /\ i' \in Nat
        /\ pairIdx' \in DOMAIN BlockComments
    BY <1>1, <1>2, <1>3, <1>4, <1>5, ByteRead, TableFacts DEF Reads
  <1>7. QED
    BY <1>1, <1>3, <1>5, <1>6, ReadingKeepsLexer

(* or a string, whose start is where its token will begin;                 *)
LEMMA OpenStringKeepsLexer ==
  ASSUME LexIInv, OpenString, UNCHANGED lines
  PROVE  LexIInv'
  <1>1. /\ ByteIn("Code") /\ Matching(QuoteStarts) # {} /\ mode' = "Str" /\ tokenStart' = i
        /\ quoteIdx' = FirstMatch(QuoteStarts)
        /\ i' = i + Len(QuoteStarts[FirstMatch(QuoteStarts)])
        /\ UNCHANGED <<depth, pairIdx, tokens, swallowed>>
    BY DEF OpenString, AtQuote, blockVars
  <1>2. "Code" \in LexModes /\ mode' \in LexModes
    BY <1>1 DEF LexModes
  <1>3. mode = "Code" /\ i \in Nat /\ IsSequence(src) /\ i \in 0 .. Len(src) /\ Len(src) \in Nat
    BY <1>1, <1>2, ByteRead
  <1>4. /\ FirstMatch(QuoteStarts) \in DOMAIN QuoteStarts
        /\ StartsWith(QuoteStarts[FirstMatch(QuoteStarts)])
        /\ QuoteStarts[FirstMatch(QuoteStarts)] \in Markers
    BY <1>1, <1>3, TableFacts, FirstMatchMatches
  <1>5. Reads
    BY <1>1, <1>2, <1>4, ByteRead
  <1>6. depth \in Nat /\ i' > i /\ i' \in Nat /\ quoteIdx' \in DOMAIN Quotes
    BY <1>1, <1>2, <1>3, <1>4, <1>5, ByteRead, TableFacts DEF Reads
  <1>7. QED
    BY <1>1, <1>3, <1>5, <1>6, ReadingKeepsLexer

(* white space,                                                            *)
LEMMA SkipSpaceKeepsLexer ==
  ASSUME LexIInv, SkipSpace, UNCHANGED lines
  PROVE  LexIInv'
  <1>1. /\ ByteIn("Code")
        /\ i' = i + 1
        /\ UNCHANGED <<mode, depth, pairIdx, quoteIdx, tokenStart, tokens, swallowed>>
    BY DEF SkipSpace, PlainCode, blockVars, strVars
  <1>2. "Code" \in LexModes /\ mode' \in LexModes
    BY <1>1, ByteRead DEF LexModes
  <1>3. mode = "Code" /\ i \in Nat /\ Reads /\ depth \in Nat /\ tokenStart \in Nat /\ tokenStart <= i
    BY <1>1, <1>2, ByteRead
  <1>4. QED
    BY <1>1, <1>3, ReadingKeepsLexer

(* a word or a number,                                                     *)
LEMMA TakeWordKeepsLexer ==
  ASSUME LexIInv, TakeWord, UNCHANGED lines
  PROVE  LexIInv'
  <1>1. /\ ByteIn("Code")
        /\ src[i + 1] \in WordBytes /\ i' = WordEnd
        /\ UNCHANGED <<mode, depth, pairIdx, quoteIdx, tokenStart, swallowed>>
        /\ tokens' = Append(tokens, Token(IF src[i + 1] \in DigitBytes THEN "LitNumber" ELSE "Ident", i, i'))
    BY DEF TakeWord, PlainCode, blockVars, strVars
  <1>2. "Code" \in LexModes /\ mode' \in LexModes
    BY <1>1, ByteRead DEF LexModes
  <1>3. mode = "Code" /\ Reads
    BY <1>1, <1>2, ByteRead
  <1>4. QED
    BY <1>1, <1>3, EmittingKeepsLexer

(* and any other byte in code;                                             *)
LEMMA TakePunctuationKeepsLexer ==
  ASSUME LexIInv, TakePunctuation, UNCHANGED lines
  PROVE  LexIInv'
  <1>1. /\ ByteIn("Code")
        /\ i' = i + 1
        /\ UNCHANGED <<mode, depth, pairIdx, quoteIdx, tokenStart, swallowed>>
        /\ tokens' = Append(tokens, Token("Punctuation", i, i'))
    BY DEF TakePunctuation, PlainCode, blockVars, strVars
  <1>2. "Code" \in LexModes /\ mode' \in LexModes
    BY <1>1, ByteRead DEF LexModes
  <1>3. mode = "Code" /\ Reads
    BY <1>1, <1>2, ByteRead
  <1>4. QED
    BY <1>1, <1>3, EmittingKeepsLexer

(* a byte of a line comment;                                               *)
LEMMA InLineCommentKeepsLexer ==
  ASSUME LexIInv, InLineComment, UNCHANGED lines
  PROVE  LexIInv'
  <1>1. /\ ByteIn("LineComment")
        /\ i' = i + 1
        /\ UNCHANGED <<mode, depth, pairIdx, quoteIdx, tokenStart, tokens, swallowed>>
    BY DEF InLineComment, blockVars, strVars
  <1>2. "LineComment" \in LexModes /\ mode' \in LexModes
    BY <1>1, ByteRead DEF LexModes
  <1>3. mode = "LineComment" /\ i \in Nat /\ Reads /\ depth \in Nat /\ tokenStart \in Nat /\ tokenStart <= i
    BY <1>1, <1>2, ByteRead
  <1>4. QED
    BY <1>1, <1>3, ReadingKeepsLexer

(* the end of a block comment, which may be nested in another,             *)
LEMMA CloseBlockKeepsLexer ==
  ASSUME LexIInv, CloseBlock, UNCHANGED lines
  PROVE  LexIInv'
  <1>1. /\ ByteIn("BlockComment")
        /\ StartsWith(BlockComments[pairIdx][2])
        /\ i' = i + Len(BlockComments[pairIdx][2])
        /\ depth' = depth - 1
        /\ mode' = IF depth' = 0 THEN "Code" ELSE "BlockComment"
        /\ UNCHANGED <<pairIdx, quoteIdx, tokenStart, tokens, swallowed>>
    BY DEF CloseBlock, InBlock, strVars
  <1>2. "BlockComment" \in LexModes /\ mode' \in LexModes
    BY <1>1, ByteRead DEF LexModes
  <1>3. mode = "BlockComment" /\ i \in Nat /\ depth \in Nat /\ tokenStart \in Nat /\ tokenStart <= i
    BY <1>1, <1>2, ByteRead
  <1>4. depth > 0 /\ pairIdx \in DOMAIN BlockComments
    BY <1>3 DEF LexIInv, LexTyping
  <1>5. BlockComments[pairIdx][2] \in Markers
    BY <1>4, TableFacts
  <1>6. Reads
    BY <1>1, <1>2, <1>5, ByteRead
  <1>7. i' > i /\ i' \in Nat
    BY <1>3, <1>6, <1>1, <1>5, MarkerFacts
  <1>8. depth' \in Nat /\ (mode' = "BlockComment" => depth' > 0) /\ mode' # "Str"
    BY <1>1, <1>3, <1>4
  <1>9. QED
    BY <1>1, <1>3, <1>4, <1>6, <1>7, <1>8, ReadingKeepsLexer

(* the start of one within another,                                        *)
LEMMA NestBlockKeepsLexer ==
  ASSUME LexIInv, NestBlock, UNCHANGED lines
  PROVE  LexIInv'
  <1>1. /\ ByteIn("BlockComment")
        /\ StartsWith(BlockComments[pairIdx][1])
        /\ i' = i + Len(BlockComments[pairIdx][1])
        /\ depth' = depth + 1
        /\ mode' = mode
        /\ UNCHANGED <<pairIdx, quoteIdx, tokenStart, tokens, swallowed>>
    BY DEF NestBlock, InBlock, strVars
  <1>2. "BlockComment" \in LexModes /\ mode' \in LexModes
    BY <1>1, ByteRead DEF LexModes
  <1>3. mode = "BlockComment" /\ i \in Nat /\ depth \in Nat /\ tokenStart \in Nat /\ tokenStart <= i
    BY <1>1, <1>2, ByteRead
  <1>4. depth > 0 /\ pairIdx \in DOMAIN BlockComments
    BY <1>3 DEF LexIInv, LexTyping
  <1>5. BlockComments[pairIdx][1] \in Markers
    BY <1>4, TableFacts
  <1>6. Reads
    BY <1>1, <1>2, <1>5, ByteRead
  <1>7. i' > i /\ i' \in Nat
    BY <1>3, <1>6, <1>1, <1>5, MarkerFacts
  <1>8. depth' \in Nat /\ (mode' = "BlockComment" => depth' > 0) /\ mode' # "Str"
    BY <1>1, <1>3, <1>4
  <1>9. QED
    BY <1>1, <1>3, <1>4, <1>6, <1>7, <1>8, ReadingKeepsLexer

(* and any other byte in it;                                               *)
LEMMA SkipBlockByteKeepsLexer ==
  ASSUME LexIInv, SkipBlockByte, UNCHANGED lines
  PROVE  LexIInv'
  <1>1. /\ ByteIn("BlockComment")
        /\ i' = i + 1
        /\ UNCHANGED <<mode, depth, pairIdx, quoteIdx, tokenStart, tokens, swallowed>>
    BY DEF SkipBlockByte, InBlock, strVars
  <1>2. "BlockComment" \in LexModes /\ mode' \in LexModes
    BY <1>1, ByteRead DEF LexModes
  <1>3. mode = "BlockComment" /\ i \in Nat /\ Reads /\ depth \in Nat /\ tokenStart \in Nat /\ tokenStart <= i
    BY <1>1, <1>2, ByteRead
  <1>4. depth > 0 /\ pairIdx \in DOMAIN BlockComments
    BY <1>3 DEF LexIInv, LexTyping
  <1>5. QED
    BY <1>1, <1>3, <1>4, ReadingKeepsLexer

(* a byte of a string,                                                     *)
LEMMA SkipStringByteKeepsLexer ==
  ASSUME LexIInv, SkipStringByte, UNCHANGED lines
  PROVE  LexIInv'
  <1>1. /\ ByteIn("Str")
        /\ i' = i + 1
        /\ UNCHANGED <<mode, depth, pairIdx, quoteIdx, tokenStart, tokens, swallowed>>
    BY DEF SkipStringByte, InString, blockVars, strVars
  <1>2. "Str" \in LexModes /\ mode' \in LexModes
    BY <1>1, ByteRead DEF LexModes
  <1>3. mode = "Str" /\ i \in Nat /\ Reads /\ depth \in Nat /\ tokenStart \in Nat /\ tokenStart <= i
    BY <1>1, <1>2, ByteRead
  <1>4. quoteIdx \in DOMAIN Quotes /\ tokenStart < i
    BY <1>3 DEF LexIInv, LexTyping
  <1>5. QED
    BY <1>1, <1>3, <1>4, ReadingKeepsLexer

(* its end, which emits the token,                                         *)
LEMMA CloseStringKeepsLexer ==
  ASSUME LexIInv, CloseString, UNCHANGED lines
  PROVE  LexIInv'
  <1>1. /\ ByteIn("Str")
        /\ StartsWith(Quotes[quoteIdx].end)
        /\ i' = i + Len(Quotes[quoteIdx].end)
        /\ mode' = "Code"
        /\ UNCHANGED <<depth, pairIdx, quoteIdx, tokenStart, swallowed>>
        /\ tokens' = Append(tokens, Token("LitString", tokenStart, i'))
    BY DEF CloseString, InString, blockVars, strVars
  <1>2. "Str" \in LexModes /\ mode' \in LexModes
    BY <1>1, ByteRead DEF LexModes
  <1>3. mode = "Str"
    BY <1>1, <1>2, ByteRead
  <1>4. quoteIdx \in DOMAIN Quotes
    BY <1>3 DEF LexIInv, LexTyping
  <1>5. Quotes[quoteIdx].end \in Markers
    BY <1>4, TableFacts
  <1>6. Reads
    BY <1>1, <1>2, <1>5, ByteRead
  <1>7. QED
    BY <1>1, <1>3, <1>6, EmittingKeepsLexer

(* and an escape in it, which steps over two bytes.                        *)
LEMMA SkipEscapedKeepsLexer ==
  ASSUME LexIInv, SkipEscaped, UNCHANGED lines
  PROVE  LexIInv'
  <1>1. /\ ByteIn("Str") /\ i + 1 < Len(src) /\ i' = i + 2 /\ mode = "Str" /\ mode' = mode
        /\ swallowed' = IF src[i + 2] = Newline THEN swallowed + 1 ELSE swallowed
        /\ UNCHANGED <<src, line, lineStart, counts, depth, pairIdx, quoteIdx, tokenStart, tokens>>
    BY DEF SkipEscaped, InString, ByteIn, Escapes, blockVars, strVars
  <1>2. LexTyping
    BY DEF LexIInv
  <1>3. i \in Nat /\ Len(src) \in Nat /\ lineStart \in Nat /\ lineStart <= i /\ swallowed \in Nat
    BY <1>2, TotalTypes
  <1>4. i' \in 0 .. Len(src) /\ swallowed' \in Nat /\ i' > i /\ i' \in Nat
    BY <1>1, <1>3
  <1>5. LexTyping'
    BY <1>1, <1>2, <1>3, <1>4 DEF LexTyping, IsSequence
  <1>6. TokensInv'
    BY <1>1 DEF LexIInv, TokensInv
  <1>7. LinesInv'
    BY SkipEscapedKeepsLines DEF LexIInv
  <1>8. QED
    BY <1>5, <1>6, <1>7 DEF LexIInv

(* Past the loop.                                                          *)
LEMMA FinishKeepsLexer ==
  ASSUME LexIInv, Finish, UNCHANGED lines
  PROVE  LexIInv'
  <1>1. /\ mode \in LexModes /\ mode' = "Done" /\ i >= Len(src)
        /\ UNCHANGED <<src, i, line, lineStart, depth, pairIdx, quoteIdx, tokenStart, tokens, swallowed>>
        /\ IF sawAnyByte \/ lineHasCode \/ lineHasComment
             THEN Commit(lineHasCode, lineHasComment)
             ELSE UNCHANGED counts
    BY DEF Finish, lineVars, blockVars, strVars
  <1>2. LexTyping
    BY DEF LexIInv
  <1>3. counts' \in [LineClasses -> Nat]
    BY <1>1, <1>2, CommitAddsOne DEF LexTyping
  <1>4. LexTyping'
    BY <1>1, <1>2, <1>3 DEF LexTyping, IsSequence
  <1>5. TokensInv'
    <2>1. tokenStart \in Nat /\ i \in Nat /\ tokenStart <= i
      BY <1>2, TotalTypes DEF LexTyping
    <2>2. Apart(tokens, i)
      BY <2>1, ApartStays DEF LexIInv, TokensInv
    <2>3. QED
      BY <1>1, <2>2 DEF TokensInv
  <1>6. LinesInv'
    BY FinishKeepsLines DEF LexIInv
  <1>7. QED
    BY <1>4, <1>5, <1>6 DEF LexIInv

(* Every step of the lexer.                                                *)
LEMMA LexNextKeepsLexer ==
  ASSUME LexIInv, LexNext, UNCHANGED lines
  PROVE  LexIInv'
  BY LineBreakKeepsLexer, OpenLineCommentKeepsLexer, OpenBlockCommentKeepsLexer,
     OpenStringKeepsLexer, SkipSpaceKeepsLexer, TakeWordKeepsLexer, TakePunctuationKeepsLexer,
     InLineCommentKeepsLexer, CloseBlockKeepsLexer, NestBlockKeepsLexer, SkipBlockByteKeepsLexer,
     SkipEscapedKeepsLexer, CloseStringKeepsLexer, SkipStringByteKeepsLexer, FinishKeepsLexer
  DEF LexNext

-----------------------------------------------------------------------------
(* Literate text.                                                          *)

BlankLines(to) == { n \in 1 .. to : lines[n] = "blank" }
CommentLines(to) ==
  { n \in 1 .. to : IsFence(lines[n]) \/ (lines[n] = "prose" /\ ~InTaggedFence(n)) }

(* Every line read has been counted as the loop counts it.                 *)
LinesCounted ==
  lines # <<>> =>
    /\ counts.code = 0
    /\ counts.blank = Cardinality({ n \in 1 .. pos : lines[n] = "blank" })
    /\ counts.comment = Cardinality({ n \in 1 .. pos :
         IsFence(lines[n]) \/ (lines[n] = "prose" /\ ~InTaggedFence(n)) })

(* The two flags say whether the next line is in a fence, and in one that  *)
(* names its language.  A file is either lexed or read line by line.       *)
LiterateInv ==
  /\ lines \in Seq(LineKinds) /\ pos \in 0 .. Len(lines)
  /\ mode \in LexModes => lines = <<>>
  /\ mode = "Literate" => src = <<>> /\ ~lineHasCode /\ ~lineHasComment
  /\ inFence \in BOOLEAN /\ (inFence <=> Cardinality(FencesBefore(pos + 1)) % 2 = 1)
  /\ fenceHasLang \in BOOLEAN /\ (fenceHasLang <=> InTaggedFence(pos + 1))
  /\ LinesCounted

(* One line more is one fence more, or none.                               *)
LEMMA FencesGrow ==
  ASSUME NEW n \in Nat, n > 0
  PROVE  /\ IsFiniteSet(FencesBefore(n)) /\ Cardinality(FencesBefore(n)) \in Nat
         /\ IsFence(lines[n]) =>
              /\ FencesBefore(n + 1) = FencesBefore(n) \cup {n}
              /\ Cardinality(FencesBefore(n + 1)) = Cardinality(FencesBefore(n)) + 1
         /\ ~IsFence(lines[n]) => FencesBefore(n + 1) = FencesBefore(n)
  <1>1. IsFiniteSet(FencesBefore(n)) /\ Cardinality(FencesBefore(n)) \in Nat
    <2>1. IsFiniteSet(1 .. (n - 1)) /\ FencesBefore(n) \subseteq 1 .. (n - 1)
      BY FS_Interval DEF FencesBefore
    <2>2. IsFiniteSet(FencesBefore(n))
      BY <2>1, FS_Subset
    <2>3. QED
      BY <2>2, FS_CardinalityType
  <1>2. ASSUME IsFence(lines[n])
        PROVE  /\ FencesBefore(n + 1) = FencesBefore(n) \cup {n}
               /\ Cardinality(FencesBefore(n + 1)) = Cardinality(FencesBefore(n)) + 1
    <2>1. FencesBefore(n + 1) = FencesBefore(n) \cup {n} /\ n \notin FencesBefore(n)
      BY <1>2 DEF FencesBefore
    <2>2. QED
      BY <1>1, <2>1, FS_AddElement
  <1>3. ~IsFence(lines[n]) => FencesBefore(n + 1) = FencesBefore(n)
    BY DEF FencesBefore
  <1>4. QED
    BY <1>1, <1>2, <1>3

(* What a line does to the fence the next line is in.                      *)
LEMMA FenceAfterLine ==
  ASSUME NEW n \in Nat, n > 0
  PROVE  /\ IsFence(lines[n]) =>
              /\ Cardinality(FencesBefore(n + 1)) % 2 = 1 <=> ~(Cardinality(FencesBefore(n)) % 2 = 1)
              /\ InTaggedFence(n + 1) <=>
                   ~(Cardinality(FencesBefore(n)) % 2 = 1) /\ lines[n] = "tagged"
         /\ ~IsFence(lines[n]) =>
              /\ Cardinality(FencesBefore(n + 1)) % 2 = 1 <=> Cardinality(FencesBefore(n)) % 2 = 1
              /\ InTaggedFence(n + 1) <=> InTaggedFence(n)
  <1>1. Cardinality(FencesBefore(n)) \in Nat
    BY FencesGrow
  <1>2. ASSUME IsFence(lines[n])
        PROVE  /\ Cardinality(FencesBefore(n + 1)) % 2 = 1 <=> ~(Cardinality(FencesBefore(n)) % 2 = 1)
               /\ InTaggedFence(n + 1) <=>
                    ~(Cardinality(FencesBefore(n)) % 2 = 1) /\ lines[n] = "tagged"
    <2>1. Cardinality(FencesBefore(n + 1)) = Cardinality(FencesBefore(n)) + 1
      BY <1>2, FencesGrow
    <2>2. Cardinality(FencesBefore(n + 1)) % 2 = 1 <=> ~(Cardinality(FencesBefore(n)) % 2 = 1)
      BY <1>1, <2>1
    <2>3. n \in FencesBefore(n + 1) /\ \A p \in FencesBefore(n + 1) : p <= n /\ p \in Nat
      BY <1>2 DEF FencesBefore
    <2>4. (\E o \in FencesBefore(n + 1) :
             (\A p \in FencesBefore(n + 1) : p <= o) /\ lines[o] = "tagged") <=> lines[n] = "tagged"
      <3>1. \A o \in FencesBefore(n + 1) : (\A p \in FencesBefore(n + 1) : p <= o) <=> o = n
        BY <2>3
      <3>2. QED
        BY <2>3, <3>1
    <2>5. QED
      BY <2>2, <2>4 DEF InTaggedFence
  <1>3. ASSUME ~IsFence(lines[n])
        PROVE  /\ Cardinality(FencesBefore(n + 1)) % 2 = 1 <=> Cardinality(FencesBefore(n)) % 2 = 1
               /\ InTaggedFence(n + 1) <=> InTaggedFence(n)
    <2>1. FencesBefore(n + 1) = FencesBefore(n)
      BY <1>3, FencesGrow
    <2>2. QED
      BY <2>1 DEF InTaggedFence
  <1>4. QED
    BY <1>2, <1>3

(* What a line adds to the lines that are counted.                         *)
LEMMA CountedGrow ==
  ASSUME NEW n \in Nat
  PROVE  /\ Cardinality(BlankLines(n)) \in Nat /\ Cardinality(CommentLines(n)) \in Nat
         /\ IF lines[n + 1] = "blank"
              THEN Cardinality(BlankLines(n + 1)) = Cardinality(BlankLines(n)) + 1
              ELSE BlankLines(n + 1) = BlankLines(n)
         /\ IF IsFence(lines[n + 1]) \/ (lines[n + 1] = "prose" /\ ~InTaggedFence(n + 1))
              THEN Cardinality(CommentLines(n + 1)) = Cardinality(CommentLines(n)) + 1
              ELSE CommentLines(n + 1) = CommentLines(n)
  <1>1. IsFiniteSet(1 .. n) /\ BlankLines(n) \subseteq 1 .. n /\ CommentLines(n) \subseteq 1 .. n
    BY FS_Interval DEF BlankLines, CommentLines
  <1>2. IsFiniteSet(BlankLines(n)) /\ IsFiniteSet(CommentLines(n))
    BY <1>1, FS_Subset
  <1>3. Cardinality(BlankLines(n)) \in Nat /\ Cardinality(CommentLines(n)) \in Nat
    BY <1>2, FS_CardinalityType
  <1>4. n + 1 \notin BlankLines(n) /\ n + 1 \notin CommentLines(n)
    BY <1>1
  <1>5. IF lines[n + 1] = "blank" THEN BlankLines(n + 1) = BlankLines(n) \cup {n + 1}
                                  ELSE BlankLines(n + 1) = BlankLines(n)
    BY DEF BlankLines
  <1>6. IF IsFence(lines[n + 1]) \/ (lines[n + 1] = "prose" /\ ~InTaggedFence(n + 1))
          THEN CommentLines(n + 1) = CommentLines(n) \cup {n + 1}
          ELSE CommentLines(n + 1) = CommentLines(n)
    BY DEF CommentLines
  <1>7. /\ Cardinality(BlankLines(n) \cup {n + 1}) = Cardinality(BlankLines(n)) + 1
        /\ Cardinality(CommentLines(n) \cup {n + 1}) = Cardinality(CommentLines(n)) + 1
    BY <1>2, <1>4, FS_AddElement
  <1>8. QED
    BY <1>3, <1>5, <1>6, <1>7

(* The lines are counted and the flags set as LiterateInv says.            *)
Counted(c, to) ==
  /\ c["code"] = 0
  /\ c["blank"] = Cardinality(BlankLines(to)) /\ c["comment"] = Cardinality(CommentLines(to))

(* The same in these terms.                                              *)
LEMMA LiterateUnfolds ==
  ASSUME lines # <<>>
  PROVE  LinesCounted <=> Counted(counts, pos)
  BY DEF LinesCounted, Counted, BlankLines, CommentLines

(* What a line has to do to keep the invariant.                            *)
LEMMA LiterateStep ==
  ASSUME LiterateInv, lines # <<>>, pos \in Nat, pos < Len(lines), mode = "Literate",
         pos' = pos + 1, UNCHANGED <<lines, src, lineHasCode, lineHasComment, mode>>,
         inFence' \in BOOLEAN, inFence' <=> Cardinality(FencesBefore(pos + 2)) % 2 = 1,
         fenceHasLang' \in BOOLEAN, fenceHasLang' <=> InTaggedFence(pos + 2),
         Counted(counts', pos + 1)
  PROVE  LiterateInv'
  <1>1. /\ lines \in Seq(LineKinds)
        /\ mode \in LexModes => lines = <<>>
        /\ mode = "Literate" => src = <<>> /\ ~lineHasCode /\ ~lineHasComment
    BY DEF LiterateInv
  <1>2. /\ \A n : FencesBefore(n)' = FencesBefore(n)
        /\ \A n : InTaggedFence(n)' <=> InTaggedFence(n)
        /\ pos + 1 + 1 = pos + 2 /\ pos + 1 \in 0 .. Len(lines)
    BY <1>1 DEF FencesBefore, InTaggedFence, IsFence
  <1>3. LinesCounted'
    BY DEF LinesCounted, Counted, BlankLines, CommentLines, InTaggedFence, FencesBefore, IsFence
  <1>4. Cardinality(FencesBefore(pos + 1))' = Cardinality(FencesBefore(pos + 2))
    BY <1>2 DEF FencesBefore, IsFence
  <1>5. InTaggedFence(pos + 1)' <=> InTaggedFence(pos + 2)
    BY <1>2 DEF FencesBefore, IsFence, InTaggedFence
  <1>6. QED
    BY <1>1, <1>2, <1>3, <1>4, <1>5 DEF LiterateInv

(* Each kind of line does it.                                              *)
LEMMA LineKeepsLiterate ==
  ASSUME LexTyping, LiterateInv, BlankLine \/ FenceLine \/ ProseLine
  PROVE  LiterateInv'
  <1> DEFINE n == pos + 1
             kind == lines[n]
  <1>1. PICK kinds \in SUBSET LineKinds :
          /\ NextLine(kinds)
          /\ \/ /\ kinds = {"blank"} /\ Commit(FALSE, FALSE)
                /\ UNCHANGED <<inFence, fenceHasLang>>
             \/ /\ kinds = {"fence", "tagged"} /\ Commit(FALSE, TRUE)
                /\ inFence' = ~inFence /\ fenceHasLang' = (~inFence /\ kind = "tagged")
             \/ /\ kinds = {"prose"} /\ UNCHANGED <<inFence, fenceHasLang>>
                /\ IF inFence /\ fenceHasLang THEN UNCHANGED counts ELSE Commit(FALSE, TRUE)
    <2>1. {"blank"} \in SUBSET LineKinds /\ {"fence", "tagged"} \in SUBSET LineKinds
          /\ {"prose"} \in SUBSET LineKinds
      BY DEF LineKinds
    <2>2. CASE BlankLine
      BY <2>1, <2>2 DEF BlankLine
    <2>3. CASE FenceLine
      BY <2>1, <2>3 DEF FenceLine
    <2>4. CASE ProseLine
      BY <2>1, <2>4 DEF ProseLine
    <2>5. QED
      BY <2>2, <2>3, <2>4
  <1>2. /\ mode = "Literate" /\ pos \in Nat /\ pos < Len(lines) /\ kind \in kinds /\ pos' = pos + 1
        /\ UNCHANGED <<lines, src, lineHasCode, lineHasComment, mode>>
        /\ lines \in Seq(LineKinds) /\ lines # <<>>
    BY <1>1 DEF NextLine, LiterateInv, lineVars
  <1>3. /\ counts \in [LineClasses -> Nat] /\ n \in Nat /\ n > 0 /\ n + 1 = pos + 2
        /\ Counted(counts, pos)
    BY <1>2, LiterateUnfolds DEF LexTyping, LiterateInv
  <1>4. /\ inFence \in BOOLEAN /\ (inFence <=> Cardinality(FencesBefore(n)) % 2 = 1)
        /\ fenceHasLang \in BOOLEAN /\ (fenceHasLang <=> InTaggedFence(n))
    BY DEF LiterateInv
  <1> HIDE DEF n, kind
  <1>5. /\ Commit(FALSE, FALSE) => counts' = [counts EXCEPT !["blank"] = @ + 1]
        /\ Commit(FALSE, TRUE) => counts' = [counts EXCEPT !["comment"] = @ + 1]
    BY <1>3, CommitAddsOne
  <1>6. /\ Cardinality(BlankLines(pos)) \in Nat /\ Cardinality(CommentLines(pos)) \in Nat
        /\ IF kind = "blank"
             THEN Cardinality(BlankLines(n)) = Cardinality(BlankLines(pos)) + 1
             ELSE BlankLines(n) = BlankLines(pos)
        /\ IF IsFence(kind) \/ (kind = "prose" /\ ~InTaggedFence(n))
             THEN Cardinality(CommentLines(n)) = Cardinality(CommentLines(pos)) + 1
             ELSE CommentLines(n) = CommentLines(pos)
    BY <1>2, CountedGrow DEF n, kind
  <1>7. /\ IsFence(kind) =>
             /\ Cardinality(FencesBefore(n + 1)) % 2 = 1 <=> ~(Cardinality(FencesBefore(n)) % 2 = 1)
             /\ InTaggedFence(n + 1) <=>
                  ~(Cardinality(FencesBefore(n)) % 2 = 1) /\ kind = "tagged"
        /\ ~IsFence(kind) =>
             /\ Cardinality(FencesBefore(n + 1)) % 2 = 1 <=> Cardinality(FencesBefore(n)) % 2 = 1
             /\ InTaggedFence(n + 1) <=> InTaggedFence(n)
    BY <1>3, FenceAfterLine DEF kind
  <1>8. /\ inFence' \in BOOLEAN /\ (inFence' <=> Cardinality(FencesBefore(n + 1)) % 2 = 1)
        /\ fenceHasLang' \in BOOLEAN /\ (fenceHasLang' <=> InTaggedFence(n + 1))
        /\ Counted(counts', n)
    <2>1. counts["code"] \in Nat /\ counts["blank"] \in Nat /\ counts["comment"] \in Nat
      BY <1>3 DEF LineClasses
    <2>2. CASE kinds = {"blank"} /\ Commit(FALSE, FALSE) /\ UNCHANGED <<inFence, fenceHasLang>>
      <3>1. kind = "blank" /\ ~IsFence(kind)
        BY <1>2, <2>2 DEF IsFence
      <3>2. Counted(counts', n)
        BY <1>3, <1>5, <1>6, <2>1, <2>2, <3>1 DEF Counted, LineClasses
      <3>3. QED
        BY <1>4, <1>7, <2>2, <3>1, <3>2
    <2>3. CASE /\ kinds = {"fence", "tagged"} /\ Commit(FALSE, TRUE)
               /\ inFence' = ~inFence /\ fenceHasLang' = (~inFence /\ kind = "tagged")
      <3>1. kind # "blank" /\ IsFence(kind)
        BY <1>2, <2>3 DEF IsFence
      <3>2. Counted(counts', n)
        BY <1>3, <1>5, <1>6, <2>1, <2>3, <3>1 DEF Counted, LineClasses
      <3>3. QED
        BY <1>4, <1>7, <2>3, <3>1, <3>2
    <2>4. CASE /\ kinds = {"prose"} /\ UNCHANGED <<inFence, fenceHasLang>>
               /\ IF inFence /\ fenceHasLang THEN UNCHANGED counts ELSE Commit(FALSE, TRUE)
      <3>1. kind = "prose" /\ ~IsFence(kind)
        BY <1>2, <2>4 DEF IsFence
      <3>2. InTaggedFence(n) <=> inFence /\ fenceHasLang
        BY <1>4 DEF InTaggedFence
      <3>3. Counted(counts', n)
        <4>1. CASE InTaggedFence(n)
          BY <1>3, <1>6, <2>4, <3>1, <3>2, <4>1 DEF Counted
        <4>2. CASE ~InTaggedFence(n)
          BY <1>3, <1>5, <1>6, <2>1, <2>4, <3>1, <3>2, <4>2 DEF Counted, LineClasses
        <4>3. QED
          BY <4>1, <4>2
      <3>4. QED
        BY <1>4, <1>7, <2>4, <3>1, <3>3
    <2>5. QED
      BY <1>1, <2>2, <2>3, <2>4 DEF kind
  <1>9. QED
    BY <1>2, <1>3, <1>8, LiterateStep DEF n

-----------------------------------------------------------------------------
(* A text's bytes are a sequence.                                          *)

(* The function by which FlattenSeq computes, up to k.                     *)
IsFlatten(g, seqs, k) ==
  g = [m \in 1..k |-> IF m = 1 THEN seqs[m] ELSE g[m - 1] \o seqs[m]]

(* It exists: the recursion is on smaller numbers.                         *)
LEMMA FlattenExists ==
  ASSUME NEW seqs, NEW n \in Nat
  PROVE  \E g : IsFlatten(g, seqs, n)
  <1> DEFINE Bad == {k \in Nat : \A g : ~IsFlatten(g, seqs, k)}
  <1>1. SUFFICES ASSUME Bad # {} PROVE FALSE
    OBVIOUS
  <1>2. PICK k \in Bad : \A j \in Bad : k <= j
    <2> HIDE DEF Bad
    <2>1. Bad \in SUBSET Nat
      BY DEF Bad
    <2>2. QED
      BY <1>1, <2>1, LeastNumber
  <1>3. CASE k = 0
    <2>1. IsFlatten([m \in 1..0 |-> seqs[m]], seqs, 0)
      BY DEF IsFlatten
    <2>2. QED
      BY <1>2, <1>3, <2>1
  <1>4. CASE k # 0
    <2>1. k - 1 \in Nat /\ k - 1 \notin Bad
      BY <1>2, <1>4
    <2>2. PICK f : IsFlatten(f, seqs, k - 1)
      BY <2>1
    <2> DEFINE g == [m \in 1..k |-> IF m = k THEN IF k = 1 THEN seqs[k] ELSE f[k - 1] \o seqs[k]
                                    ELSE f[m]]
    <2>3. \A m \in 1..(k - 1) : f[m] = IF m = 1 THEN seqs[m] ELSE f[m - 1] \o seqs[m]
      BY <2>2, <2>1 DEF IsFlatten
    <2>4. \A m \in 1..k : g[m] = IF m = 1 THEN seqs[m] ELSE g[m - 1] \o seqs[m]
      <3>1. TAKE m \in 1..k
      <3>2. CASE m = k /\ k = 1
        BY <3>2
      <3>3. CASE m = k /\ k # 1
        <4>1. k - 1 \in 1..k /\ k - 1 # k
          BY <3>3, <2>1
        <4>2. g[k - 1] = f[k - 1]
          BY <4>1
        <4>3. QED
          BY <3>3, <4>2
      <3>4. CASE m # k
        <4>1. m \in 1..(k - 1) /\ g[m] = f[m]
          BY <3>4, <2>1
        <4>2. m # 1 => m - 1 \in 1..k /\ m - 1 # k
          BY <2>1
        <4>3. m # 1 => g[m - 1] = f[m - 1]
          BY <4>2
        <4>4. QED
          BY <4>1, <4>3, <2>3
      <3>5. QED
        BY <3>2, <3>3, <3>4
    <2>5. IsFlatten(g, seqs, k)
      <3>1. g = [m \in 1..k |-> g[m]]
        OBVIOUS
      <3> HIDE DEF g
      <3>2. QED
        BY <3>1, <2>4 DEF IsFlatten
    <2>6. QED
      BY <1>2, <2>5
  <1>5. QED
    BY <1>3, <1>4

(* A sequence of sequences is flattened to a sequence.                     *)
LEMMA FlattenIsSequence ==
  ASSUME NEW T, NEW seqs \in Seq(Seq(T))
  PROVE  FlattenSeq(seqs) \in Seq(T)
  <1>1. CASE Len(seqs) = 0
    <2>1. FlattenSeq(seqs) = seqs /\ seqs = <<>>
      BY <1>1 DEF FlattenSeq
    <2>2. QED
      BY <2>1
  <1>2. CASE Len(seqs) # 0
    <2> DEFINE n == Len(seqs)
               g == CHOOSE f : f = [m \in 1..n |->
                                      IF m = 1 THEN seqs[m] ELSE f[m - 1] \o seqs[m]]
               Bad == { k \in 1..n : g[k] \notin Seq(T) }
    <2>1. n \in Nat /\ n # 0
      BY <1>2
    <2>2. FlattenSeq(seqs) = g[n]
      BY <2>1 DEF FlattenSeq
    <2>3. IsFlatten(g, seqs, n)
      BY <2>1, FlattenExists DEF IsFlatten
    <2> HIDE DEF g
    <2>4. \A k \in 1..n : seqs[k] \in Seq(T)
      OBVIOUS
    <2>5. \A k \in 1..n : g[k] = IF k = 1 THEN seqs[k] ELSE g[k - 1] \o seqs[k]
      BY <2>3, <2>1 DEF IsFlatten
    <2>6. SUFFICES ASSUME Bad # {} PROVE FALSE
      BY <2>1, <2>2
    <2>7. PICK k \in Bad : \A j \in Bad : k <= j
      <3>1. Bad \in SUBSET Nat
        OBVIOUS
      <3> HIDE DEF Bad
      <3>2. QED
        BY <3>1, <2>6, LeastNumber
    <2>8. k # 1 /\ k \in 1..n /\ g[k] \notin Seq(T)
      BY <2>4, <2>5, <2>7
    <2>9. k - 1 \in 1..n /\ g[k - 1] \in Seq(T)
      BY <2>7, <2>8
    <2>10. seqs[k] \in Seq(T) /\ g[k] = g[k - 1] \o seqs[k]
      BY <2>4, <2>5, <2>8
    <2>11. \A a, b \in Seq(T) : a \o b \in Seq(T)
      OBVIOUS
    <2>12. g[k - 1] \o seqs[k] \in Seq(T)
      BY <2>9, <2>10, <2>11
    <2>13. QED
      BY <2>8, <2>10, <2>12
  <1>3. QED
    BY <1>1, <1>2

(* The pieces of a text are sequences of bytes.                            *)
LEMMA BytesAreSequence ==
  ASSUME NEW text \in Texts \cup {<<>>}
  PROVE  IsSequence(BytesOf(text))
  <1>1. IsSequence(text) /\ \A n \in DOMAIN text : IsSequence(text[n].bytes)
    <2>1. CASE text \in Texts
      BY <2>1, FilePipelineAssumption
    <2>2. CASE text = <<>>
      <3>1. text \in Seq({})
        BY <2>2
      <3>2. IsSequence(text) /\ Len(text) = 0
        BY <3>1, <2>2, SequenceOf
      <3>3. DOMAIN text = {}
        BY <3>2, SequenceFacts
      <3>4. QED
        BY <3>2, <3>3
    <2>3. QED
      BY <2>1, <2>2
  <1> DEFINE T == UNION { { text[n].bytes[m] : m \in DOMAIN text[n].bytes } : n \in DOMAIN text }
             seqs == [n \in DOMAIN text |-> text[n].bytes]
  <1>2. \A n \in DOMAIN text : text[n].bytes \in Seq(T)
    <2>1. ASSUME NEW n \in DOMAIN text
          PROVE  text[n].bytes \in Seq(T)
      <3> DEFINE S == { text[n].bytes[m] : m \in DOMAIN text[n].bytes }
      <3>1. text[n].bytes \in Seq(S)
        BY <1>1 DEF IsSequence
      <3>2. S \subseteq T
        OBVIOUS
      <3> HIDE DEF S, T
      <3>3. \A b \in Seq(S) : b \in Seq(T)
        BY <3>2
      <3>4. QED
        BY <3>1, <3>3
    <2>2. QED
      BY <2>1
  <1> HIDE DEF T
  <1>3. DOMAIN text = 1 .. Len(text) /\ Len(text) \in Nat
    BY <1>1, SequenceFacts
  <1>4. seqs \in Seq(Seq(T))
    BY <1>2, <1>3
  <1>5. FlattenSeq(seqs) \in Seq(T)
    BY <1>4, FlattenIsSequence
  <1>6. QED
    BY <1>5, SequenceOf DEF BytesOf

-----------------------------------------------------------------------------
(* The normalizer.                                                         *)

NormalizerIInv == LexIInv /\ LiterateInv

(* Before the first token.                                                 *)
LEMMA NothingIsApart == Apart(<<>>, 0)
  <1>1. <<>> \in Seq({}) /\ Len(<<>>) = 0
    OBVIOUS
  <1>2. IsSequence(<<>>)
    BY <1>1, SequenceOf
  <1>3. QED
    BY <1>1, <1>2 DEF Apart

(* The invariant of the lexer holds at the first byte.                     *)
LEMMA LexerStarts ==
  ASSUME IsSequence(src), i = 0, line = 1, lineStart = 0, sawAnyByte = FALSE,
         mode \in {"Code", "Literate"}, depth = 0, tokenStart = 0,
         tokens = <<>>, counts = NoLines, swallowed = 0
  PROVE  LexIInv
  <1>1. Len(src) \in Nat
    BY SequenceFacts
  <1>2. counts \in [LineClasses -> Nat] /\ Total = 0
    BY DEF NoLines, LineClasses, Total
  <1>3. LexTyping
    BY <1>1, <1>2 DEF LexTyping, LexModes
  <1>4. TokensInv
    BY NothingIsApart DEF TokensInv
  <1>5. Cardinality(BreakSet(src, 0)) = 0
    <2>1. BreakSet(src, 0) = {}
      BY DEF BreakSet
    <2>2. QED
      BY <2>1, FS_EmptySet
  <1>6. LastLine = 0
    BY DEF LastLine
  <1>7. LinesInv
    BY <1>2, <1>5, <1>6 DEF LinesInv, Accounts
  <1>8. QED
    BY <1>3, <1>4, <1>7 DEF LexIInv

(* That of literate text holds at the first line.                          *)
LEMMA LiterateStarts ==
  ASSUME lines \in Seq(LineKinds), pos = 0, inFence = FALSE, fenceHasLang = FALSE, counts = NoLines,
         mode \in LexModes => lines = <<>>,
         mode = "Literate" => src = <<>> /\ ~lineHasCode /\ ~lineHasComment
  PROVE  LiterateInv
  <1>1. Cardinality(FencesBefore(1)) = 0
    <2>1. FencesBefore(1) = {}
      BY DEF FencesBefore
    <2>2. QED
      BY <2>1, FS_EmptySet
  <1>2. ~InTaggedFence(1)
    BY <1>1 DEF InTaggedFence
  <1>3. Cardinality(BlankLines(0)) = 0 /\ Cardinality(CommentLines(0)) = 0
    <2>1. BlankLines(0) = {} /\ CommentLines(0) = {}
      BY DEF BlankLines, CommentLines
    <2>2. QED
      BY <2>1, FS_EmptySet
  <1>4. LinesCounted
    BY <1>3, LiterateUnfolds DEF Counted, NoLines, LinesCounted
  <1>5. pos \in 0 .. Len(lines) /\ pos + 1 = 1
    OBVIOUS
  <1>6. Cardinality(FencesBefore(pos + 1)) = 0 /\ ~InTaggedFence(pos + 1)
    BY <1>1, <1>2, <1>5
  <1>7. inFence <=> Cardinality(FencesBefore(pos + 1)) % 2 = 1
    BY <1>6
  <1>8. QED
    BY <1>4, <1>5, <1>6, <1>7 DEF LiterateInv

(* Both hold for whatever file is read.                                    *)
LEMMA NormalizerStarts ==
  ASSUME PipelineInit
  PROVE  NormalizerIInv
  <1>1. CASE IsLiterate(extension) /\ LiterateInit
    <2>1. lines \in Seq(LineKinds)
      BY <1>1, ProseAssumption DEF LiterateInit
    <2>2. IsSequence(src)
      <3>1. src \in Seq({})
        BY <1>1 DEF LiterateInit
      <3>2. QED
        BY <3>1, SequenceOf
    <2>3. LexIInv
      BY <1>1, <2>2, LexerStarts DEF LiterateInit
    <2>4. LiterateInv
      BY <1>1, <2>1, LiterateStarts DEF LiterateInit, LexModes
    <2>5. QED
      BY <2>3, <2>4 DEF NormalizerIInv
  <1>2. CASE src = BytesOf(written) /\ written \in Texts \cup {<<>>} /\ StandardInit
    <2>1. IsSequence(src)
      BY <1>2, BytesAreSequence
    <2>2. LexIInv
      BY <1>2, <2>1, LexerStarts DEF StandardInit, LexInit
    <2>3. LiterateInv
      <3>1. /\ lines = <<>> /\ lines \in Seq(LineKinds) /\ mode = "Code"
            /\ pos = 0 /\ inFence = FALSE /\ fenceHasLang = FALSE /\ counts = NoLines
        BY <1>2 DEF StandardInit, LexInit
      <3>2. QED
        BY <3>1, LiterateStarts
    <2>4. QED
      BY <2>2, <2>3 DEF NormalizerIInv
  <1>3. QED
    BY <1>1, <1>2 DEF PipelineInit

(* A line of literate text leaves the lexer alone but for its counts.      *)
LEMMA LineKeepsLexer ==
  ASSUME LexIInv, LiterateInv, BlankLine \/ FenceLine \/ ProseLine
  PROVE  LexIInv'
  <1>1. /\ mode = "Literate" /\ pos < Len(lines)
        /\ UNCHANGED <<lines, src, i, line, lineStart, lineHasCode, lineHasComment, sawAnyByte, mode,
                       depth, pairIdx, quoteIdx, tokenStart, tokens, swallowed>>
        /\ Commit(FALSE, FALSE) \/ Commit(FALSE, TRUE) \/ UNCHANGED counts
    BY DEF BlankLine, FenceLine, ProseLine, NextLine, lineVars, blockVars, strVars
  <1>2. LexTyping'
    <2>1. counts' \in [LineClasses -> Nat]
      BY <1>1, CommitAddsOne DEF LexIInv, LexTyping
    <2>2. QED
      BY <1>1, <2>1 DEF LexIInv, LexTyping, IsSequence
  <1>3. TokensInv'
    BY <1>1 DEF LexIInv, TokensInv
  <1>4. LinesInv'
    <2>1. pos \in 0 .. Len(lines)
      BY DEF LiterateInv
    <2>2. lines # <<>>
      BY <1>1, <2>1
    <2>3. lines' # <<>> /\ mode' \notin LexModes
      BY <1>1, <2>2 DEF LexModes
    <2>4. QED
      BY <2>3 DEF LinesInv
  <1>5. QED
    BY <1>2, <1>3, <1>4 DEF LexIInv

(* LiterateDone commits no line.                                           *)
LEMMA DoneKeepsNormalizer ==
  ASSUME NormalizerIInv, LiterateDone
  PROVE  NormalizerIInv'
  <1>1. /\ mode = "Literate" /\ mode' = "Done"
        /\ UNCHANGED <<src, i, line, lineStart, lineHasCode, lineHasComment, sawAnyByte,
                       depth, pairIdx, quoteIdx, tokenStart, tokens, counts, swallowed,
                       lines, pos, inFence, fenceHasLang>>
    BY DEF LiterateDone, lineVars, blockVars, strVars, fenceVars
  <1>2. LexIInv /\ LiterateInv
    BY DEF NormalizerIInv
  <1>3. LexTyping'
    BY <1>1, <1>2 DEF LexIInv, LexTyping, IsSequence
  <1>4. TokensInv'
    BY <1>1, <1>2 DEF LexIInv, TokensInv
  <1>5. LinesInv'
    <2>1. src = <<>> /\ ~lineHasCode /\ ~lineHasComment
      BY <1>1, <1>2 DEF LiterateInv
    <2>2. lineStart \in Nat
      BY <1>2, TotalTypes DEF LexIInv
    <2>3. LastLine = 0 /\ LastLine' = 0
      BY <1>1, <2>1, <2>2 DEF LastLine
    <2>4. mode' \notin LexModes /\ Total' = Total
      BY <1>1 DEF LexModes, Total
    <2>5. lines = <<>> => Accounts(src, i, Total, swallowed, line, lineStart, 0)
      BY <1>2, <2>3 DEF LexIInv, LinesInv
    <2>6. QED
      BY <1>1, <2>3, <2>4, <2>5 DEF LinesInv
  <1>6. LiterateInv'
    BY <1>1, <1>2 DEF LiterateInv, LinesCounted, InTaggedFence, FencesBefore, IsFence, LexModes
  <1>7. QED
    BY <1>3, <1>4, <1>5, <1>6 DEF NormalizerIInv, LexIInv

(* The lexer never turns to literate text.                                 *)
LEMMA LexNextModes ==
  ASSUME LexNext
  PROVE  mode \in LexModes /\ mode' \in LexModes \cup {"Done"}
  BY DEF LexNext, LineBreak, OpenLineComment, OpenBlockComment, OpenString, SkipSpace, TakeWord,
     TakePunctuation, PlainCode, InLineComment, CloseBlock, NestBlock, SkipBlockByte, InBlock,
     SkipEscaped, CloseString, SkipStringByte, InString, Finish, ByteIn, LexModes

(* Every step of the normalizer.                                           *)
LEMMA NormalizerStep ==
  ASSUME NormalizerIInv, NormalizerNext
  PROVE  NormalizerIInv'
  <1>1. LexIInv /\ LiterateInv
    BY DEF NormalizerIInv
  <1>2. CASE LexNext /\ UNCHANGED fenceVars
    <2>1. UNCHANGED <<lines, pos, inFence, fenceHasLang>>
      BY <1>2 DEF fenceVars
    <2>2. LexIInv'
      BY <1>1, <1>2, <2>1, LexNextKeepsLexer
    <2>3. mode \in LexModes /\ mode' \in LexModes \cup {"Done"} /\ lines = <<>>
      BY <1>1, <1>2, LexNextModes DEF LiterateInv
    <2>4. LiterateInv'
      BY <1>1, <2>1, <2>3 DEF LiterateInv, LinesCounted, InTaggedFence, FencesBefore, IsFence, LexModes
    <2>5. QED
      BY <2>2, <2>4 DEF NormalizerIInv
  <1>3. CASE BlankLine \/ FenceLine \/ ProseLine
    BY <1>1, <1>3, LineKeepsLexer, LineKeepsLiterate DEF NormalizerIInv, LexIInv
  <1>4. CASE LiterateDone
    BY <1>4, DoneKeepsNormalizer
  <1>5. QED
    BY <1>2, <1>3, <1>4 DEF NormalizerNext

(* The fingerprinter leaves the normalizer alone.                          *)
LEMMA NormalizerStutters ==
  ASSUME NormalizerIInv, UNCHANGED normalizerVars
  PROVE  NormalizerIInv'
  <1>1. UNCHANGED <<src, i, line, lineStart, lineHasCode, lineHasComment, sawAnyByte, mode,
                    depth, pairIdx, quoteIdx, tokenStart, tokens, counts, swallowed,
                    lines, pos, inFence, fenceHasLang>>
    BY DEF normalizerVars, lexVars, lineVars, blockVars, strVars, fenceVars
  <1>2. LexTyping'
    BY <1>1 DEF NormalizerIInv, LexIInv, LexTyping, IsSequence
  <1>3. TokensInv'
    BY <1>1 DEF NormalizerIInv, LexIInv, TokensInv
  <1>4. LinesInv'
    <2>1. LastLine' = LastLine /\ Total' = Total
      BY <1>1 DEF LastLine, Total
    <2>2. QED
      BY <1>1, <2>1 DEF NormalizerIInv, LexIInv, LinesInv
  <1>5. LiterateInv'
    BY <1>1 DEF NormalizerIInv, LiterateInv, LinesCounted, InTaggedFence, FencesBefore, IsFence
  <1>6. QED
    BY <1>2, <1>3, <1>4, <1>5 DEF NormalizerIInv, LexIInv

-----------------------------------------------------------------------------
(* The pipeline.                                                           *)

PipelineIInv == NormalizerIInv /\ FpIInv

(* The tokens of a function are a sequence again.                          *)
LEMMA FunctionTokens ==
  ASSUME IsSequence(tokens), NEW from, NEW to
  PROVE  IsSequence(TokensInByteRange(from, to))
  <1>1. ASSUME NEW byte
        PROVE  PartitionPoint(byte) \in 0 .. Len(tokens)
    <2> DEFINE failing == { n \in DOMAIN tokens : tokens[n].start >= byte }
    <2>1. Len(tokens) \in Nat /\ DOMAIN tokens = 1 .. Len(tokens)
      BY SequenceFacts
    <2>2. CASE failing = {}
      BY <2>1, <2>2 DEF PartitionPoint
    <2>3. CASE failing # {}
      <3>1. failing \in SUBSET Nat
        BY <2>1
      <3>2. \E n \in failing : \A o \in failing : n <= o
        <4> HIDE DEF failing
        <4>1. QED
          BY <2>3, <3>1, LeastNumber
      <3>3. PartitionPoint(byte) = (CHOOSE n \in failing : \A o \in failing : n <= o) - 1
        BY <2>3 DEF PartitionPoint
      <3>4. (CHOOSE n \in failing : \A o \in failing : n <= o) \in failing
        BY <3>2
      <3>5. QED
        BY <2>1, <3>3, <3>4
    <2>4. QED
      BY <2>2, <2>3
  <1>2. PartitionPoint(from) \in Nat /\ PartitionPoint(to) \in 0 .. Len(tokens)
    BY <1>1, SequenceFacts
  <1>3. QED
    BY <1>2, SubSeqSequence DEF TokensInByteRange

(* The two invariants hold of a file that was not read yet.                *)
LEMMA PipelineStarts ==
  ASSUME TokenHashesFit, PipelineInit
  PROVE  PipelineIInv
  BY NormalizerStarts, FpStarts DEF PipelineIInv, PipelineInit

(* Every step of the pipeline keeps them: a granule is made of tokens,     *)
(* which are a sequence.                                                   *)
LEMMA PipelineStep ==
  ASSUME TokenHashesFit, PipelineIInv, [PipelineNext]_pipelineVars
  PROVE  PipelineIInv'
  <1>1. NormalizerIInv /\ FpIInv /\ IsSequence(tokens)
    BY DEF PipelineIInv, NormalizerIInv, LexIInv, TokensInv, Apart
  <1>2. CASE Reject
    BY <1>1, <1>2, NormalizerStutters, NoItemKeepsFp DEF PipelineIInv, Reject
  <1>3. CASE Normalize
    BY <1>1, <1>3, NormalizerStep, FpStutters DEF PipelineIInv, Normalize
  <1>4. CASE NothingToIndex
    BY <1>1, <1>4, NormalizerStutters, NoItemKeepsFp DEF PipelineIInv, NothingToIndex, Lexed
  <1>5. CASE TakeFile
    BY <1>1, <1>5, NormalizerStutters, BeginKeepsFp DEF PipelineIInv, TakeFile
  <1>6. CASE TakeFunction
    <2>1. PICK from, to \in 0 .. Len(src) : Begin(TokensInByteRange(from, to))
      BY <1>6 DEF TakeFunction
    <2>2. FpIInv'
      BY <1>1, <2>1, FunctionTokens, BeginKeepsFp
    <2>3. QED
      BY <1>1, <1>6, <2>2, NormalizerStutters DEF PipelineIInv, TakeFunction
  <1>7. CASE Fingerprint
    <2>1. FingerprinterNext /\ UNCHANGED normalizerVars
      BY <1>7 DEF Fingerprint
    <2>2. FpIInv'
      BY <1>1, <2>1, WindowKeepsFp, DoneKeepsFp, SketchKeepsFp, ItemKeepsFp DEF FingerprinterNext
    <2>3. QED
      BY <1>1, <2>1, <2>2, NormalizerStutters DEF PipelineIInv
  <1>8. CASE UNCHANGED pipelineVars
    <2>1. UNCHANGED normalizerVars /\ UNCHANGED fpVars
      BY <1>8 DEF pipelineVars
    <2>2. QED
      BY <1>1, <2>1, NormalizerStutters, FpStutters DEF PipelineIInv
  <1>9. QED
    BY <1>2, <1>3, <1>4, <1>5, <1>6, <1>7, <1>8 DEF PipelineNext

(* So they always hold.                                                    *)
LEMMA PipelineInvariant ==
  ASSUME TokenHashesFit
  PROVE  PipelineSpec => []PipelineIInv
  <1>1. PipelineInit => PipelineIInv
    BY PipelineStarts
  <1>2. PipelineIInv /\ [PipelineNext]_pipelineVars => PipelineIInv'
    BY PipelineStep
  <1>3. QED
    BY <1>1, <1>2, PTL DEF PipelineSpec

(* The normalizer's part needs nothing of the hashes.                      *)
LEMMA NormalizerInvariant == PipelineSpec => []NormalizerIInv
  <1>1. PipelineInit => NormalizerIInv
    BY NormalizerStarts
  <1>2. NormalizerIInv /\ [PipelineNext]_pipelineVars => NormalizerIInv'
    <2>1. ASSUME NormalizerIInv, [PipelineNext]_pipelineVars
          PROVE  NormalizerIInv'
      <3>1. (Normalize /\ NormalizerNext) \/ UNCHANGED normalizerVars
        BY <2>1 DEF PipelineNext, Reject, Normalize, NothingToIndex, TakeFile, TakeFunction,
           Fingerprint, pipelineVars
      <3>2. QED
        BY <2>1, <3>1, NormalizerStep, NormalizerStutters
    <2>2. QED
      BY <2>1
  <1>3. QED
    BY <1>1, <1>2, PTL DEF PipelineSpec

(* They say that indices are in range and tokens in order.                 *)
LEMMA InvariantIsLexerConsistent ==
  ASSUME PipelineIInv
  PROVE  LexerConsistent
  <1>1. LexTyping /\ TokensInv /\ FpTyping
    BY DEF PipelineIInv, NormalizerIInv, LexIInv, FpIInv
  <1>2. /\ Len(src) \in Nat /\ i \in Nat /\ i <= Len(src)
        /\ lineStart \in 0 .. Len(src) /\ tokenStart \in 0 .. Len(src)
    BY <1>1, SequenceFacts DEF LexTyping
  <1>3. PipelineTypeOK
    <2>1. \A c \in DOMAIN counts : counts[c] \in Nat
      BY <1>1 DEF LexTyping
    <2>2. \A n \in DOMAIN kgrams : kgrams[n] \in Hashes
      BY <1>1 DEF FpTyping
    <2>3. QED
      BY <1>1, <1>2, <2>1, <2>2 DEF PipelineTypeOK, LexTyping, FpTyping
  <1>4. TokensOrdered
    <2>1. DOMAIN tokens = 1 .. Len(tokens)
      BY <1>1, SequenceFacts DEF TokensInv, Apart
    <2>2. Apart(tokens, i)
      <3>1. tokenStart \in Nat /\ tokenStart <= i
        BY <1>1, <1>2 DEF LexTyping
      <3>2. QED
        BY <1>1, <1>2, <3>1, ApartStays DEF TokensInv
    <2>3. mode = "Str" => Apart(tokens, tokenStart)
      BY <1>1 DEF TokensInv
    <2>4. QED
      BY <2>1, <2>2, <2>3 DEF TokensOrdered, Apart
  <1>5. QED
    BY <1>3, <1>4 DEF LexerConsistent

-----------------------------------------------------------------------------

(* Cursors and indices of the lexer stay in the file and its tables, and   *)
(* the tokens come in order and apart, for any text, any table of markers  *)
(* and any function: what tokens_in_byte_range searches by.                *)
THEOREM LexerStaysConsistent ==
  ASSUME TokenHashesFit
  PROVE  PipelineSpec => []LexerConsistent
  BY PipelineInvariant, InvariantIsLexerConsistent, PTL

(* Each line break ends one line, and text past the last one is one line   *)
(* more: the line counts and line numbers of process_standard.             *)
THEOREM LinesAreAccounted == PipelineSpec => []LinesAccounted
  <1>1. ASSUME LexTyping, LinesInv PROVE LinesAccounted
    <2>1. SUFFICES ASSUME lines = <<>>, swallowed = 0 PROVE LinesAccounted
      BY DEF LinesAccounted
    <2> DEFINE breaks == LineBreaks(i)
    <2>2. Total \in Nat /\ i \in Nat
      BY <1>1, TotalTypes DEF LexTyping
    <2>3. /\ Total + 0 = breaks + LastLine
          /\ line = Total - LastLine + 1
          /\ lineStart > 0 => src[lineStart] = Newline
      BY <1>1, <2>1 DEF LinesInv, Accounts, LineBreaks, BreakSet
    <2>4. breaks \in Nat
      <3>1. i <= i /\ Cardinality(BreakSet(src, i)) \in Nat
        BY <2>2, BreakSetFacts
      <3>2. QED
        BY <3>1 DEF LineBreaks, BreakSet
    <2>5. LastLine \in {0, 1} /\ (mode # "Done" => LastLine = 0)
      BY DEF LastLine
    <2>6. ASSUME mode = "Done", ~OpenAtLineStart
          PROVE  LastLine = IF lineStart < Len(src) THEN 1 ELSE 0
      BY <1>1, <2>6 DEF LastLine, OpenAtLineStart, LexTyping
    <2> HIDE DEF breaks
    <2>7. Total = breaks + LastLine /\ line = breaks + 1
      BY <2>2, <2>3, <2>4, <2>5
    <2>8. mode # "Done" => Total = breaks
      BY <2>4, <2>5, <2>7
    <2>9. QED
      BY <2>3, <2>6, <2>7, <2>8 DEF LinesAccounted, breaks
  <1>2. NormalizerIInv => LinesAccounted
    BY <1>1 DEF NormalizerIInv, LexIInv
  <1>3. QED
    BY <1>2, NormalizerInvariant, PTL

(* Literate text of any length is counted line by line, the fences that    *)
(* name a language left out: the line counts of process_literate, but for  *)
(* the blank lines of such fences.                                         *)
THEOREM LiterateLinesCounted == PipelineSpec => []LiterateCounts
  <1>1. LinesCounted => LiterateCounts
    BY DEF LinesCounted, LiterateCounts
  <1>2. NormalizerIInv => LiterateCounts
    BY <1>1 DEF NormalizerIInv, LiterateInv
  <1>3. QED
    BY <1>2, NormalizerInvariant, PTL

(* Winnowing emits the rightmost minimum of each window once and in order, *)
(* whatever the hashes, the k and the window.                              *)
THEOREM WinnowingExact ==
  ASSUME TokenHashesFit
  PROVE  PipelineSpec => []FingerprintsExact
  <1>1. PipelineIInv => FingerprintsExact
    BY FpInvariantIsExact DEF PipelineIInv
  <1>2. QED
    BY <1>1, PipelineInvariant, PTL

(* Two equal runs of k + w - 1 tokens share a fingerprint, at the same     *)
(* place in both: the guarantee the fingerprinter's documentation gives.   *)
THEOREM WinnowingGuarantee ==
  ASSUME TokenHashesFit
  PROVE  PipelineSpec => []CommonRunFound
  <1>1. PipelineIInv => CommonRunFound
    BY FpInvariantFindsRuns DEF PipelineIInv
  <1>2. QED
    BY <1>1, PipelineInvariant, PTL

(* A slot of a finished sketch holds the least image of the hashes, and    *)
(* one hash alone has that image: agreeing slots mean a common fingerprint.*)
THEOREM SketchesExact ==
  ASSUME TokenHashesFit
  PROVE  PipelineSpec => []SketchExact
  <1>1. PipelineIInv => SketchExact
    BY FpInvariantSketches DEF PipelineIInv
  <1>2. QED
    BY <1>1, PipelineInvariant, PTL
=============================================================================
