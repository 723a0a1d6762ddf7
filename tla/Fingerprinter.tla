---------------------------- MODULE Fingerprinter ----------------------------
(***************************************************************************)
(* fingerprinter/src/lib.rs: hashes of k-grams, winnowing and the MinHash  *)
(* sketch, with build_item of engine/src/lib.rs that chains them.  The     *)
(* loop over windows and the loop over hashes are actions; a hash is a     *)
(* number below Modulus, 2^64 in the code, and sums and products wrap.     *)
(***************************************************************************)
EXTENDS Integers, Sequences, FiniteSets

CONSTANTS
  K, Window,        \* the k of a k-gram and the number of k-grams in a window
  Modulus,          \* the hashes are 0 .. Modulus - 1
  TokenHash(_),     \* token_hash: kind and kept text
  KGramHash(_),     \* the hash of K token hashes
  Slots,            \* SIGNATURE_SIZE hash functions
  MixA, MixB        \* what `mix` gives for them

Hashes == 0 .. (Modulus - 1)

\* The modulus is a power of two: it has no odd divisor but 1.
ASSUME FingerprinterAssumption ==
  /\ K \in Nat /\ Window \in Nat
  /\ Modulus \in Nat \ {0} /\ \A d \in 1 .. Modulus : Modulus % d = 0 /\ d % 2 = 1 => d = 1
  /\ \A hs \in [1 .. K -> Hashes] : KGramHash(hs) \in Hashes
  /\ MixA \in [Slots -> Hashes] /\ MixB \in [Slots -> Hashes]

VARIABLES
  granule,       \* the tokens that are fingerprinted
  kgrams,        \* their k-gram hashes
  start,         \* the next window
  fps,           \* the fingerprints emitted: hash and position
  todo,          \* unique hashes the sketch has not seen yet
  sketch,        \* the sketch
  phase          \* "idle", "winnow", "sketch", then "item" or "none"

fpVars == <<granule, kgrams, start, fps, todo, sketch, phase>>

-----------------------------------------------------------------------------
KGrams(hashes) ==
  IF K = 0 \/ Len(hashes) < K
    THEN <<>>
    ELSE [n \in 1 .. (Len(hashes) - K + 1) |-> KGramHash(SubSeq(hashes, n, n + K - 1))]

\* The rightmost minimum of the window at s, as a position from 0.
MinOfWindow(s) ==
  CHOOSE p \in s .. (s + Window - 1) :
    /\ \A q \in s .. (s + Window - 1) : kgrams[p + 1] <= kgrams[q + 1]
    /\ \A q \in (p + 1) .. (s + Window - 1) : kgrams[p + 1] < kgrams[q + 1]

\* Slip: The last window is left out.
WindowsButLast == IF Window = 0 THEN {} ELSE { s \in 0 .. Len(kgrams) : s + Window < Len(kgrams) }

\* The windows of the loop; there are none when the k-grams do not fill one.
Windows == IF Window = 0 THEN {} ELSE { s \in 0 .. Len(kgrams) : s + Window <= Len(kgrams) }
LastEmitted == IF fps = <<>> THEN -1 ELSE fps[Len(fps)].pos
FpHashes == { fps[n].hash : n \in DOMAIN fps }

\* Slip: The multipliers are used as they are.
OddOrEven(x) == x

\* `| 1` makes the multiplier odd, so that x -> a * x + b permutes the hashes.
Odd(x) == IF x % 2 = 0 THEN x + 1 ELSE x
SlotHash(s, x) == (Odd(MixA[s]) * x + MixB[s]) % Modulus
EmptySketch == [s \in Slots |-> Modulus - 1]

-----------------------------------------------------------------------------
FingerprinterInit ==
  /\ granule = <<>> /\ kgrams = <<>> /\ start = 0 /\ fps = <<>>
  /\ todo = {} /\ sketch = EmptySketch
  /\ phase = "idle"

Begin(toks) ==
  /\ phase = "idle"
  /\ granule' = toks
  /\ kgrams' = KGrams([n \in DOMAIN toks |-> TokenHash(toks[n])])
  /\ phase' = "winnow"
  /\ UNCHANGED <<start, fps, todo, sketch>>

\* Slip: Neighbours are compared by hash, so a repeated k-gram is emitted once.
WindowStepByHash ==
  /\ phase = "winnow"
  /\ start \in Windows
  /\ LET h == kgrams[MinOfWindow(start) + 1]
     IN  fps' = IF fps # <<>> /\ h = fps[Len(fps)].hash
                  THEN fps ELSE Append(fps, [hash |-> h, pos |-> MinOfWindow(start)])
  /\ start' = start + 1
  /\ UNCHANGED <<granule, kgrams, todo, sketch, phase>>

\* One window: neighbours that pick the same k-gram emit it once.
WindowStep ==
  /\ phase = "winnow"
  /\ start \in Windows
  /\ LET p == MinOfWindow(start)
     IN  fps' = IF p = LastEmitted THEN fps ELSE Append(fps, [hash |-> kgrams[p + 1], pos |-> p])
  /\ start' = start + 1
  /\ UNCHANGED <<granule, kgrams, todo, sketch, phase>>

\* build_item: a granule without fingerprints makes no item, the others are
\* sketched over the set of their hashes.
WinnowDone ==
  /\ phase = "winnow"
  /\ start \notin Windows
  /\ phase' = IF fps = <<>> THEN "none" ELSE "sketch"
  /\ todo' = FpHashes
  /\ UNCHANGED <<granule, kgrams, start, fps, sketch>>

\* update_sketch, in the order in which the hash set is iterated: any.
SketchStep ==
  /\ phase = "sketch"
  /\ \E x \in todo :
       /\ sketch' = [s \in Slots |-> IF SlotHash(s, x) < sketch[s] THEN SlotHash(s, x) ELSE sketch[s]]
       /\ todo' = todo \ {x}
  /\ UNCHANGED <<granule, kgrams, start, fps, phase>>

SketchDone ==
  /\ phase = "sketch" /\ todo = {}
  /\ phase' = "item"
  /\ UNCHANGED <<granule, kgrams, start, fps, todo, sketch>>

FingerprinterNext == WindowStep \/ WinnowDone \/ SketchStep \/ SketchDone

-----------------------------------------------------------------------------
\* Winnowing emits, in rising order and once each, the rightmost minima of the
\* windows seen so far and nothing else; in the end it has seen every window.
IsRightmostMin(p, s) ==
  /\ p \in s .. (s + Window - 1)
  /\ \A q \in s .. (s + Window - 1) :
       kgrams[p + 1] < kgrams[q + 1] \/ (kgrams[p + 1] = kgrams[q + 1] /\ q <= p)
FingerprintsExact ==
  /\ \A s \in 0 .. (start - 1) : \E n \in DOMAIN fps : IsRightmostMin(fps[n].pos, s)
  /\ \A n \in DOMAIN fps :
       /\ \E s \in 0 .. (start - 1) : IsRightmostMin(fps[n].pos, s)
       /\ fps[n].hash = kgrams[fps[n].pos + 1]
  /\ \A n \in 2 .. Len(fps) : fps[n - 1].pos < fps[n].pos
  /\ phase \in {"sketch", "item"} => start + Window > Len(kgrams)

\* The guarantee t = k + w - 1 of the crate's doc: two equal runs of that many
\* tokens share a fingerprint, chosen at the same place in both.
Run(p) == [n \in 1 .. (K + Window - 1) |-> TokenHash(granule[p + n])]
CommonRunFound ==
  K > 0 /\ Window > 0 /\ phase \in {"sketch", "item", "none"} =>
    \A p, q \in 0 .. (Len(granule) - (K + Window - 1)) :
      Run(p) = Run(q) =>
        \E n, o \in DOMAIN fps :
          /\ fps[n].hash = fps[o].hash
          /\ fps[n].pos \in p .. (p + Window - 1)
          /\ fps[n].pos - p = fps[o].pos - q

\* A finished sketch holds in each slot the least image of the hashes, whatever
\* order they came in, and exactly one of them gives it: two sketches that agree
\* in a slot share a fingerprint.
SketchExact ==
  phase = "item" =>
    \A s \in Slots :
      /\ \A x \in FpHashes : sketch[s] <= SlotHash(s, x)
      /\ \E x \in FpHashes :
           /\ SlotHash(s, x) = sketch[s]
           /\ \A y \in Hashes \ {x} : SlotHash(s, y) # sketch[s]
=============================================================================
