---------------------------- MODULE LiveEntries -----------------------------
(***************************************************************************)
(* What the LSH index promises to its callers, without ids, buckets,       *)
(* tombstones or compaction: a bag of live entries, grown one entry at a   *)
(* time and emptied one path at a time.  A query with a sketch answers     *)
(* with the live entries that agree with it on some whole band.            *)
(***************************************************************************)
EXTENDS Naturals

CONSTANTS
  Paths,        (* the files                                               *)
  Granules,     (* what tells the entries of one file apart                *)
  Sketches,     (* the MinHash sketches entries may have                   *)
  ShareBand(_, _)  (* two sketches agree on every row of some band         *)

VARIABLE live   (* how many live entries there are of each kind            *)

Entry == [path : Paths, granule : Granules, sketch : Sketches]

LiveInit == live = [e \in Entry |-> 0]

Insert(e) == live' = [live EXCEPT ![e] = @ + 1]

Drop(p) == live' = [e \in Entry |-> IF e.path = p THEN 0 ELSE live[e]]

LiveNext ==
  \/ \E e \in Entry : Insert(e)
  \/ \E p \in Paths : Drop(p)

LiveSpec == LiveInit /\ [][LiveNext]_live

(* The answer to a query: a sub-bag of the live entries.                   *)
Matches(s) == [e \in Entry |-> IF ShareBand(s, e.sketch) THEN live[e] ELSE 0]
=============================================================================
