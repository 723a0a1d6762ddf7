------------------------ MODULE IncrementalFindings -------------------------
(***************************************************************************)
(* The incremental engine seen without LSH ids: the entries that each      *)
(* indexed file contributes, the findings among them, and the set algebra  *)
(* by which one update turns the old findings into the new ones (forget    *)
(* every pair the changed files touched, add the pairs found again).       *)
(*                                                                         *)
(* The module states what IncrementalEngine::update relies on; the module  *)
(* IncrementalEngine carries it out on the index and is checked to         *)
(* implement this one.                                                     *)
(***************************************************************************)
EXTENDS Naturals

CONSTANTS
  Paths,            (* the files                                           *)
  Excluded,         (* the files the workspace walk does not visit         *)
  Contents,         (* what a file may hold, absence included              *)
  Absent,           (* the file does not exist                             *)
  Items,            (* the items process_path makes of each content        *)
  ShareBand(_, _),  (* two items are in a common LSH bucket                *)
  SketchClose(_, _),(* their estimated Jaccard reaches min_jaccard         *)
  Verdict(_, _),    (* verify_and_classify on two items                    *)
  Rejected          (* ... whose exact Jaccard is below min_jaccard        *)

VARIABLES
  disk,             (* the files as they are                               *)
  indexed,          (* the files as they were last processed               *)
  findings          (* the current findings, each with the pair it is of   *)

findingsVars == <<disk, indexed, findings>>

AllItems == UNION {Items[c] : c \in Contents}

(* What makes a pair a finding does not depend on which endpoint is first, *)
(* and no item can be made of a file that does not exist.  The theorems    *)
(* assume it; IncrementalEngine's filters are proved to be such.           *)
FindingsAssumption ==
  /\ Excluded \subseteq Paths
  /\ Absent \in Contents
  /\ Items[Absent] = {}
  /\ \A i, j \in AllItems :
       /\ ShareBand(i, j) <=> ShareBand(j, i)
       /\ SketchClose(i, j) <=> SketchClose(j, i)
       /\ Verdict(i, j) = Verdict(j, i)

-----------------------------------------------------------------------------
(* An entry is an item at a path; its ItemKey does not tell apart two      *)
(* granules with the same name on the same lines.                          *)
EntriesOf(S, files) ==
  {e \in [path : S, item : AllItems] : e.item \in Items[files[e.path]]}

Key(e) == [path |-> e.path, granule |-> e.item.granule]

PairKey(e, f) == {Key(e), Key(f)}

Partners(e, f) == e # f /\ ShareBand(e.item, f.item)

(* same_endpoint is the filter on equal keys.                              *)
IsFinding(e, f) ==
  /\ Partners(e, f)
  /\ SketchClose(e.item, f.item)
  /\ Verdict(e.item, f.item) # Rejected
  /\ Key(e) # Key(f)

Finding(e, f) == [pair |-> PairKey(e, f), verdict |-> Verdict(e.item, f.item)]

FindingsBetween(E, F) ==
  {Finding(ef[1], ef[2]) : ef \in {x \in E \X F : IsFinding(x[1], x[2])}}

(* What verifying every pair of entries of the given files finds.          *)
FindingsAmong(files) ==
  FindingsBetween(EntriesOf(Paths, files), EntriesOf(Paths, files))

(* What a scan from nothing reports: the walk does not see excluded files. *)
Visited(files) == [p \in Paths |-> IF p \in Excluded THEN Absent ELSE files[p]]

ScanFindings(files) == FindingsAmong(Visited(files))

-----------------------------------------------------------------------------
FindingsInit ==
  /\ disk \in [Paths -> Contents]
  /\ indexed = [p \in Paths |-> Absent]
  /\ findings = {}

Edit(p, c) ==
  /\ disk' = [disk EXCEPT ![p] = c]
  /\ UNCHANGED <<indexed, findings>>

ScanAll ==
  /\ indexed' = Visited(disk)
  /\ findings' = ScanFindings(disk)
  /\ UNCHANGED disk

(* The pairs that may have been findings because of an entry of S: all its *)
(* band partners, whatever their estimate.                                 *)
TouchedBeforeOutside(S) ==
  {PairKey(ef[1], ef[2]) :
     ef \in {x \in EntriesOf(S, indexed) \X EntriesOf(Paths \ S, indexed) :
               Partners(x[1], x[2])}}

TouchedBefore(S) ==
  {PairKey(ef[1], ef[2]) :
     ef \in {x \in EntriesOf(S, indexed) \X EntriesOf(Paths, indexed) :
               Partners(x[1], x[2])}}

(* The pairs an entry of S may be in afterwards.                           *)
TouchedAfter(S, files) ==
  {PairKey(ef[1], ef[2]) :
     ef \in {x \in EntriesOf(S, files) \X EntriesOf(Paths, files) :
               Partners(x[1], x[2]) /\ SketchClose(x[1].item, x[2].item)}}

UpdatePaths(S) ==
  LET files == [p \in Paths |-> IF p \in S THEN disk[p] ELSE indexed[p]]
      touched == TouchedBefore(S) \cup TouchedAfter(S, files)
  IN  /\ indexed' = files
      /\ findings' = {x \in findings : x.pair \notin touched}
                     \cup FindingsBetween(EntriesOf(S, files),
                                          EntriesOf(Paths, files))
      /\ UNCHANGED disk

FindingsNext ==
  \/ \E p \in Paths, c \in Contents : Edit(p, c)
  \/ ScanAll
  \/ \E S \in SUBSET Paths : UpdatePaths(S)

FindingsSpec == FindingsInit /\ [][FindingsNext]_findingsVars

-----------------------------------------------------------------------------
(* Files keep holding contents.                                            *)
FindingsTypeOK ==
  /\ disk \in [Paths -> Contents]
  /\ indexed \in [Paths -> Contents]

(* The round trip: after any sequence of edits, scans and updates, the     *)
(* incremental findings between files the walk visits are those a scan     *)
(* from nothing of the contents last processed reports.                    *)
RoundTrip ==
  {x \in findings : \A k \in x.pair : k.path \notin Excluded} = ScanFindings(indexed)

(* What the comment on IncrementalEngine says: a full scan is "always      *)
(* equivalent to running an update covering every path".  An update reads  *)
(* any file it is told of, one that the walk excludes too, and no scan     *)
(* reports its findings.                                                   *)
UpdateIsRescan == indexed = disk => findings = ScanFindings(disk)
=============================================================================
