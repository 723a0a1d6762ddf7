--------------------- MODULE IncrementalFindingsProofs ----------------------
(***************************************************************************)
(* The round trip, proved for any workspace, any contents and any          *)
(* similarity that is symmetric: among the files the walk visits,          *)
(* incremental updates never drift away from a scan from nothing.          *)
(***************************************************************************)
EXTENDS IncrementalFindings, TLAPS

(* Contents survive every step.                                            *)
LEMMA FindingsTypeStep ==
  ASSUME FindingsAssumption
  PROVE  FindingsTypeOK /\ [FindingsNext]_findingsVars => FindingsTypeOK'
  BY DEF FindingsAssumption, FindingsTypeOK, FindingsNext, findingsVars, Edit,
     ScanAll, UpdatePaths, Visited

(* Type correctness.                                                       *)
THEOREM FindingsTypeCorrect ==
  ASSUME FindingsAssumption
  PROVE  FindingsSpec => []FindingsTypeOK
  <1>1. FindingsInit => FindingsTypeOK
    BY DEF FindingsAssumption, FindingsInit, FindingsTypeOK
  <1>2. QED
    BY <1>1, FindingsTypeStep, PTL DEF FindingsSpec

(* Entries are items at paths.                                             *)
LEMMA EntryShape ==
  ASSUME NEW S, NEW files, NEW e \in EntriesOf(S, files)
  PROVE  e.path \in S /\ e.item \in AllItems /\ e.item \in Items[files[e.path]]
  BY DEF EntriesOf

(* An entry of a larger set of paths belongs to a smaller one if its path  *)
(* does and the content there is the same.                                 *)
LEMMA EntryMoves ==
  ASSUME NEW S, NEW T, NEW files, NEW filesT, NEW e \in EntriesOf(S, files),
         e.path \in T, files[e.path] = filesT[e.path]
  PROVE  e \in EntriesOf(T, filesT)
  BY DEF EntriesOf

(* A finding does not depend on the order of its endpoints.                *)
LEMMA FindingSymmetric ==
  ASSUME FindingsAssumption,
         NEW e, NEW f, e.item \in AllItems, f.item \in AllItems,
         IsFinding(e, f)
  PROVE  IsFinding(f, e) /\ Finding(f, e) = Finding(e, f)
  BY DEF FindingsAssumption, IsFinding, Partners, Finding, PairKey

(* Membership in FindingsBetween, with its witnesses.                      *)
LEMMA FindingsBetweenElim ==
  ASSUME NEW E, NEW F, NEW x \in FindingsBetween(E, F)
  PROVE  \E e \in E, f \in F : IsFinding(e, f) /\ x = Finding(e, f)
  BY DEF FindingsBetween

LEMMA FindingsBetweenIntro ==
  ASSUME NEW E, NEW F, NEW e \in E, NEW f \in F, IsFinding(e, f)
  PROVE  Finding(e, f) \in FindingsBetween(E, F)
  <1>1. <<e, f>> \in {x \in E \X F : IsFinding(x[1], x[2])}
    OBVIOUS
  <1>2. QED
    BY <1>1 DEF FindingsBetween

(* The paths of a touched pair include a changed one.                      *)
LEMMA TouchedHasChangedPath ==
  ASSUME NEW S, NEW files, NEW pk \in TouchedBefore(S) \cup TouchedAfter(S, files)
  PROVE  \E k \in pk : k.path \in S
  <1>1. PICK g \in [path : S, item : AllItems] :
          \E ix : g \in EntriesOf(S, ix) /\ Key(g) \in pk
    BY DEF TouchedBefore, TouchedAfter, PairKey, EntriesOf
  <1>2. Key(g).path = g.path
    BY DEF Key
  <1>3. QED
    BY <1>1, <1>2

(* The strengthening that is inductive: the findings are all those among   *)
(* the files last processed, excluded ones that an update was told of      *)
(* included.                                                               *)
AllFound == findings = FindingsAmong(indexed)

(* One update turns the findings of the old contents into those of the new *)
(* ones.                                                                   *)
LEMMA UpdateAllFound ==
  ASSUME FindingsAssumption, AllFound, NEW S \in SUBSET Paths, UpdatePaths(S)
  PROVE  AllFound'
  <1> DEFINE files == [p \in Paths |-> IF p \in S THEN disk[p] ELSE indexed[p]]
             touched == TouchedBefore(S) \cup TouchedAfter(S, files)
             kept == {x \in findings : x.pair \notin touched}
             again == FindingsBetween(EntriesOf(S, files), EntriesOf(Paths, files))
             old == EntriesOf(Paths, indexed)
             new == EntriesOf(Paths, files)
  <1>1. indexed' = files /\ findings' = kept \cup again
    BY DEF UpdatePaths
  <1>2. findings = FindingsBetween(old, old)
    BY DEF AllFound, FindingsAmong
  <1> HIDE DEF files, touched, kept, again, old, new
  <1>3. \A p \in Paths \ S : files[p] = indexed[p]
    BY DEF files
  <1>4. ASSUME NEW x \in kept
        PROVE  x \in FindingsBetween(new, new)
    <2>1. PICK e \in old, f \in old : IsFinding(e, f) /\ x = Finding(e, f)
      BY <1>2, <1>4, FindingsBetweenElim DEF kept
    <2>2. e.path \in Paths /\ e.item \in AllItems /\ f.path \in Paths /\ f.item \in AllItems
      BY EntryShape DEF old
    <2>3. e.path \notin S
      <3>1. SUFFICES ASSUME e.path \in S PROVE FALSE
        OBVIOUS
      <3>2. e \in EntriesOf(S, indexed)
        BY <3>1, EntryMoves DEF old
      <3>3. <<e, f>> \in {y \in EntriesOf(S, indexed) \X EntriesOf(Paths, indexed) :
                            Partners(y[1], y[2])}
        BY <2>1, <3>2 DEF IsFinding, old
      <3>4. PairKey(e, f) \in touched
        BY <3>3 DEF touched, TouchedBefore
      <3>5. QED
        BY <1>4, <2>1, <3>4 DEF kept, Finding
    <2>4. f.path \notin S
      <3>1. SUFFICES ASSUME f.path \in S PROVE FALSE
        OBVIOUS
      <3>2. f \in EntriesOf(S, indexed)
        BY <3>1, EntryMoves DEF old
      <3>3. Partners(f, e) /\ x = Finding(f, e)
        BY <2>1, <2>2, FindingSymmetric DEF IsFinding
      <3>4. <<f, e>> \in {y \in EntriesOf(S, indexed) \X EntriesOf(Paths, indexed) :
                            Partners(y[1], y[2])}
        BY <3>2, <3>3 DEF old
      <3>5. PairKey(f, e) \in touched
        BY <3>4 DEF touched, TouchedBefore
      <3>6. QED
        BY <1>4, <3>3, <3>5 DEF kept, Finding
    <2>5. e \in new /\ f \in new
      BY <1>3, <2>2, <2>3, <2>4, EntryMoves DEF old, new
    <2>6. QED
      BY <2>1, <2>5, FindingsBetweenIntro
  <1>5. ASSUME NEW x \in again
        PROVE  x \in FindingsBetween(new, new)
    <2>1. PICK e \in EntriesOf(S, files), f \in new :
            IsFinding(e, f) /\ x = Finding(e, f)
      BY <1>5, FindingsBetweenElim DEF again, new
    <2>2. e \in new
      BY EntryShape, EntryMoves DEF new
    <2>3. QED
      BY <2>1, <2>2, FindingsBetweenIntro
  <1>6. ASSUME NEW x \in FindingsBetween(new, new)
        PROVE  x \in kept \cup again
    <2>1. PICK e \in new, f \in new : IsFinding(e, f) /\ x = Finding(e, f)
      BY <1>6, FindingsBetweenElim
    <2>2. e.path \in Paths /\ e.item \in AllItems /\ f.path \in Paths /\ f.item \in AllItems
      BY EntryShape DEF new
    <2>3. CASE e.path \in S
      <3>1. e \in EntriesOf(S, files)
        BY <2>3, EntryMoves DEF new
      <3>2. QED
        BY <2>1, <3>1, FindingsBetweenIntro DEF again, new
    <2>4. CASE f.path \in S
      <3>1. f \in EntriesOf(S, files)
        BY <2>4, EntryMoves DEF new
      <3>2. IsFinding(f, e) /\ x = Finding(f, e)
        BY <2>1, <2>2, FindingSymmetric
      <3>3. QED
        BY <3>1, <3>2, FindingsBetweenIntro DEF again, new
    <2>5. CASE e.path \notin S /\ f.path \notin S
      <3>1. e \in old /\ f \in old
        BY <1>3, <2>2, <2>5, EntryMoves DEF old, new
      <3>2. x \in findings
        BY <1>2, <2>1, <3>1, FindingsBetweenIntro
      <3>3. x.pair = {Key(e), Key(f)}
        BY <2>1 DEF Finding, PairKey
      <3>4. \A k \in x.pair : k.path \notin S
        BY <2>5, <3>3 DEF Key
      <3>5. x.pair \notin touched
        BY <3>4, TouchedHasChangedPath DEF touched
      <3>6. QED
        BY <3>2, <3>5 DEF kept
    <2>6. QED
      BY <2>3, <2>4, <2>5
  <1>7. findings' = FindingsBetween(new, new)
    BY <1>1, <1>4, <1>5, <1>6
  <1>8. QED
    BY <1>1, <1>7 DEF AllFound, FindingsAmong, new

(* A new engine has no entries, hence no findings.                         *)
LEMMA InitAllFound ==
  ASSUME FindingsAssumption
  PROVE  FindingsInit => AllFound
  <1> SUFFICES ASSUME FindingsInit PROVE AllFound
    OBVIOUS
  <1>1. EntriesOf(Paths, indexed) = {}
    BY DEF FindingsAssumption, FindingsInit, EntriesOf
  <1>2. FindingsBetween({}, {}) = {}
    BY DEF FindingsBetween
  <1>3. QED
    BY <1>1, <1>2 DEF AllFound, FindingsAmong, FindingsInit

(* Every step keeps it.                                                    *)
LEMMA AllFoundStep ==
  ASSUME FindingsAssumption, AllFound, [FindingsNext]_findingsVars
  PROVE  AllFound'
  <1>1. ASSUME NEW p \in Paths, NEW c \in Contents, Edit(p, c)
        PROVE  AllFound'
    BY <1>1 DEF Edit, AllFound, FindingsAmong, EntriesOf
  <1>2. CASE ScanAll
    BY <1>2 DEF ScanAll, AllFound, ScanFindings, Visited, FindingsAmong, EntriesOf
  <1>3. ASSUME NEW S \in SUBSET Paths, UpdatePaths(S)
        PROVE  AllFound'
    BY <1>3, UpdateAllFound
  <1>4. CASE UNCHANGED findingsVars
    BY <1>4 DEF findingsVars, AllFound, FindingsAmong, EntriesOf
  <1>5. QED
    BY <1>1, <1>2, <1>3, <1>4 DEF FindingsNext

THEOREM FindingsAreAll ==
  ASSUME FindingsAssumption
  PROVE  FindingsSpec => []AllFound
  <1>1. AllFound /\ [FindingsNext]_findingsVars => AllFound'
    BY AllFoundStep
  <1>2. QED
    BY <1>1, InitAllFound, PTL DEF FindingsSpec

(* The walk sees the entries of the files that are not excluded.           *)
LEMMA VisitedEntries ==
  ASSUME FindingsAssumption, NEW files, NEW e
  PROVE  e \in EntriesOf(Paths, Visited(files)) <=>
           e \in EntriesOf(Paths, files) /\ e.path \notin Excluded
  <1>1. ASSUME NEW p \in Paths
        PROVE  /\ p \in Excluded => Items[Visited(files)[p]] = {}
               /\ p \notin Excluded => Visited(files)[p] = files[p]
    BY <1>1 DEF FindingsAssumption, Visited
  <1>2. QED
    BY <1>1 DEF EntriesOf

(* Findings are of visited files where both their ends are.                *)
LEMMA AllFoundRoundTrip ==
  ASSUME FindingsAssumption, AllFound
  PROVE  RoundTrip
  <1> DEFINE all == EntriesOf(Paths, indexed)
             seen == EntriesOf(Paths, Visited(indexed))
             shown == {x \in findings : \A k \in x.pair : k.path \notin Excluded}
  <1>1. findings = FindingsBetween(all, all)
    BY DEF AllFound, FindingsAmong
  <1>2. ScanFindings(indexed) = FindingsBetween(seen, seen)
    BY DEF ScanFindings, FindingsAmong
  <1>3. \A e : e \in seen <=> e \in all /\ e.path \notin Excluded
    BY VisitedEntries
  <1>4. \A e, f : (\A k \in Finding(e, f).pair : k.path \notin Excluded)
                 <=> e.path \notin Excluded /\ f.path \notin Excluded
    <2>1. \A e : Key(e).path = e.path
      BY DEF Key
    <2>2. \A e, f : Finding(e, f).pair = {Key(e), Key(f)}
      BY DEF Finding, PairKey
    <2>3. QED
      BY <2>1, <2>2
  <1> HIDE DEF all, seen
  <1>5. ASSUME NEW x \in shown
        PROVE  x \in FindingsBetween(seen, seen)
    <2>1. PICK e \in all, f \in all : IsFinding(e, f) /\ x = Finding(e, f)
      BY <1>1, <1>5, FindingsBetweenElim
    <2>2. e \in seen /\ f \in seen
      BY <1>3, <1>4, <1>5, <2>1
    <2>3. QED
      BY <2>1, <2>2, FindingsBetweenIntro
  <1>6. ASSUME NEW x \in FindingsBetween(seen, seen)
        PROVE  x \in shown
    <2>1. PICK e \in seen, f \in seen : IsFinding(e, f) /\ x = Finding(e, f)
      BY <1>6, FindingsBetweenElim
    <2>2. /\ e \in all /\ f \in all
          /\ e.path \notin Excluded /\ f.path \notin Excluded
      BY <1>3, <2>1
    <2>3. x \in findings
      BY <1>1, <2>1, <2>2, FindingsBetweenIntro
    <2>4. QED
      BY <1>4, <2>1, <2>2, <2>3
  <1>7. QED
    BY <1>2, <1>5, <1>6 DEF RoundTrip

(* After any edits, scans and updates in any batches, the findings between *)
(* files the walk visits are those a scan from nothing of the contents     *)
(* last processed reports, though the engine may have been told of         *)
(* excluded files, whose findings no scan reports.                         *)
THEOREM FindingsRoundTrip ==
  ASSUME FindingsAssumption
  PROVE  FindingsSpec => []RoundTrip
  <1>1. AllFound => RoundTrip
    BY AllFoundRoundTrip
  <1>2. QED
    BY <1>1, FindingsAreAll, PTL
=============================================================================
