---------------------------- MODULE OneShotScan -----------------------------
(***************************************************************************)
(* scan in engine/src/lib.rs, with both of its backends: the LSH index     *)
(* with exact verification (run_lsh) and the inverted index of             *)
(* index/src/lib.rs (run_naive), and the HTML report of cli/src/html.rs,   *)
(* which reads the files again.  Each file is read once by each, at a      *)
(* moment of its own, while others may edit; every command that reads the  *)
(* workspace starts with the steps of this module.                         *)
(*                                                                         *)
(* The text of a function, or of a file, stands for what the normalizer    *)
(* and the fingerprinter make of it, and a sketch is computed from the set *)
(* of fingerprints (FilePipeline is about both).  The walker's order only  *)
(* permutes ids and is fixed.                                              *)
(***************************************************************************)
EXTENDS Classifier, LshIndex, FiniteSetsExt

CONSTANTS
  Absent,             (* the content of a file that is not there           *)
  Contents,           (* what files may hold                               *)
  Excluded,           (* files the walk skips                              *)
  LangOf,             (* path -> language by the extension                 *)
  SlicedLangs,        (* the languages the slicer supports                 *)
  AnyLang,            (* --only-lang not given                             *)
  Functions(_),       (* content -> sequence of [text, granule]            *)
  Hashes(_, _, _, _), (* text, language, blind mode, k -> fingerprints     *)
  Identifiers(_),     (* text -> its identifiers, as written               *)
  SketchOf(_),        (* set of fingerprints -> sketch                     *)
  MaxEdits,           (* bound: edits of files                             *)
  MaxCommands         (* bound: commands that are run                      *)

ASSUME ScanAssumption ==
  /\ Absent \notin Contents
  /\ Excluded \subseteq Paths
  /\ IsFiniteSet(Paths)
  /\ DOMAIN Components = Paths /\ DOMAIN LangOf = Paths
  /\ \A c \in Contents : Functions(c) \in Seq(Range(Functions(c)))
  /\ MaxEdits \in Nat /\ MaxCommands \in Nat

VARIABLES
  disk,      (* the files as they are                                      *)
  edits,     (* edits so far                                               *)
  ran,       (* commands so far                                            *)
  command,   (* the command that runs: its name, options and stage         *)
  todo,      (* the files it has still to read                             *)
  held,      (* what it has read of each file                              *)
  items,     (* what it has made of them                                   *)
  report,    (* what the last scan found                                   *)
  html       (* its HTML report: the files read for it and the panes       *)

scanVars == <<disk, edits, ran, command, todo, held, items, index, report, html>>

NoCommand == [name |-> "none", stage |-> "idle"]
NothingHeld == [p \in Paths |-> Absent]
NoReport == [findings |-> <<>>, items |-> <<>>, opts |-> [top |-> 0]]
NoHtml == [cache |-> [p \in {} |-> Absent], panes |-> <<>>]

At(stage) == command.stage = stage
IsRunning(name) == command.name = name

-----------------------------------------------------------------------------
(* process_path and build_item.                                            *)
Parts(p, content, opts) ==
  IF opts.granularity = "File" THEN <<[text |-> content, granule |-> Whole]>>
  ELSE IF LangOf[p] \in SlicedLangs THEN Functions(content) ELSE <<>>

Item(p, part, opts) ==
  [path |-> p, granule |-> part.granule, text |-> part.text,
   hashes |-> Hashes(part.text, LangOf[p], opts.blind, opts.k)]

ItemsOf(p, content, opts) ==
  IF content = Absent \/ opts.onlyLang \notin {AnyLang, LangOf[p]} THEN <<>>
  ELSE LET parts == Parts(p, content, opts)
       IN  FlattenSeq([n \in DOMAIN parts |->
             IF Item(p, parts[n], opts).hashes = <<>> THEN <<>>
             ELSE <<Item(p, parts[n], opts)>>])

PathOrder == SetToSeq(Paths)

UniqueSet(item) == Range(item.hashes)

LshEntries(its) ==
  [n \in DOMAIN its |-> [path |-> its[n].path, granule |-> its[n].granule,
                         sketch |-> SketchOf(UniqueSet(its[n]))]]

EndOf(item) ==
  [path |-> item.path, granule |-> item.granule,
   unique |-> Cardinality(UniqueSet(item))]

SameEndpoint(f) == f.a.path = f.b.path /\ f.a.granule = f.b.granule

-----------------------------------------------------------------------------
(* run_lsh on the index that was built from the items.                     *)
Reaches(v, min) == AtMost(min, Jaccard(v))

EstimateReaches(s, t, min) ==
  AtMost(min, <<SketchAgreement(s, t), Bands * Rows>>)

RunLsh(its, ix, opts) ==
  {<<ij, ClassifyWithRoot(opts.root, Overlap(UniqueSet(its[ij[1]]), UniqueSet(its[ij[2]])),
                          EndOf(its[ij[1]]), EndOf(its[ij[2]]))>> :
     ij \in {c \in CandidatePairs(ix) :
               /\ EstimateReaches(ix.sketches[c[1]], ix.sketches[c[2]], opts.min)
               /\ Reaches(Overlap(UniqueSet(its[c[1]]), UniqueSet(its[c[2]])), opts.min)}}

-----------------------------------------------------------------------------
(* Slip: a fingerprint that an item has twice puts it in the bucket        *)
(* twice.                                                                  *)
BucketWithRepeats(its, h) ==
  FlattenSeq([n \in DOMAIN its |->
    IF h \in UniqueSet(its[n]) THEN [m \in DOMAIN its[n].hashes |-> n] ELSE <<>>])

(* Index::add_internal for each item, and pair_report.  A bucket lists the *)
(* ids that have its hash, each once.                                      *)
Bucket(its, h) ==
  FlattenSeq([n \in DOMAIN its |-> IF h \in UniqueSet(its[n]) THEN <<n>> ELSE <<>>])

AllHashes(its) == UNION {UniqueSet(its[n]) : n \in DOMAIN its}

TimesPaired(bucket, i, j) ==
  Cardinality({nm \in (DOMAIN bucket) \X (DOMAIN bucket) :
                 nm[1] < nm[2] /\ {bucket[nm[1]], bucket[nm[2]]} = {i, j}})

(* Buckets of more than maxBucket entries are boilerplate and skipped, so  *)
(* that what two items share may be counted low.                           *)
PairShared(its, maxBucket, i, j) ==
  MapThenSumSet(LAMBDA h : IF Len(Bucket(its, h)) > maxBucket THEN 0
                           ELSE TimesPaired(Bucket(its, h), i, j),
                AllHashes(its))

(* run_naive: a pair that shares nothing has no entry in the map, whatever *)
(* min_shared is.                                                          *)
RunNaive(its, opts) ==
  LET shared == [ij \in (DOMAIN its) \X (DOMAIN its) |->
                   IF ij[1] > ij[2] THEN 0
                   ELSE PairShared(its, opts.maxBucket, ij[1], ij[2])]
      union(ij) == Cardinality(UniqueSet(its[ij[1]])) + Cardinality(UniqueSet(its[ij[2]]))
                   - shared[ij]
  IN  {<<ij, ClassifyWithRoot(opts.root, [shared |-> shared[ij], union |-> union(ij)],
                              EndOf(its[ij[1]]), EndOf(its[ij[2]]))>> :
         ij \in {c \in DOMAIN shared : shared[c] > 0 /\ shared[c] >= opts.minShared}}

-----------------------------------------------------------------------------
(* By score, then by what is shared; hash maps decide the rest.            *)
ByScoreAndShared(F) ==
  {fg \in F \X F :
     LET f == fg[1][2]
         g == fg[2][2]
     IN  /\ AtMost(g.score, f.score)
         /\ AtMost(f.score, g.score) => f.shared > g.shared}

(* What a sort may make of a set, by an order (a set of pairs) that leaves *)
(* ties open.                                                              *)
Sorted(S, before) ==
  LET from[T \in SUBSET S] ==
        IF T = {} THEN {<<>>}
        ELSE UNION {{<<x>> \o s : s \in from[T \ {x}]} :
                      x \in {y \in T : \A z \in T : <<z, y>> \notin before}}
  IN  from[S]

Found(opts) ==
  {f \in (IF opts.naive THEN RunNaive(items, opts) ELSE RunLsh(items, index, opts)) :
     opts.granularity = "Function" => ~SameEndpoint(f[2])}

-----------------------------------------------------------------------------
ScanInit ==
  /\ edits = 0 /\ ran = 0
  /\ command = NoCommand
  /\ todo = {} /\ held = NothingHeld /\ items = <<>>
  /\ index = EmptyIndex
  /\ report = NoReport /\ html = NoHtml

(* Somebody writes, creates or deletes a file.                             *)
EditFile(p, c) ==
  /\ edits < MaxEdits /\ c # disk[p]
  /\ disk' = [disk EXCEPT ![p] = c]
  /\ edits' = edits + 1
  /\ UNCHANGED <<ran, command, todo, held, items, index, report, html>>

(* A command starts to read the workspace: walk_filtered, less what the    *)
(* options exclude.                                                        *)
Walk(name, opts) ==
  /\ At("idle")
  /\ ran < MaxCommands /\ ran' = ran + 1
  /\ command' = [name |-> name, stage |-> "read", opts |-> opts]
  /\ todo' = {p \in Paths \ (Excluded \cup opts.exclude) : disk[p] # Absent}
  /\ report' = NoReport /\ html' = NoHtml
  /\ UNCHANGED <<disk, edits, held, items, index>>

(* The files are read in parallel; one that is gone by now has no items.   *)
ReadFile(p) ==
  /\ At("read") /\ p \in todo
  /\ todo' = todo \ {p}
  /\ held' = [held EXCEPT ![p] = disk[p]]
  /\ UNCHANGED <<disk, edits, ran, command, items, index, report, html>>

(* The items are collected in the order of the walk; scan and search       *)
(* put them into an LSH index of their own.                                *)
Collect ==
  /\ At("read") /\ todo = {}
  /\ LET its == FlattenSeq([n \in DOMAIN PathOrder |->
                   ItemsOf(PathOrder[n], held[PathOrder[n]], command.opts)])
     IN  /\ items' = its
         /\ index' = AddAll(EmptyIndex, LshEntries(its))
  /\ command' = [command EXCEPT !.stage = "items"]
  /\ held' = NothingHeld
  /\ UNCHANGED <<disk, edits, ran, todo, report, html>>

Finish(stage) ==
  /\ command' = IF stage = "idle" THEN NoCommand ELSE [command EXCEPT !.stage = stage]
  /\ items' = <<>> /\ index' = EmptyIndex

(* The end of scan: sorted findings, printed up to --top of them.          *)
ReportScan ==
  /\ IsRunning("scan") /\ At("items")
  /\ \E s \in Sorted(Found(command.opts), ByScoreAndShared(Found(command.opts))) :
       report' = [findings |-> s, items |-> items, opts |-> command.opts]
  /\ Finish(IF command.opts.html THEN "html" ELSE "idle")
  /\ UNCHANGED <<disk, edits, ran, todo, held, html>>

-----------------------------------------------------------------------------
(* html::render: two panes for each of the first `top` findings.           *)
Rendered == SubSeq(report.findings, 1, Min({report.opts.top, Len(report.findings)}))

NextPane ==
  LET n == Len(html.panes)
      f == Rendered[(n \div 2) + 1][2]
  IN  IF n % 2 = 0 THEN f.a ELSE f.b

(* Slip: each pane reads its file anew.                                    *)
RenderPaneUncached ==
  /\ At("html") /\ Len(html.panes) < 2 * Len(Rendered)
  /\ html' = [html EXCEPT !.panes = Append(@, [end |-> NextPane, shows |-> disk[NextPane.path]])]
  /\ UNCHANGED <<disk, edits, ran, command, todo, held, items, index, report>>

(* extract_lines reads a file when its first pane is rendered and keeps    *)
(* what it read, or that it could not.                                     *)
RenderPane ==
  /\ At("html") /\ Len(html.panes) < 2 * Len(Rendered)
  /\ LET p == NextPane.path
         cache == [q \in DOMAIN html.cache \cup {p} |->
                     IF q \in DOMAIN html.cache THEN html.cache[q] ELSE disk[q]]
     IN  html' = [cache |-> cache,
                  panes |-> Append(html.panes, [end |-> NextPane, shows |-> cache[p]])]
  /\ UNCHANGED <<disk, edits, ran, command, todo, held, items, index, report>>

RenderDone ==
  /\ At("html") /\ Len(html.panes) = 2 * Len(Rendered)
  /\ Finish("idle")
  /\ UNCHANGED <<disk, edits, ran, todo, held, report, html>>

ScanSteps == (\E p \in Paths : ReadFile(p)) \/ Collect \/ ReportScan \/ RenderPane \/ RenderDone

-----------------------------------------------------------------------------
(* The two backends check each other, the inverted index being the oracle  *)
(* the tests use: with no bucket skipped, the LSH backend reports of the   *)
(* pairs that share a fingerprint those that share a band, have a close    *)
(* estimate and overlap enough, with the same overlap, tags and score; and *)
(* the oracle itself counts what the sets share.                           *)
Oracle(r) ==
  {f \in RunNaive(r.items, [root |-> r.opts.root, minShared |-> 1, maxBucket |-> Len(r.items)]) :
     r.opts.granularity = "Function" => ~SameEndpoint(f[2])}

SketchAt(r, i) == SketchOf(UniqueSet(r.items[i]))

FoundByLsh(r) ==
  {f \in Oracle(r) : LET s == SketchAt(r, f[1][1])
                         t == SketchAt(r, f[1][2])
                     IN  /\ ShareBand(s, t)
                         /\ EstimateReaches(s, t, r.opts.min)
                         /\ Reaches(Overlap(UniqueSet(r.items[f[1][1]]),
                                            UniqueSet(r.items[f[1][2]])), r.opts.min)}

BackendsAgree ==
  LET r == report
  IN  r.items # <<>> =>
        /\ \A f \in Oracle(r) :
             f[2].shared = Cardinality(UniqueSet(r.items[f[1][1]]) \cap UniqueSet(r.items[f[1][2]]))
        /\ ~r.opts.naive /\ r.opts.min[1] > 0 => Range(r.findings) = FoundByLsh(r)
        /\ r.opts.naive /\ r.opts.maxBucket >= Len(r.items) =>
             Range(r.findings) = {f \in Oracle(r) : f[2].shared >= r.opts.minShared}

(* Tags and scores are about the project and not about the place it is     *)
(* scanned at (the comment of classify_with_root): a workspace below a     *)
(* directory called tests is not all tests.                                *)
TagsOfProject ==
  \A n \in DOMAIN report.findings :
    LET f == report.findings[n][2]
    IN  /\ "TestOnly" \in f.tags <=>
             /\ IsTestPath(Components[f.a.path])
             /\ IsTestPath(Components[f.b.path])
        /\ "CrossModule" \in f.tags <=> Components[f.a.path][1] # Components[f.b.path][1]

(* A report shows one version of each file, though others may edit it      *)
(* while the panes are rendered one by one.                                *)
ReportConsistent ==
  \A n, m \in DOMAIN html.panes :
    html.panes[n].end.path = html.panes[m].end.path =>
      html.panes[n].shows = html.panes[m].shows
=============================================================================
