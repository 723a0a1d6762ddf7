------------------------------ MODULE Ranking -------------------------------
(***************************************************************************)
(* What the language server makes of its options and of the findings       *)
(* (lsp-server/src/main.rs): resolve_init_opts, workspace_root,            *)
(* rank_and_group and make_diagnostic.  A round scans as OneShotScan does, *)
(* with the LSH backend; how rounds are asked for and how messages reach   *)
(* the editor are in RescanLoop and LspServer.                             *)
(***************************************************************************)
EXTENDS OneShotScan

CONSTANTS
  Unset,       (* an option that is not given                              *)
  IllTyped,    (* ... or that has not the type serde expects               *)
  Dropped,     (* tail_severity None: what is not highlighted is not sent  *)
  NoRoot       (* no workspace folder with a file URI                      *)

ASSUME RankingAssumption == Dropped \notin {"HINT", "INFORMATION", "WARNING"}

VARIABLES
  server,      (* options given and settings resolved, NoServer before     *)
  served,      (* the findings of the last round                           *)
  byFile       (* State.by_file: path -> ranked findings                   *)

rankingVars == <<server, served, byFile>>

-----------------------------------------------------------------------------
(* The options, with the values each takes and what they are resolved to.  *)
Severities ==
  [hint |-> "HINT", information |-> "INFORMATION", info |-> "INFORMATION",
   warning |-> "WARNING", warn |-> "WARNING"]

ParseSeverity(allowOff) ==
  [s \in DOMAIN Severities \cup (IF allowOff THEN {"off"} ELSE {}) |->
     IF s = "off" THEN Dropped ELSE Severities[s]]

Enumerated ==
  [granularity |-> [file |-> "File", function |-> "Function"],
   blind |-> [strict |-> "Strict", mild |-> "Mild", aggressive |-> "Aggressive"],
   highlightSeverity |-> ParseSeverity(FALSE),
   tailSeverity |-> ParseSeverity(TRUE)]

Defaults ==
  [granularity |-> "Function", blind |-> "Mild", minJaccard |-> <<4, 5>>,
   exclude |-> {}, highlightTop |-> 20, highlightSeverity |-> "WARNING",
   tailSeverity |-> "HINT", rescanOnSave |-> TRUE, incremental |-> TRUE,
   fileWatch |-> FALSE]

Options == DOMAIN Defaults
NoOptions == [o \in Options |-> Unset]

Accepts(o, value) ==
  CASE o \in DOMAIN Enumerated -> value \in DOMAIN Enumerated[o]
    [] o = "minJaccard" -> AtMost(value, <<1, 1>>)
    [] OTHER -> TRUE

Setting(o, value) == IF o \in DOMAIN Enumerated THEN Enumerated[o][value] ELSE value

Malformed(given) == \E o \in Options : given[o] = IllTyped

(* A value that is not accepted is warned of and keeps the default; one of *)
(* a wrong type voids all options.                                         *)
Resolve(given) ==
  [settings |-> [o \in Options |->
                   IF Malformed(given) \/ given[o] = Unset THEN Defaults[o]
                   ELSE IF Accepts(o, given[o]) THEN Setting(o, given[o])
                   ELSE Defaults[o]],
   warnings |-> IF Malformed(given) THEN {"initializationOptions"}
                ELSE {o \in Options : given[o] # Unset /\ ~Accepts(o, given[o])}]

(* The first folder, if its URI is one of a file; else root_uri.           *)
WorkspaceRoot(params) ==
  IF params.folders # <<>> /\ params.folders[1] # NoRoot
    THEN params.folders[1] ELSE params.rootUri

-----------------------------------------------------------------------------
(* Slip: ranks from 1 are compared as if they began at 0.                  *)
SeverityAtOffByOne(rank, settings) ==
  IF rank < settings.highlightTop THEN settings.highlightSeverity
  ELSE settings.tailSeverity

(* rank_and_group of findings in the order s.                              *)
SeverityAt(rank, settings) ==
  IF rank <= settings.highlightTop THEN settings.highlightSeverity
  ELSE settings.tailSeverity

Ranked(s, settings) ==
  {[finding |-> s[n][2], severity |-> SeverityAt(n, settings)] :
     n \in {m \in DOMAIN s : SeverityAt(m, settings) # Dropped}}

EndPaths(rf) == {rf.finding.a.path, rf.finding.b.path}

Group(ranked) == [p \in Paths |-> {rf \in ranked : p \in EndPaths(rf)}]

ByScore(F) == {fg \in F \X F : ~AtMost(fg[1][2].score, fg[2][2].score)}

(* make_diagnostic for the file p: at the end that is in p, the first of   *)
(* the two when both are; a whole file has no lines to anchor one at.      *)
MakeDiagnostic(rf, p) ==
  LET f == rf.finding
      this == IF f.a.path = p THEN f.a ELSE f.b
      other == IF f.a.path = p THEN f.b ELSE f.a
  IN  [at |-> this, related |-> other, severity |-> rf.severity]

ShownIn(p) == {MakeDiagnostic(rf, p) :
                 rf \in {r \in byFile[p] : r.finding.a.granule # Whole}}

-----------------------------------------------------------------------------
NoServer == [given |-> NoOptions, settings |-> Defaults, root |-> NoRoot, up |-> FALSE]

RankingInit ==
  /\ server = NoServer
  /\ served = {} /\ byFile = [p \in Paths |-> {}]

(* initialize: a new server, with nothing published.                       *)
Initialize(given, params) ==
  /\ At("idle") /\ ~server.up
  /\ server' = [given |-> given, settings |-> Resolve(given).settings,
                root |-> WorkspaceRoot(params), up |-> TRUE]
  /\ UNCHANGED <<scanVars, served, byFile>>

(* The first scan, or a full rescan; without a root there is none.         *)
StartRound ==
  /\ server.up /\ server.root # NoRoot
  /\ Walk("serve", [granularity |-> server.settings.granularity,
                    blind |-> server.settings.blind, k |-> "default",
                    onlyLang |-> AnyLang, exclude |-> server.settings.exclude,
                    min |-> server.settings.minJaccard, naive |-> FALSE,
                    root |-> server.root])
  /\ UNCHANGED <<server, served, byFile>>

(* Slip: findings are ranked in the order they come in.                    *)
PublishUnsorted ==
  /\ IsRunning("serve") /\ At("items")
  /\ served' = Found(command.opts)
  /\ \E s \in Sorted(Found(command.opts), {}) :
       byFile' = Group(Ranked(s, server.settings))
  /\ Finish("idle")
  /\ UNCHANGED <<disk, edits, ran, todo, held, report, html, server>>

(* publish_findings: the findings come in the order of a hash map, and the *)
(* sort by score keeps that order among equals.                            *)
Publish ==
  /\ IsRunning("serve") /\ At("items")
  /\ served' = Found(command.opts)
  /\ \E s \in Sorted(Found(command.opts), ByScore(Found(command.opts))) :
       byFile' = Group(Ranked(s, server.settings))
  /\ Finish("idle")
  /\ UNCHANGED <<disk, edits, ran, todo, held, report, html, server>>

-----------------------------------------------------------------------------
PublishedPairs == UNION {byFile[p] : p \in Paths}

(* The tiers follow the scores: as many findings are highlighted as asked  *)
(* for and found, none of the others scores higher, and the others have    *)
(* the tail's severity or are left out with it.                            *)
TiersByScore ==
  LET severityOf(f) == {rf.severity : rf \in {r \in PublishedPairs : r.finding = f}}
      all == {f[2] : f \in served}
      top == {f \in all : severityOf(f) = {server.settings.highlightSeverity}}
      n == server.settings.highlightTop
  IN  server.settings.highlightSeverity # server.settings.tailSeverity =>
        /\ Cardinality(top) = Min({n, Cardinality(all)})
        /\ \A f \in top, g \in all \ top : AtMost(g.score, f.score)
        /\ \A g \in all \ top :
             severityOf(g) = {server.settings.tailSeverity} \ {Dropped}

(* A pair is shown where its ends are, with one severity: the related      *)
(* location of a diagnostic in another file has a diagnostic that leads    *)
(* back, and a diagnostic lies in the file it is shown in.                 *)
PairsShownAtBothEnds ==
  \A p \in Paths : \A d \in ShownIn(p) :
    /\ d.at.path = p
    /\ d.related.path # p =>
         [at |-> d.related, related |-> d.at, severity |-> d.severity]
           \in ShownIn(d.related.path)

(* What a round leaves for the editor.                                     *)
RoundConsistent == TiersByScore /\ PairsShownAtBothEnds

SameScore(f, g) == AtMost(f.score, g.score) /\ AtMost(g.score, f.score)

(* A further round over the same findings moves only ties: a finding whose *)
(* score no other has keeps its severity.                                  *)
OnlyTiesMove ==
  [][(served' = served /\ UNCHANGED server) =>
       \A f \in served :
         (\A g \in served \ {f} : ~SameScore(f[2], g[2])) =>
           {rf \in PublishedPairs : rf.finding = f[2]}
             = {rf \in PublishedPairs' : rf.finding = f[2]}
    ]_rankingVars
=============================================================================
