------------------------------ MODULE Commands ------------------------------
(***************************************************************************)
(* The commands of cli/src/main.rs (scan, index, search) and the rounds of *)
(* the language server, over one workspace that others edit.  One command  *)
(* runs at a time.  Commands meet in the workspace and in the index file,  *)
(* of which the server and the other commands write none the other reads:  *)
(* a behaviour has the one or the others.  Files are edited while a        *)
(* command runs: an edit between two commands is as good as one before the *)
(* last step of the first, which reads none.                               *)
(***************************************************************************)
EXTENDS Integers, Ranking, Search

CONSTANTS
  Disks,        (* bound: the files there may be at first                  *)
  ScanOpts, IndexOpts, SearchOpts,            (* bound: flags              *)
  QueriesIn, Queries,   (* bound: queries of a directory and of an index   *)
  Givens, Params   (* bound: initializationOptions, parameters             *)

ASSUME CommandsAssumption ==
  /\ Disks \subseteq [Paths -> Contents \cup {Absent}]
  /\ \A opts \in ScanOpts : opts.top \in Nat /\ opts.root \in Seq(Range(opts.root))
  /\ \A opts \in SearchOpts : "query" \notin DOMAIN opts
  /\ \A query \in QueriesIn \cup Queries :
       query.kind = "keywords" => query.keywords \in Seq(Seq(Characters))
  /\ \A given \in Givens : given.highlightTop \in Nat \cup {Unset, IllTyped}

AllQueries == QueriesIn \cup Queries

AskingOpts == {Asking(opts, query) : opts \in SearchOpts, query \in AllQueries}

FlagsAssumed ==
  /\ \A opts \in ScanOpts : opts.min \in Int \X Nat /\ opts.maxBucket \in Nat
  /\ \A opts \in IndexOpts \cup AskingOpts : opts.blind \in {"Strict", "Mild", "Aggressive"}
  /\ \A query \in AllQueries :
       /\ query.top \in Nat
       /\ query.kind = "snippet" => query.min \in Int \X Nat

(* What the normalizer and the fingerprinter make of a part of a file.     *)
PartRight(text, hashes) ==
  /\ hashes \in Seq(Range(hashes))
  /\ hashes # <<>> => DOMAIN SketchOf(Range(hashes)) = 1 .. (Bands * Rows)
  /\ Identifiers(text) \in Seq(Seq(Characters))

PartsAssumed ==
  \A opts \in ScanOpts \cup IndexOpts \cup AskingOpts, p, q \in Paths, c \in Contents :
    \A n \in DOMAIN Parts(p, c, opts) :
      LET item == Item(q, Parts(p, c, opts)[n], opts)
      IN  PartRight(item.text, item.hashes)

ASSUME InputsAssumption == FlagsAssumed /\ PartsAssumed

vars == <<scanVars, rankingVars, searchVars>>

CommandsInit ==
  /\ disk \in Disks
  /\ ScanInit /\ RankingInit /\ SearchInit

ScanCommand ==
  /\ \/ \E opts \in ScanOpts : ~server.up /\ Walk("scan", opts)
     \/ ScanSteps
     \/ \E p \in Paths, c \in Contents \cup {Absent} : ~At("idle") /\ EditFile(p, c)
  /\ UNCHANGED <<rankingVars, searchVars>>

ServerRound ==
  /\ \/ \E given \in Givens, params \in Params : ran = 0 /\ Initialize(given, params)
     \/ StartRound
     \/ Publish
  /\ UNCHANGED searchVars

SearchCommand ==
  /\ ~server.up
  /\ \/ \E opts \in IndexOpts : StartIndex(opts)
     \/ \E opts \in SearchOpts, query \in QueriesIn : StartSearchIn(opts, query)
     \/ \E opts \in SearchOpts, query \in Queries : Load(query, opts)
     \/ Build \/ SaveCreate \/ SaveWrite \/ SaveFails \/ Answer \/ Crash
  /\ UNCHANGED rankingVars

CommandsNext == ScanCommand \/ ServerRound \/ SearchCommand

CommandsSpec == CommandsInit /\ [][CommandsNext]_vars

-----------------------------------------------------------------------------
StagesOf ==
  [none |-> {"idle"}, scan |-> {"read", "items", "html"}, serve |-> {"read", "items"},
   index |-> {"read", "items", "create", "write"}, search |-> {"read", "items", "query"}]

(* The shape of the state; nothing of a command outlives it.               *)
CommandsTypeOK ==
  /\ disk \in [Paths -> Contents \cup {Absent}]
  /\ edits \in 0..MaxEdits /\ ran \in 0..MaxCommands
  /\ command.stage \in StagesOf[command.name]
  /\ todo \subseteq Paths \ Excluded /\ (todo # {} => At("read"))
  /\ held \in [Paths -> Contents \cup {Absent}] /\ (held # NothingHeld => At("read"))
  /\ items # <<>> => At("items")
  /\ Len(index.files) = Len(items)
  /\ searchIndex # NoIndex => command.stage \in {"create", "write", "query"}
  /\ savedIndex \in {NoFile, Torn} \cup built
  /\ DOMAIN server.settings = Options
  /\ \A p \in Paths : \A rf \in byFile[p] : rf.finding \in {f[2] : f \in served}
  /\ Len(html.panes) <= 2 * Len(Rendered)

(* Commands leave nothing behind but the index file, and that is whole     *)
(* where it is used.                                                       *)
CommandsConsistent == CommandsTypeOK /\ IndexWhole
=============================================================================
