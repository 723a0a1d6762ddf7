------------------------------- MODULE Search -------------------------------
(***************************************************************************)
(* engine/src/search.rs and the commands index and search of               *)
(* cli/src/main.rs: an index is built from the workspace, kept in a file   *)
(* or used at once, and asked with a snippet or with keywords.  The file   *)
(* is truncated before it is written, writing may stop anywhere (a crash,  *)
(* an error, or an error of the last flush that BufWriter swallows when it *)
(* is dropped), and the workspace may change between all steps.            *)
(***************************************************************************)
EXTENDS OneShotScan

CONSTANTS
  NoFile, Torn,     (* the index file is missing, or is no whole JSON text *)
  Upper, Lower, Digits, Separators,   (* the characters of identifiers     *)
  LowerOf,          (* upper-case characters -> lower-case                 *)
  Wide,             (* characters of more than one byte in UTF-8           *)
  LangKeys,         (* the languages' keys                                 *)
  LangByExtension,  (* extension -> language                               *)
  NoHint,           (* --lang not given                                    *)
  GuessLang(_),     (* guess_lang_from_snippet: text -> language           *)
  BruteEntries, BruteFps,   (* 5000 and 20 in the code                     *)
  WordLists         (* bound: lists of words of two letters or more that   *)
                    (* KeywordsFound looks for                             *)

ASSUME SearchAssumption ==
  /\ Upper \cap Lower = {} /\ (Upper \cup Lower) \cap (Digits \cup Separators) = {}
  /\ Digits \cap Separators = {}
  /\ DOMAIN LowerOf = Upper /\ Range(LowerOf) \subseteq Lower
  /\ Range(LangByExtension) \subseteq LangKeys

ASSUME WordListsAssumption ==
  /\ {"_", "-"} \subseteq Separators
  /\ \A words \in WordLists :
       /\ words \in Seq(Seq(Range(LowerOf))) /\ words # <<>>
       /\ \A n \in DOMAIN words : Len(words[n]) > 1

VARIABLES
  savedIndex,   (* the index file                                          *)
  searchIndex,  (* the SearchIndex of the running command                  *)
  answer,       (* the answer to the last search                           *)
  built         (* the indexes built so far (history)                      *)

searchVars == <<savedIndex, searchIndex, answer, built>>

NoAnswer == [query |-> [kind |-> "none"], matches |-> <<>>]
NoIndex == [entries |-> <<>>]

-----------------------------------------------------------------------------
(* split_identifier: the words that begin at or after each position.  A    *)
(* word of one byte is dropped.                                            *)
Characters == Upper \cup Lower \cup Digits \cup Separators

Lowered(ch) == IF ch \in Upper THEN LowerOf[ch] ELSE ch

Word(ident, from, to) ==
  IF to > from \/ (to = from /\ ident[from] \in Wide)
    THEN <<[n \in 1..(to - from + 1) |-> Lowered(ident[from + n - 1])]>>
    ELSE <<>>

RunEnd(ident, from, chars) ==
  Min({n \in from..(Len(ident) + 1) : n = Len(ident) + 1 \/ ident[n] \notin chars})

(* Slip: a run of capitals keeps its last capital.                         *)
StartOfLowerKeepingRun(ident, from, end) == from

(* Where a run of capitals goes on in lower case, its last capital begins  *)
(* the next word.                                                          *)
StartOfLower(ident, from, end) ==
  IF end <= Len(ident) /\ ident[end] \in Lower THEN end - 1 ELSE from

SplitIdentifier(ident) ==
  LET rest[n \in 1..(Len(ident) + 1)] ==
        CASE n > Len(ident) -> <<>>
          [] n <= Len(ident) /\ ident[n] \in Separators -> rest[n + 1]
          [] n <= Len(ident) /\ ident[n] \in Upper ->
               LET end == RunEnd(ident, n, Upper)
                   start == StartOfLower(ident, n, end)
                   last == RunEnd(ident, end, Lower \cup Digits)
               IN  (IF start > n THEN Word(ident, n, start - 1) ELSE <<>>)
                   \o Word(ident, start, last - 1) \o rest[last]
          [] OTHER ->
               LET end == RunEnd(ident, n, Lower \cup Digits)
               IN  Word(ident, n, end - 1) \o rest[end]
  IN  rest[1]

(* extract_ident_tokens, and the terms of a query.                         *)
Words(idents) == FlattenSeq([n \in DOMAIN idents |-> SplitIdentifier(idents[n])])

-----------------------------------------------------------------------------
(* SearchIndex::build on what was read; the settings are kept with the     *)
(* entries, the blind mode by its name.                                    *)
BuildIndex(its, opts) ==
  [config |-> [blind |-> opts.blind, granularity |-> opts.granularity, k |-> opts.k],
   entries |-> [n \in DOMAIN its |->
     [path |-> its[n].path, lang |-> LangOf[its[n].path], granule |-> its[n].granule,
      text |-> its[n].text, unique |-> UniqueSet(its[n]),
      sketch |-> SketchOf(UniqueSet(its[n])), words |-> Words(Identifiers(its[n].text))]]]

BlindOf(index_) ==
  IF index_.config.blind \in {"Strict", "Aggressive"} THEN index_.config.blind ELSE "Mild"

(* resolve_lang_key: a key as it is written, or an extension.              *)
ResolveLangKey(hint) ==
  IF hint \in LangKeys THEN {hint}
  ELSE IF hint \in DOMAIN LangByExtension THEN {LangByExtension[hint]} ELSE {}

LangOfSnippet(query) ==
  IF ResolveLangKey(query.hint) # {} THEN CHOOSE l \in ResolveLangKey(query.hint) : TRUE
  ELSE GuessLang(query.text)

(* Slip: the snippet is read by the flags of the search.                   *)
QueryHashesByFlags(si, query) ==
  Range(Hashes(query.text, LangOfSnippet(query), command.opts.blind, command.opts.k))

(* The snippet is normalized as the index was.                             *)
QueryHashes(si, query) ==
  Range(Hashes(query.text, LangOfSnippet(query), BlindOf(si), si.config.k))

TempIndex(si) ==
  AddAll(EmptyIndex, [n \in DOMAIN si.entries |->
    [path |-> si.entries[n].path, granule |-> si.entries[n].granule,
     sketch |-> si.entries[n].sketch]])

(* In a small index, or for a short query, every entry is a candidate that *)
(* has half the estimate asked for; else those that share a band.          *)
SnippetCandidates(si, q, min) ==
  IF Len(si.entries) < BruteEntries \/ Cardinality(q) < BruteFps
    THEN {n \in DOMAIN si.entries :
            EstimateReaches(SketchOf(q), si.entries[n].sketch, <<min[1], 2 * min[2]>>)}
    ELSE QuerySketch(TempIndex(si), SketchOf(q))

Match(si, n, score) ==
  [path |-> si.entries[n].path, granule |-> si.entries[n].granule, score |-> score]

FirstOf(s, top) == SubSeq(s, 1, Min({top, Len(s)}))

(* search_snippet: the answers it may give, by the order of equal scores.  *)
SnippetAnswers(si, query) ==
  LET q == QueryHashes(si, query)
      jaccard(n) == Jaccard(Overlap(q, si.entries[n].unique))
      close == {n \in SnippetCandidates(si, q, query.min) : AtMost(query.min, jaccard(n))}
      sorted == Sorted(close, {nm \in close \X close :
                                 ~AtMost(jaccard(nm[1]), jaccard(nm[2]))})
  IN  IF q = {} THEN {<<>>}
      ELSE {FirstOf([n \in DOMAIN s |-> Match(si, s[n], jaccard(s[n]))], query.top) :
              s \in sorted}

(* KeywordIndex::search.  The BM25 score is a positive number for every    *)
(* entry with a term of the query; of two entries it is the greater for    *)
(* the one that has each term as often or oftener in as few words or       *)
(* fewer, and not both the same.  Otherwise any order is possible.         *)
Frequency(entry, term) == Cardinality({n \in DOMAIN entry.words : entry.words[n] = term})

ScoresAbove(e, f, terms) ==
  /\ \A t \in terms : Frequency(e, t) >= Frequency(f, t)
  /\ Len(e.words) <= Len(f.words)
  /\ Len(e.words) < Len(f.words) \/ \E t \in terms : Frequency(e, t) > Frequency(f, t)

QueryTerms(keywords) == Range(Words(keywords))

KeywordAnswers(si, query) ==
  LET terms == QueryTerms(query.keywords)
      hits == {n \in DOMAIN si.entries : Range(si.entries[n].words) \cap terms # {}}
      sorted == Sorted(hits, {nm \in hits \X hits :
                                ScoresAbove(si.entries[nm[1]], si.entries[nm[2]], terms)})
  IN  {FirstOf([n \in DOMAIN s |-> Match(si, s[n], "bm25")], query.top) : s \in sorted}

-----------------------------------------------------------------------------
SearchInit ==
  /\ savedIndex = NoFile /\ searchIndex = NoIndex /\ answer = NoAnswer
  /\ built = {}

(* dupe index, or dupe search --in: the workspace is read by the steps of  *)
(* OneShotScan, then the index is there.                                   *)
StartIndex(opts) ==
  /\ Walk("index", opts)
  /\ answer' = NoAnswer
  /\ UNCHANGED <<savedIndex, searchIndex, built>>

(* The flags of a search, with its query.                                 *)
Asking(opts, query) ==
  [o \in DOMAIN opts \cup {"query"} |-> IF o = "query" THEN query ELSE opts[o]]

StartSearchIn(opts, query) ==
  /\ Walk("search", Asking(opts, query))
  /\ answer' = NoAnswer
  /\ UNCHANGED <<savedIndex, searchIndex, built>>

Build ==
  /\ At("items") /\ command.name \in {"index", "search"}
  /\ searchIndex' = BuildIndex(items, command.opts)
  /\ built' = built \cup {searchIndex'}
  /\ Finish(IF command.name = "index" THEN "create" ELSE "query")
  /\ UNCHANGED <<disk, edits, ran, todo, held, report, html, savedIndex, answer>>

EndCommand ==
  /\ Finish("idle")
  /\ searchIndex' = NoIndex /\ todo' = {} /\ held' = NothingHeld
  /\ UNCHANGED <<disk, edits, ran, report, html, built>>

(* File::create: an index that was there is gone.                          *)
SaveCreate ==
  /\ At("create")
  /\ savedIndex' = Torn
  /\ Finish("write")
  /\ UNCHANGED <<disk, edits, ran, todo, held, report, html, searchIndex, answer, built>>

SaveWrite ==
  /\ At("write")
  /\ savedIndex' = searchIndex
  /\ EndCommand /\ UNCHANGED answer

(* The file cannot be created, or not written to the end.                  *)
SaveFails ==
  /\ At("create") \/ At("write")
  /\ EndCommand /\ UNCHANGED <<savedIndex, answer>>

(* Slip: an index file that is cut short is read as an empty index.        *)
LoadTornToo(query, opts) ==
  /\ At("idle")
  /\ ran < MaxCommands /\ ran' = ran + 1
  /\ savedIndex # NoFile
  /\ searchIndex' = IF savedIndex # Torn THEN savedIndex
                      ELSE [entries |-> <<>>,
                            config |-> [blind |-> "Mild", granularity |-> "Function", k |-> "default"]]
  /\ command' = [name |-> "search", stage |-> "query", opts |-> Asking(opts, query)]
  /\ answer' = NoAnswer /\ report' = NoReport /\ html' = NoHtml
  /\ UNCHANGED <<disk, edits, todo, held, items, index, savedIndex, built>>

(* dupe search --index: without a whole index there is an error, and the   *)
(* options that would build one go unused.                                 *)
Load(query, opts) ==
  /\ At("idle")
  /\ ran < MaxCommands /\ ran' = ran + 1
  /\ savedIndex \notin {NoFile, Torn}
  /\ searchIndex' = savedIndex
  /\ command' = [name |-> "search", stage |-> "query", opts |-> Asking(opts, query)]
  /\ answer' = NoAnswer /\ report' = NoReport /\ html' = NoHtml
  /\ UNCHANGED <<disk, edits, todo, held, items, index, savedIndex, built>>

Answer ==
  /\ At("query")
  /\ LET query == command.opts.query
     IN  \E matches \in IF query.kind = "snippet" THEN SnippetAnswers(searchIndex, query)
                        ELSE KeywordAnswers(searchIndex, query) :
           answer' = [query |-> query, matches |-> matches, of |-> searchIndex]
  /\ EndCommand /\ UNCHANGED savedIndex

(* The process is killed.                                                  *)
Crash ==
  /\ command.name \in {"index", "search"}
  /\ EndCommand /\ UNCHANGED <<savedIndex, answer>>

-----------------------------------------------------------------------------
(* A search answers from an index that some command has built to its end:  *)
(* never from a file that a crash or an error has cut short.               *)
IndexWhole ==
  /\ At("query") => searchIndex \in built
  /\ answer # NoAnswer => answer.of \in built

(* Code that is in the index is found with its own text, as the first      *)
(* match and a full one, whatever the flags of the search say: what was    *)
(* used to build the index decides how the snippet is read.  No more than  *)
(* a full match can be asked for.                                          *)
VerbatimFound ==
  (/\ answer.query.kind = "snippet" /\ answer.query.top > 0
   /\ AtMost(answer.query.min, <<1, 1>>)
   /\ \E n \in DOMAIN answer.of.entries :
        /\ answer.of.entries[n].text = answer.query.text
        /\ answer.of.entries[n].lang = LangOfSnippet(answer.query))
  => answer.matches # <<>> /\ AtMost(<<1, 1>>, answer.matches[1].score)

(* Where a word of an identifier begins, read off the examples in the      *)
(* comment of split_identifier: after a separator, where capitals begin,   *)
(* and at the last of several capitals that are followed by lower case.    *)
BeginsWord(ident, n) ==
  /\ ident[n] \notin Separators
  /\ \/ n = 1
     \/ ident[n - 1] \in Separators
     \/ ident[n] \in Upper /\ ident[n - 1] \notin Upper
     \/ n < Len(ident) /\ ident[n] \in Upper /\ ident[n + 1] \in Lower

(* The last character of the word that begins at n.                        *)
LastOfWord(ident, n) ==
  Min({m \in (n + 1)..Len(ident) : BeginsWord(ident, m) \/ ident[m] \in Separators}
        \cup {Len(ident) + 1}) - 1

(* "Single-char tokens are dropped."                                       *)
WordFrom(ident, n) ==
  IF n = LastOfWord(ident, n) THEN <<>>
  ELSE <<[m \in 1..(LastOfWord(ident, n) - n + 1) |-> Lowered(ident[n + m - 1])]>>

WordsByBoundary(ident) ==
  FlattenSeq([n \in DOMAIN ident |->
                IF BeginsWord(ident, n) THEN WordFrom(ident, n) ELSE <<>>])

(* The comment drops words of one character, the code words of one byte: a *)
(* word that is one character of several bytes is kept.                    *)
HasLoneWide(ident) ==
  \E n \in DOMAIN ident :
    ident[n] \in Wide /\ BeginsWord(ident, n) /\ LastOfWord(ident, n) = n

(* The one-pass split takes every identifier of the query apart at its     *)
(* word boundaries, as the comment of split_identifier says: nothing of a  *)
(* word is lost, moved or kept in capitals.  Identifiers on which comment  *)
(* and code differ are left out.                                           *)
SplitsAtBoundaries ==
  answer.query.kind = "keywords" =>
    \A n \in DOMAIN answer.query.keywords :
      LET ident == answer.query.keywords[n]
      IN  ~HasLoneWide(ident) => SplitIdentifier(ident) = WordsByBoundary(ident)

(* A list of words as one identifier.                                      *)
Conventions == {"camelCase", "PascalCase", "snake_case", "kebab-case", "SCREAMING_CASE"}

UpperOf(ch) == CHOOSE u \in Upper : LowerOf[u] = ch

(* The n-th word of an identifier.                                         *)
SpelledWord(w, n, convention) ==
  LET joint(ch) == IF n = 1 THEN <<>> ELSE <<ch>>
      capital == <<UpperOf(w[1])>> \o Tail(w)
  IN  CASE convention = "camelCase" -> IF n = 1 THEN w ELSE capital
        [] convention = "PascalCase" -> capital
        [] convention = "snake_case" -> joint("_") \o w
        [] convention = "kebab-case" -> joint("-") \o w
        [] convention = "SCREAMING_CASE" -> joint("_") \o [m \in DOMAIN w |-> UpperOf(w[m])]

Spell(words, convention) ==
  FlattenSeq([n \in DOMAIN words |-> SpelledWord(words[n], n, convention)])

Spellings(words) == {Spell(words, c) : c \in Conventions}

(* An identifier is found by its words however it and the query spell      *)
(* them: it is among the matches unless as many as asked for are.          *)
KeywordsFound ==
  answer.query.kind = "keywords" =>
    \A words \in WordLists, n \in DOMAIN answer.of.entries :
      (/\ Range(Identifiers(answer.of.entries[n].text)) \cap Spellings(words) # {}
       /\ Range(answer.query.keywords) \cap Spellings(words) # {})
      => \/ Len(answer.matches) = answer.query.top
         \/ Match(answer.of, n, "bm25") \in Range(answer.matches)

(* What a search owes: the code and the identifiers that are there.        *)
SearchFinds == VerbatimFound /\ KeywordsFound
=============================================================================
