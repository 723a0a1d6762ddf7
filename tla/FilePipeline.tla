---------------------------- MODULE FilePipeline ----------------------------
(***************************************************************************)
(* process_path of engine/src/lib.rs for one file: the language by the     *)
(* file's extension, the normalizer over the whole text, and an item for   *)
(* the file or for a function of it, fingerprinted from the tokens that    *)
(* start in the function's bytes.  Tree-sitter, which finds the functions, *)
(* is external: a function is any range of bytes.                          *)
(***************************************************************************)
EXTENDS LiterateNormalizer, Fingerprinter, WrittenText

CONSTANTS
  Texts,        \* sequences of pieces: what files may hold
  Extensions,   \* records lang, literate and sliced for each extension; NoLang where unknown
  NoLang,
  OnlyLangs,    \* the languages --lang may ask for, NoLang for all
  MaxSliced     \* functions are looked for in texts of at most so many bytes

ASSUME FilePipelineAssumption ==
  \A text \in Texts : IsSequence(text) /\ \A n \in DOMAIN text : IsSequence(text[n].bytes)

VARIABLES
  written,      \* the pieces the file was written from
  extension,    \* the file's extension
  granularity,  \* "File" or "Function"
  onlyLang      \* the language asked for

fileVars == <<written, extension, granularity, onlyLang>>
pipelineVars == <<normalizerVars, fpVars, fileVars>>

LanguageOf(ext) == Extensions[ext]
IsLiterate(ext) == LanguageOf(ext) # NoLang /\ LanguageOf(ext).literate

\* The early returns of process_path before the file is read: no language for
\* the extension, another language than was asked for.
Wanted ==
  /\ LanguageOf(extension) # NoLang
  /\ onlyLang = NoLang \/ LanguageOf(extension).lang = onlyLang

\* A literate language has line kinds for a text, the others have bytes; a file
\* that is not read may as well be empty.
PipelineInit ==
  /\ extension \in DOMAIN Extensions
  /\ onlyLang \in OnlyLangs
  /\ FingerprinterInit
  /\ \/ IsLiterate(extension) /\ written = <<>> /\ LiterateInit
     \/ /\ ~IsLiterate(extension)
        /\ written \in IF Wanted THEN Texts ELSE {<<>>}
        /\ src = BytesOf(written)
        /\ StandardInit
  /\ granularity \in IF Len(src) <= MaxSliced THEN {"File", "Function"} ELSE {"File"}

Reject ==
  /\ phase = "idle" /\ ~Wanted
  /\ phase' = "none"
  /\ UNCHANGED <<normalizerVars, fileVars, granule, kgrams, start, fps, todo, sketch>>

Normalize ==
  /\ phase = "idle" /\ Wanted
  /\ NormalizerNext
  /\ UNCHANGED <<fpVars, fileVars>>

\* partition_point: where the tokens stop to satisfy a test, by the first that
\* fails it.
PartitionPoint(byte) ==
  LET failing == { n \in DOMAIN tokens : tokens[n].start >= byte }
  IN  IF failing = {} THEN Len(tokens) ELSE (CHOOSE n \in failing : \A o \in failing : n <= o) - 1

TokensInByteRange(from, to) == SubSeq(tokens, PartitionPoint(from) + 1, PartitionPoint(to))

Lexed == phase = "idle" /\ Wanted /\ mode = "Done"

\* No tokens, no item; nor functions in a language the slicer does not know.
NothingToIndex ==
  /\ Lexed
  /\ tokens = <<>> \/ (granularity = "Function" /\ ~LanguageOf(extension).sliced)
  /\ phase' = "none"
  /\ UNCHANGED <<normalizerVars, fileVars, granule, kgrams, start, fps, todo, sketch>>

TakeFile ==
  /\ Lexed /\ tokens # <<>> /\ granularity = "File"
  /\ Begin(tokens)
  /\ UNCHANGED <<normalizerVars, fileVars>>

TakeFunction ==
  /\ Lexed /\ tokens # <<>> /\ granularity = "Function" /\ LanguageOf(extension).sliced
  /\ \E from, to \in 0 .. Len(src) : from < to /\ Begin(TokensInByteRange(from, to))
  /\ UNCHANGED <<normalizerVars, fileVars>>

Fingerprint ==
  /\ FingerprinterNext
  /\ UNCHANGED <<normalizerVars, fileVars>>

PipelineNext ==
  \/ Reject \/ Normalize \/ NothingToIndex \/ TakeFile \/ TakeFunction \/ Fingerprint

PipelineSpec == PipelineInit /\ [][PipelineNext]_pipelineVars /\ WF_pipelineVars(PipelineNext)

-----------------------------------------------------------------------------
PipelineTypeOK ==
  /\ i \in 0 .. Len(src) /\ lineStart \in 0 .. Len(src) /\ tokenStart \in 0 .. Len(src)
  /\ mode \in LexModes \cup {"Literate", "Done"}
  /\ mode = "BlockComment" => depth > 0 /\ pairIdx \in DOMAIN BlockComments
  /\ mode = "Str" => quoteIdx \in DOMAIN Quotes
  /\ \A c \in DOMAIN counts : counts[c] \in Nat
  /\ phase \in {"idle", "winnow", "sketch", "item", "none"}
  /\ start \in 0 .. Len(kgrams)
  /\ \A n \in DOMAIN kgrams : kgrams[n] \in Hashes
  /\ todo \subseteq FpHashes
  /\ sketch \in [Slots -> Hashes]

\* The lexer finds in the bytes what was written: the tokens with their bytes
\* and the class of every line, with comment marks in strings, quotes in
\* comments, nested comments and escaped quotes.
LexesAsWritten ==
  mode = "Done" /\ lines = <<>> /\ WellFormed(written) =>
    /\ { [kind |-> tokens[n].kind, start |-> tokens[n].start, end |-> tokens[n].end] :
           n \in DOMAIN tokens } = WrittenTokens(written)
    /\ counts.code = WrittenCount(written, {CodeOn})
    /\ counts.comment = WrittenCount(written, {CommentOn})
    /\ counts.blank = WrittenCount(written, {Nothing, OnlySpace})

\* Whatever the bytes are, tokens come in order and apart, behind the cursor:
\* what the binary searches of tokens_in_byte_range rely on.
TokensOrdered ==
  /\ \A n \in DOMAIN tokens : tokens[n].start < tokens[n].end /\ tokens[n].end <= i
  /\ \A n \in 2 .. Len(tokens) : tokens[n - 1].end <= tokens[n].start
  /\ mode = "Str" => \A n \in DOMAIN tokens : tokens[n].end <= tokenStart

\* What every step of the lexer keeps.
LexerConsistent == PipelineTypeOK /\ TokensOrdered

\* Whatever the bytes are, each line break passed has committed one line, and the
\* text past the last line break is one more line if it has a byte: what tokens
\* report as their line is the number of line breaks before them, plus one.  Two
\* kinds of text are left out, whose counts differ: an escape that steps over a
\* line break (see EscapedBreaksEndLines), and a string or comment still open at
\* a final line break, for which the code commits one line more.
LineBreaks(to) == Cardinality({ n \in 1 .. to : src[n] = Newline })
OpenAtLineStart == lineStart = Len(src) /\ (lineHasCode \/ lineHasComment)
LinesAccounted ==
  lines = <<>> /\ swallowed = 0 =>
    /\ line = LineBreaks(i) + 1
    /\ lineStart > 0 => src[lineStart] = Newline
    /\ mode # "Done" => Total = LineBreaks(i)
    /\ mode = "Done" /\ ~OpenAtLineStart =>
         Total = LineBreaks(i) + IF lineStart < Len(src) THEN 1 ELSE 0

\* What the comment at the escape of process_standard says (lib.rs:247): a line
\* break behind a backslash "still terminates the logical line for our counter".
\* It does not: the cursor steps over it, and no line is committed for it.
EscapedBreaksEndLines == mode = "Done" /\ lines = <<>> => Total >= LineBreaks(Len(src))

\* The loops end for every text: with an item or with none.
PipelineEnds == <>(phase \in {"item", "none"})
=============================================================================
