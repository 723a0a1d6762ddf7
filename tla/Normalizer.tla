----------------------------- MODULE Normalizer -----------------------------
(***************************************************************************)
(* The lexer of normalizer/src/lib.rs: one pass over the bytes of a file,  *)
(* which emits tokens and classifies each line as code, comment or blank.  *)
(* One action for each branch of the loop of process_standard; a language  *)
(* is the table of markers that `compile` builds.                          *)
(*                                                                         *)
(* A byte is an element of the classes the code tells apart.  Positions    *)
(* count from 0 as in the code: the byte at i is src[i + 1].               *)
(***************************************************************************)
EXTENDS Integers, Sequences, FiniteSets

CONSTANTS
  Newline, Backslash, \* the two bytes the code names
  SpaceBytes,         \* the other ASCII white space
  WordBytes,          \* letters, digits and underscore
  DigitBytes,         \* the digits among them
  HighBytes,          \* bytes that are no UTF-8 text by themselves
  LineComments,       \* markers, a sequence of byte sequences
  BlockComments,      \* <<start, end>> pairs, in the order of the table
  Nested,             \* do block comments nest?
  Quotes,             \* records start, end and escape
  Blind               \* "Strict", "Mild" or "Aggressive"

IsSequence(s) == s \in Seq({ s[n] : n \in DOMAIN s })

Markers ==
  { LineComments[n] : n \in DOMAIN LineComments }
    \cup UNION { { BlockComments[n][1], BlockComments[n][2] } : n \in DOMAIN BlockComments }
    \cup UNION { { Quotes[n].start, Quotes[n].end } : n \in DOMAIN Quotes }

\* The markers are three lists in a language's table.  None is empty or holds a
\* line break.
ASSUME NormalizerAssumption ==
  /\ LineComments \in Seq(Markers)
  /\ BlockComments \in Seq(Markers \X Markers)
  /\ Quotes \in Seq([start : Markers, end : Markers, escape : BOOLEAN])
  /\ Newline \notin SpaceBytes \cup WordBytes \cup HighBytes \cup {Backslash}
  /\ DigitBytes \subseteq WordBytes
  /\ Blind \in {"Strict", "Mild", "Aggressive"}
  /\ Nested \in BOOLEAN
  /\ \A mk \in Markers : IsSequence(mk) /\ mk # <<>> /\ \A n \in DOMAIN mk : mk[n] # Newline

VARIABLES
  src,                          \* the file
  i,                            \* the cursor
  line, lineStart,              \* number and first byte of the current line
  lineHasCode, lineHasComment, sawAnyByte,
  mode,                         \* in LexModes, or "Literate"; "Done" past the loop
  depth, pairIdx,               \* of BlockComment
  quoteIdx, tokenStart,         \* of Str
  tokens,                       \* what has been emitted
  counts,                       \* lines committed as code, comment and blank
  swallowed                     \* history: line breaks an escape stepped over

lineVars == <<line, lineStart, lineHasCode, lineHasComment>>
blockVars == <<depth, pairIdx>>
strVars == <<quoteIdx, tokenStart>>
lexVars == <<src, i, lineVars, sawAnyByte, mode, blockVars, strVars, tokens, counts, swallowed>>

-----------------------------------------------------------------------------
\* Matching a marker at the cursor.

StartsWith(needle) ==
  /\ i + Len(needle) <= Len(src)
  /\ SubSeq(src, i + 1, i + Len(needle)) = needle

\* `compile` sorts the markers longest first and keeps the order of equals, so
\* the first that matches is the longest, the earliest among equals.
Matching(needles) == { n \in DOMAIN needles : StartsWith(needles[n]) }
\* Slip: The markers are tried in the order of the table, not longest first.
FirstMatchInTableOrder(needles) ==
  CHOOSE n \in Matching(needles) : \A o \in Matching(needles) : n <= o

FirstMatch(needles) ==
  CHOOSE n \in Matching(needles) :
    \A o \in Matching(needles) \ {n} :
      \/ Len(needles[o]) < Len(needles[n])
      \/ Len(needles[o]) = Len(needles[n]) /\ n < o

BlockStarts == [n \in DOMAIN BlockComments |-> BlockComments[n][1]]
QuoteStarts == [n \in DOMAIN Quotes |-> Quotes[n].start]
AtLineComment == Matching(LineComments) # {}
AtBlockComment == Matching(BlockStarts) # {}
AtQuote == Matching(QuoteStarts) # {}

\* The end of the run of word bytes that starts at the cursor.
WordEnd == CHOOSE e \in (i + 1) .. Len(src) :
             /\ \A n \in i .. (e - 1) : src[n + 1] \in WordBytes
             /\ e < Len(src) => src[e + 1] \notin WordBytes

\* What keep_text leaves of a text; <<>> stands for None.
KeepText(text, kind) ==
  IF \/ kind = "Ident" /\ Blind = "Aggressive"
     \/ kind = "LitNumber" /\ Blind # "Strict"
     \/ kind = "LitString" /\ Blind # "Strict"
     \/ \E n \in DOMAIN text : kind = "Punctuation" /\ text[n] \in HighBytes
    THEN <<>> ELSE text

Token(kind, from, to) ==
  [ kind |-> kind, text |-> KeepText(SubSeq(src, from + 1, to), kind),
    start |-> from, end |-> to, line |-> line,
    col |-> (IF from > lineStart THEN from - lineStart ELSE 0) + 1 ]

LexModes == {"Code", "LineComment", "BlockComment", "Str"}
NoLines == [code |-> 0, comment |-> 0, blank |-> 0]
Total == counts.code + counts.comment + counts.blank

Commit(hasCode, hasComment) ==
  LET class == IF hasCode THEN "code" ELSE IF hasComment THEN "comment" ELSE "blank"
  IN  counts' = [counts EXCEPT ![class] = @ + 1]

-----------------------------------------------------------------------------
\* The text is any sequence of bytes, chosen by the pipeline.
LexInit ==
  /\ i = 0 /\ line = 1 /\ lineStart = 0
  /\ lineHasCode = FALSE /\ lineHasComment = FALSE /\ sawAnyByte = FALSE
  /\ mode = "Code"
  /\ depth = 0 /\ pairIdx = 0 /\ quoteIdx = 0 /\ tokenStart = 0
  /\ tokens = <<>>
  /\ counts = NoLines
  /\ swallowed = 0

\* A line break ends the line in every state; the next line inherits the class
\* of an open string or block comment.
LineBreak ==
  /\ mode \in LexModes /\ i < Len(src) /\ src[i + 1] = Newline
  /\ Commit(lineHasCode, lineHasComment)
  /\ line' = line + 1
  /\ lineStart' = i + 1
  /\ lineHasCode' = (mode = "Str")
  /\ lineHasComment' = (mode = "BlockComment")
  /\ sawAnyByte' = FALSE
  /\ mode' = IF mode = "LineComment" THEN "Code" ELSE mode
  /\ i' = i + 1
  /\ UNCHANGED <<src, blockVars, strVars, tokens, swallowed>>

\* Any other byte, read in the given state.
ByteIn(m) ==
  /\ mode = m
  /\ i < Len(src) /\ src[i + 1] # Newline
  /\ sawAnyByte' = TRUE
  /\ UNCHANGED <<src, line, lineStart, counts>>

OpenLineComment ==
  /\ ByteIn("Code")
  /\ AtLineComment
  /\ mode' = "LineComment"
  /\ lineHasComment' = TRUE
  /\ i' = i + Len(LineComments[FirstMatch(LineComments)])
  /\ UNCHANGED <<lineHasCode, blockVars, strVars, tokens, swallowed>>

OpenBlockComment ==
  /\ ByteIn("Code")
  /\ ~AtLineComment /\ AtBlockComment
  /\ mode' = "BlockComment"
  /\ depth' = 1
  /\ pairIdx' = FirstMatch(BlockStarts)
  /\ lineHasComment' = TRUE
  /\ i' = i + Len(BlockStarts[pairIdx'])
  /\ UNCHANGED <<lineHasCode, strVars, tokens, swallowed>>

\* Slip: A string does not record where it began.
OpenStringKeepingStart ==
  /\ ByteIn("Code")
  /\ ~AtLineComment /\ ~AtBlockComment /\ AtQuote
  /\ mode' = "Str"
  /\ quoteIdx' = FirstMatch(QuoteStarts)
  /\ lineHasCode' = TRUE
  /\ i' = i + Len(QuoteStarts[quoteIdx'])
  /\ UNCHANGED <<tokenStart, lineHasComment, blockVars, tokens, swallowed>>

OpenString ==
  /\ ByteIn("Code")
  /\ ~AtLineComment /\ ~AtBlockComment /\ AtQuote
  /\ mode' = "Str"
  /\ quoteIdx' = FirstMatch(QuoteStarts)
  /\ tokenStart' = i
  /\ lineHasCode' = TRUE
  /\ i' = i + Len(QuoteStarts[quoteIdx'])
  /\ UNCHANGED <<lineHasComment, blockVars, tokens, swallowed>>

\* Code that opens nothing.
PlainCode ==
  /\ ByteIn("Code")
  /\ ~AtLineComment /\ ~AtBlockComment /\ ~AtQuote
  /\ UNCHANGED <<mode, lineHasComment, blockVars, strVars, swallowed>>

SkipSpace ==
  /\ PlainCode
  /\ src[i + 1] \in SpaceBytes
  /\ i' = i + 1
  /\ UNCHANGED <<lineHasCode, tokens>>

TakeWord ==
  /\ PlainCode
  /\ src[i + 1] \in WordBytes
  /\ i' = WordEnd
  /\ lineHasCode' = TRUE
  /\ tokens' = Append(tokens, Token(IF src[i + 1] \in DigitBytes THEN "LitNumber" ELSE "Ident", i, i'))

TakePunctuation ==
  /\ PlainCode
  /\ src[i + 1] \notin WordBytes \cup SpaceBytes
  /\ i' = i + 1
  /\ lineHasCode' = TRUE
  /\ tokens' = Append(tokens, Token("Punctuation", i, i'))

InLineComment ==
  /\ ByteIn("LineComment")
  /\ i' = i + 1
  /\ UNCHANGED <<mode, lineHasCode, lineHasComment, blockVars, strVars, tokens, swallowed>>

\* A byte of a block comment: the end marker is looked for first, then, where
\* comments nest, the start marker of the pair that opened.
InBlock ==
  /\ ByteIn("BlockComment")
  /\ lineHasComment' = TRUE
  /\ UNCHANGED <<lineHasCode, pairIdx, strVars, tokens, swallowed>>

CloseBlock ==
  /\ InBlock
  /\ StartsWith(BlockComments[pairIdx][2])
  /\ depth' = depth - 1
  /\ mode' = IF depth' = 0 THEN "Code" ELSE "BlockComment"
  /\ i' = i + Len(BlockComments[pairIdx][2])

NestBlock ==
  /\ InBlock
  /\ ~StartsWith(BlockComments[pairIdx][2])
  /\ Nested /\ StartsWith(BlockComments[pairIdx][1])
  /\ depth' = depth + 1
  /\ i' = i + Len(BlockComments[pairIdx][1])
  /\ UNCHANGED mode

SkipBlockByte ==
  /\ InBlock
  /\ ~StartsWith(BlockComments[pairIdx][2])
  /\ ~(Nested /\ StartsWith(BlockComments[pairIdx][1]))
  /\ i' = i + 1
  /\ UNCHANGED <<mode, depth>>

InString ==
  /\ ByteIn("Str")
  /\ lineHasCode' = TRUE
  /\ UNCHANGED <<lineHasComment, blockVars, strVars>>

Escapes == Quotes[quoteIdx].escape /\ src[i + 1] = Backslash /\ i + 1 < Len(src)

\* Slip: An escape does not advance.
SkipEscapedInPlace ==
  /\ InString
  /\ Escapes
  /\ UNCHANGED <<i, swallowed, mode, tokens>>

\* The escaped byte is stepped over unread, a line break too: the line that it
\* ends is then never committed.
SkipEscaped ==
  /\ InString
  /\ Escapes
  /\ i' = i + 2
  /\ swallowed' = IF src[i + 2] = Newline THEN swallowed + 1 ELSE swallowed
  /\ UNCHANGED <<mode, tokens>>

CloseString ==
  /\ InString
  /\ ~Escapes /\ StartsWith(Quotes[quoteIdx].end)
  /\ i' = i + Len(Quotes[quoteIdx].end)
  /\ tokens' = Append(tokens, Token("LitString", tokenStart, i'))
  /\ mode' = "Code"
  /\ UNCHANGED swallowed

SkipStringByte ==
  /\ InString
  /\ ~Escapes /\ ~StartsWith(Quotes[quoteIdx].end)
  /\ i' = i + 1
  /\ UNCHANGED <<mode, tokens, swallowed>>

\* Slip: The last line is committed though nothing is on it.
FinishAlways ==
  /\ mode \in LexModes /\ i >= Len(src)
  /\ Commit(lineHasCode, lineHasComment)
  /\ mode' = "Done"
  /\ UNCHANGED <<src, i, lineVars, sawAnyByte, blockVars, strVars, tokens, swallowed>>

\* Past the loop, the last line is committed if anything was on it.
Finish ==
  /\ mode \in LexModes /\ i >= Len(src)
  /\ IF sawAnyByte \/ lineHasCode \/ lineHasComment
       THEN Commit(lineHasCode, lineHasComment)
       ELSE UNCHANGED counts
  /\ mode' = "Done"
  /\ UNCHANGED <<src, i, lineVars, sawAnyByte, blockVars, strVars, tokens, swallowed>>

-----------------------------------------------------------------------------
LexNext ==
  \/ LineBreak
  \/ OpenLineComment \/ OpenBlockComment \/ OpenString
  \/ SkipSpace \/ TakeWord \/ TakePunctuation
  \/ InLineComment
  \/ CloseBlock \/ NestBlock \/ SkipBlockByte
  \/ SkipEscaped \/ CloseString \/ SkipStringByte
  \/ Finish
=============================================================================
