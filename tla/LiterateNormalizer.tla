------------------------- MODULE LiterateNormalizer -------------------------
(***************************************************************************)
(* process_literate of normalizer/src/lib.rs beside the lexer: prose with  *)
(* fenced code is classified line by line.  A line is what the code tells  *)
(* apart after trimming it: blank, prose, a bare fence marker, or a fence  *)
(* marker with text after it.  The two markers ``` and ~~~ are one: each   *)
(* closes the other.                                                       *)
(***************************************************************************)
EXTENDS Normalizer

CONSTANT Prose  \* the texts to read: sequences of LineKinds

LineKinds == {"blank", "prose", "fence", "tagged"}
ASSUME ProseAssumption == Prose \subseteq Seq(LineKinds)

VARIABLES
  lines,         \* split_lines of the file
  pos,           \* how many of them have been read
  inFence, fenceHasLang

fenceVars == <<lines, pos, inFence, fenceHasLang>>
normalizerVars == <<lexVars, fenceVars>>

IsFence(kind) == kind \in {"fence", "tagged"}

\* The dispatch of process_with: a language is literate or has a marker table.
StandardInit ==
  /\ LexInit
  /\ lines = <<>> /\ pos = 0 /\ inFence = FALSE /\ fenceHasLang = FALSE

LiterateInit ==
  /\ lines \in Prose
  /\ pos = 0 /\ inFence = FALSE /\ fenceHasLang = FALSE
  /\ src = <<>> /\ i = 0 /\ line = 1 /\ lineStart = 0
  /\ lineHasCode = FALSE /\ lineHasComment = FALSE /\ sawAnyByte = FALSE
  /\ mode = "Literate"
  /\ depth = 0 /\ pairIdx = 0 /\ quoteIdx = 0 /\ tokenStart = 0
  /\ tokens = <<>> /\ counts = NoLines /\ swallowed = 0

NextLine(kinds) ==
  /\ mode = "Literate" /\ pos < Len(lines)
  /\ lines[pos + 1] \in kinds
  /\ pos' = pos + 1
  /\ UNCHANGED <<lines, src, i, lineVars, sawAnyByte, mode, blockVars, strVars, tokens, swallowed>>

BlankLine ==
  /\ NextLine({"blank"})
  /\ Commit(FALSE, FALSE)
  /\ UNCHANGED <<inFence, fenceHasLang>>

\* Slip: A marker with text after it does not
\* close a fence.
FenceLineTaggedOpens ==
  /\ NextLine({"fence", "tagged"})
  /\ Commit(FALSE, TRUE)
  /\ inFence' = (~inFence \/ lines[pos + 1] = "tagged")
  /\ fenceHasLang' = (lines[pos + 1] = "tagged")

FenceLine ==
  /\ NextLine({"fence", "tagged"})
  /\ Commit(FALSE, TRUE)
  /\ inFence' = ~inFence
  /\ fenceHasLang' = (~inFence /\ lines[pos + 1] = "tagged")

\* A line of text is a comment, unless it is in a fence that names its language.
ProseLine ==
  /\ NextLine({"prose"})
  /\ IF inFence /\ fenceHasLang THEN UNCHANGED counts ELSE Commit(FALSE, TRUE)
  /\ UNCHANGED <<inFence, fenceHasLang>>

LiterateDone ==
  /\ mode = "Literate" /\ pos = Len(lines)
  /\ mode' = "Done"
  /\ UNCHANGED <<src, i, lineVars, sawAnyByte, blockVars, strVars, tokens, counts, swallowed, fenceVars>>

NormalizerNext ==
  \/ LexNext /\ UNCHANGED fenceVars
  \/ BlankLine \/ FenceLine \/ ProseLine \/ LiterateDone

-----------------------------------------------------------------------------
\* Fences open and close in turn, so a line is fenced when an odd number of
\* fence lines precede it, the last of which opened the fence.
FencesBefore(n) == { o \in 1 .. (n - 1) : IsFence(lines[o]) }
InTaggedFence(n) ==
  /\ Cardinality(FencesBefore(n)) % 2 = 1
  /\ \E o \in FencesBefore(n) : (\A p \in FencesBefore(n) : p <= o) /\ lines[o] = "tagged"

\* Of the lines read, the fence markers and the text outside fences that name a
\* language are counted once, as comment, and none as code; blank lines are
\* counted once as blank where all of them are outside such fences.  The comment
\* at lib.rs:290 excludes every line inside them, and the code counts the blank
\* ones all the same, so texts that have any are left out of the last conjunct.
LiterateCounts ==
  lines # <<>> =>
    /\ counts.code = 0
    /\ counts.comment = Cardinality({ n \in 1 .. pos :
         IsFence(lines[n]) \/ (lines[n] = "prose" /\ ~InTaggedFence(n)) })
    /\ (\A n \in 1 .. pos : lines[n] = "blank" => ~InTaggedFence(n)) =>
         counts.blank = Cardinality({ n \in 1 .. pos : lines[n] = "blank" })
=============================================================================
