---------------------------- MODULE WrittenText ----------------------------
(***************************************************************************)
(* What a text means to the one who wrote it: a text is a sequence of      *)
(* pieces (a word, a string, a comment, ...), each with its bytes, the     *)
(* token it is and the class of each line it touches.  The lexer, which    *)
(* sees only the bytes, must find the same tokens and lines.               *)
(***************************************************************************)
EXTENDS Integers, Sequences, FiniteSets, SequencesExt

\* Classes of what is on a line, by precedence.
Nothing == 0
OnlySpace == 1
CommentOn == 2
CodeOn == 3

\* A piece; `touches` lists the class it gives each line it is on, `closed` is
\* FALSE where its bytes do not end what they begin.
Piece(bytes, token, touches, closed) ==
  [bytes |-> bytes, token |-> token, touches |-> touches, closed |-> closed]

BytesOf(pieces) == FlattenSeq([n \in DOMAIN pieces |-> pieces[n].bytes])

\* Two pieces side by side that the bytes alone do not tell apart, and a line
\* comment that something follows on its line.
Fused(p, q) ==
  \/ p.token \in {"Ident", "LitNumber"} /\ q.token \in {"Ident", "LitNumber", "LitString"}
  \/ p.token = "rest of line" /\ q.token # "line break"

WellFormed(pieces) ==
  /\ \A n \in DOMAIN pieces : pieces[n].closed
  /\ \A n \in 2 .. Len(pieces) : ~Fused(pieces[n - 1], pieces[n])

\* The tokens, with the bytes they span.
StartOf(pieces, n) == Len(BytesOf(SubSeq(pieces, 1, n - 1)))
WrittenTokens(pieces) ==
  { [kind |-> pieces[n].token, start |-> StartOf(pieces, n), end |-> StartOf(pieces, n + 1)] :
      n \in { m \in DOMAIN pieces :
                pieces[m].token \in {"Ident", "LitNumber", "LitString", "Punctuation"} } }

\* The classes of the lines: the first line of a piece is the last one so far.
Larger(a, b) == IF a < b THEN b ELSE a
WrittenLines(pieces) ==
  FoldLeft(LAMBDA ls, p : Front(ls) \o <<Larger(Last(ls), Head(p.touches))>> \o Tail(p.touches),
           <<Nothing>>, pieces)

\* A line that ends in a line break counts; the last one does if it has a byte.
WrittenCount(pieces, classes) ==
  LET ls == WrittenLines(pieces)
  IN  Cardinality({ n \in DOMAIN ls : ls[n] \in classes /\ (n < Len(ls) \/ ls[n] # Nothing) })
=============================================================================
