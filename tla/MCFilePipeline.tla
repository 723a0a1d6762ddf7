--------------------------- MODULE MCFilePipeline ---------------------------
(***************************************************************************)
(* FilePipeline for TLC: a language with line comments, nested block       *)
(* comments, strings, verbatim strings and documentation strings, every    *)
(* text of up to three pieces, and every text of six one-byte tokens of    *)
(* two kinds for the fingerprints.                                         *)
(***************************************************************************)
EXTENDS FilePipeline

Slash == "/"
Star == "*"
Quote == "'"
MCLineComments == << <<Slash, Slash>> >>
MCBlockComments == << << <<Slash, Star>>, <<Star, Slash>> >> >>
MCQuotes == <<
  [start |-> <<Quote>>, end |-> <<Quote>>, escape |-> TRUE],
  [start |-> <<"r", Quote>>, end |-> <<Quote>>, escape |-> FALSE],
  [start |-> <<Quote, Quote, Quote>>, end |-> <<Quote, Quote, Quote>>, escape |-> TRUE] >>

C == <<CommentOn>>
S == <<CodeOn>>
Closed == {
  Piece(<<"a">>, "Ident", S, TRUE),
  Piece(<<"1">>, "LitNumber", S, TRUE),
  Piece(<<" ">>, "space", <<OnlySpace>>, TRUE),
  Piece(<<Newline>>, "line break", <<Nothing, Nothing>>, TRUE),
  Piece(<<"+">>, "Punctuation", S, TRUE),
  Piece(<<Slash, Slash, Quote>>, "rest of line", C, TRUE),
  Piece(<<Slash, Star, Quote, Star, Slash>>, "comment", C, TRUE),
  Piece(<<Slash, Star, Slash, Star, Star, Slash, Star, Slash>>, "comment", C, TRUE),
  Piece(<<Slash, Star, Newline, Star, Slash>>, "comment", C \o C, TRUE),
  Piece(<<Quote, Slash, Slash, Quote>>, "LitString", S, TRUE),
  Piece(<<Quote, Backslash, Quote, Quote>>, "LitString", S, TRUE),
  Piece(<<Quote, Newline, Quote>>, "LitString", S \o S, TRUE),
  Piece(<<"r", Quote, Backslash, Quote>>, "LitString", S, TRUE),
  Piece(<<Quote, Quote, Quote, "a", Quote, "a", Quote, Quote, Quote>>, "LitString", S, TRUE) }
Open == { Piece(b, "open", <<Nothing>>, FALSE) : b \in
  { <<Slash, Star>>, <<Star, Slash>>, <<Quote>>, <<Backslash>>, <<Backslash, Newline>>, <<"u">> } }

Few(set, n) == UNION { [1 .. m -> set] : m \in 0 .. n }
Operators == { Piece(<<o>>, "Punctuation", S, TRUE) : o \in {"+", "-"} }
MCTexts == Few(Closed \cup Open, 3) \cup [1 .. 6 -> Operators]
MCProse == Few({"blank", "prose", "fence", "tagged"}, 4)
MCExtensions ==
  [ext \in {"rs", "css", "md", "bin"} |->
     IF ext = "bin" THEN NoLang
     ELSE [lang |-> ext, literate |-> ext = "md", sliced |-> ext = "rs"]]

\* Hashes of three bits: collisions and ties are common.
MCTokenHash(t) ==
  CASE t.kind = "Ident" -> 1
    [] t.kind = "LitNumber" -> 2
    [] t.kind = "LitString" -> 3
    [] t.text = <<"+">> -> 4
    [] OTHER -> 6
MCKGramHash(hs) == (hs[1] + 3 * hs[2] + (hs[1] * hs[2]) \div 8) % 8
MCMixA == "h" :> 4 @@ "g" :> 3
MCMixB == "h" :> 5 @@ "g" :> 0
=============================================================================
