----------------------------- MODULE MCCommands -----------------------------
(***************************************************************************)
(* Commands for TLC.  Two files of one language and a test in another that *)
(* cannot be sliced.  The functions are chosen so that pairs are equal,    *)
(* contained in one another, too far apart, and close without a band in    *)
(* common; one has a fingerprint twice.  The two slots of a sketch are the *)
(* least and the greatest fingerprint: MinHash with two permutations.      *)
(***************************************************************************)
EXTENDS Commands

MCComponents == [a |-> <<"src", "a">>, b |-> <<"lib", "b">>, t |-> <<"tests", "t">>]
MCLangOf == [a |-> "Python", b |-> "Python", t |-> "Markdown"]

Fn(text, name) == [text |-> text, granule |-> [name |-> name, lines |-> text]]
MCFunctions(content) ==
  CASE content = "one" -> <<Fn("x", "ab")>>
    [] content = "two" -> <<Fn("x", "new"), Fn("xy", "cd")>>
    [] content = "mid" -> <<Fn("y", "cd"), Fn("z", "ef")>>

Base ==
  [x |-> <<1, 2, 3>>, xy |-> <<1, 2, 3, 3, 4>>, y |-> <<4, 2, 3, 5>>, z |-> <<9>>,
   one |-> <<1, 2, 3>>, two |-> <<1, 2, 3, 1, 2, 3, 4>>, mid |-> <<4, 2, 3, 5, 9>>,
   none |-> <<>>]

MCHashes(text, lang, blind, k) ==
  LET shift == (IF blind = "Mild" THEN 0 ELSE 10) + (IF k = "default" THEN 0 ELSE 20)
  IN  [n \in DOMAIN Base[text] |-> Base[text][n] + shift]

MCSketchOf(S) == <<Min(S), Max(S)>>

MCUpper == {"A", "B", "E'"}
MCLower == {"a", "b", "e'"}
MCLowerOf == "A" :> "a" @@ "B" :> "b" @@ "E'" :> "e'"

Letters == {"a", "b"}
TwoLetters == [1 .. 2 -> Letters]
MCWordLists == {<<w>> : w \in TwoLetters} \cup (TwoLetters \X TwoLetters)

AbBa == <<"a", "b", "B", "a">>
AB_BA == <<"A", "B", "_", "B", "A">>
MCIdentifiers(text) ==
  CASE text \in {"x", "one"} -> <<AbBa>>
    [] text = "xy" -> <<AbBa, AB_BA, <<"a", "a">>>>
    [] OTHER -> <<<<"a", "a">>, <<"a", "A", "a">>>>

\* Every identifier of four characters out of four kinds, and some that
\* have a character of two bytes.
Alphabet == <<"a", "B", "1", "_">>
AllIdentifiers ==
  [n \in 1 .. 256 |->
     [m \in 1 .. 4 |-> Alphabet[1 + (((n - 1) \div (4 ^ (m - 1))) % 4)]]]
  \o <<<<"E'", "B", "a">>, <<"e'", "B">>, <<"a", "_", "E'">>, <<"E'", "e'", "E'">>>>

Base0 == [granularity |-> "Function", blind |-> "Mild", k |-> "default", onlyLang |-> AnyLang,
          exclude |-> {}, naive |-> FALSE, min |-> <<1, 2>>, minShared |-> 1, maxBucket |-> 9,
          root |-> <<"home">>, top |-> 9, html |-> FALSE]

MCScanOpts == {
  Base0,
  [Base0 EXCEPT !.min = <<0, 1>>, !.root = <<"tests", "x">>, !.blind = "Strict"],
  [Base0 EXCEPT !.html = TRUE, !.top = 2],
  [Base0 EXCEPT !.naive = TRUE, !.minShared = 2],
  [Base0 EXCEPT !.naive = TRUE, !.maxBucket = 1],
  [Base0 EXCEPT !.granularity = "File", !.html = TRUE],
  [Base0 EXCEPT !.granularity = "File", !.naive = TRUE, !.exclude = {"b"}],
  [Base0 EXCEPT !.granularity = "File", !.onlyLang = "Python"] }

MCIndexOpts == {Base0, [Base0 EXCEPT !.blind = "Strict"],
                [Base0 EXCEPT !.granularity = "File", !.k = "wide"]}
MCSearchOpts == {Base0}

Snippet(text, hint, min, top) ==
  [kind |-> "snippet", text |-> text, hint |-> hint, min |-> min, top |-> top]
Keywords(idents, top) == [kind |-> "keywords", keywords |-> idents, top |-> top]
MCQueriesIn == {
  Snippet("x", "Python", <<1, 1>>, 1), Snippet("y", NoHint, <<1, 3>>, 9),
  Keywords(<<<<"A", "b", "B", "a">>>>, 9) }
MCQueries == {
  Snippet("x", "Python", <<1, 1>>, 1), Snippet("xy", "py", <<1, 2>>, 9),
  Snippet("one", "md", <<4, 5>>, 1),
  Snippet("none", NoHint, <<1, 2>>, 9),
  Keywords(<<<<"A", "B", "_", "b", "a">>, <<"a", "a">>>>, 1),
  Keywords(AllIdentifiers, 9) }
MCLangByExtension == "py" :> "Python" @@ "md" :> "Markdown"
MCGuessLang(text) == IF text = "y" THEN "Markdown" ELSE "Python"

MCDisks == {
  [a |-> "one", b |-> "two", t |-> "one"],
  [a |-> "mid", b |-> "two", t |-> "two"],
  [a |-> "mid", b |-> Absent, t |-> "mid"] }

Given(o, raw) == [NoOptions EXCEPT ![o] = raw]
MCGivens == {
  NoOptions,
  [Given("highlightTop", 1) EXCEPT !["minJaccard"] = <<1, 2>>],
  [Given("highlightTop", 2) EXCEPT !["minJaccard"] = <<1, 4>>, !["tailSeverity"] = "off"],
  [Given("highlightTop", 0) EXCEPT !["minJaccard"] = <<1, 2>>, !["highlightSeverity"] = "hint"],
  [Given("highlightSeverity", "off") EXCEPT !["minJaccard"] = <<1, 2>>],
  [Given("blind", "exact") EXCEPT !["granularity"] = "file", !["minJaccard"] = <<1, 3>>],
  [Given("minJaccard", <<3, 2>>) EXCEPT !["blind"] = "aggressive"],
  [Given("rescanOnSave", IllTyped) EXCEPT !["highlightTop"] = 1] }
MCParams == {
  [folders |-> <<<<"tests">>>>, rootUri |-> <<"home">>],
  [folders |-> <<NoRoot>>, rootUri |-> <<"home">>],
  [folders |-> <<>>, rootUri |-> NoRoot] }
=============================================================================
