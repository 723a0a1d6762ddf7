----------------------------- MODULE MCLshIndex -----------------------------
(* The LSH index with two bands of two rows over slots 0 and 1, and        *)
(* sketches that share both, one or no band: the second agrees with the    *)
(* first on one band, the third agrees with it on half its slots but on no *)
(* whole band.                                                             *)
EXTENDS LshIndex

MCSketches == {<<0, 0, 0, 0>>, <<0, 0, 1, 1>>, <<0, 1, 0, 1>>, <<1, 0, 1, 1>>}
=============================================================================
