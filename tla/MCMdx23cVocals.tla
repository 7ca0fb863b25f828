--------------------------- MODULE MCMdx23cVocals ---------------------------
(***************************************************************************)
(* Instances of Mdx23cVocals for TLC: a rate with segments of two frames,  *)
(* of which four are kept, and one so low that a segment rounds to none.   *)
(***************************************************************************)
EXTENDS Mdx23cVocals, TLC

CONSTANTS tiny, wide

BothFormats == {tiny, wide}
BothRates   == (tiny :> 2) @@ (wide :> 6)
OneOrTwo    == {1, 2}
=============================================================================
