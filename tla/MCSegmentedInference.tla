------------------------ MODULE MCSegmentedInference ------------------------
(***************************************************************************)
(* Instances of SegmentedInference for TLC: one rate with a segment of two *)
(* frames, and one with a segment of three.                                *)
(***************************************************************************)
EXTENDS SegmentedInference, TLC

CONSTANTS low, high

BothFormats == {low, high}
BothRates   == (low :> 4) @@ (high :> 6)
OneOrTwo    == {1, 2}
=============================================================================
