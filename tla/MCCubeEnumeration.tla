------------------------- MODULE MCCubeEnumeration -------------------------
(* CubeEnumeration on two inputs: every set of detecting patterns, every   *)
(* cube InlineXID could return, limits from none to more than can be used. *)
EXTENDS CubeEnumeration

MCLimits == {0, 1, 2, 3}
MCDensityCaps == {NoCap, 1, 3}
MCFailures == FailureKinds
=============================================================================
