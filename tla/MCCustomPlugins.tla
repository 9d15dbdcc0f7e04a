--------------------------- MODULE MCCustomPlugins ---------------------------
(* A small instance of CustomPlugins for TLC: three calls, of which two are  *)
(* let through per window of two ticks.                                      *)
EXTENDS CustomPlugins, TLC

CONSTANTS c1, c2, c3

MCCalls == {c1, c2, c3}
Symmetry == Permutations(MCCalls)
=============================================================================
