---------------------------- MODULE MCDUIWindows ----------------------------
(***************************************************************************)
(* DUIWindows for TLC: a few windows, a few dialogs in each.               *)
(***************************************************************************)
EXTENDS DUIWindows, TLC

CONSTANTS w1, w2
Windows == {w1, w2}
Symmetry == Permutations(Windows)
=============================================================================
