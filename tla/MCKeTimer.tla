----------------------------- MODULE MCKeTimer -----------------------------
(***************************************************************************)
(* Small instances of KeTimer for TLC.                                     *)
(***************************************************************************)
EXTENDS KeTimer, TLC

\* Intervals are enumerated, milliseconds per tick are 2 in all instances.
Short    == {1, 3}
Long     == {1, 5}
Symmetry == Permutations(Timer \ DpcTimers)
=============================================================================
