---------------------------- MODULE MCTurnTrace ----------------------------
(***************************************************************************)
(* Small instances of TurnTrace for TLC.                                   *)
(***************************************************************************)
EXTENDS TurnTrace, TLC

\* Requests and turns are interchangeable: no property names one.
Symmetry == Permutations(Requests) \cup Permutations(Turns)
=============================================================================
