--------------------------- MODULE MCConfirmGate ---------------------------
(***************************************************************************)
(* Small instances of ConfirmGate for TLC.                                 *)
(***************************************************************************)
EXTENDS ConfirmGate, TLC

\* Tokens, writes and threads are interchangeable: no property names one.
Symmetry == Permutations(Tokens) \cup Permutations(Writes) \cup Permutations(Calls)
=============================================================================
