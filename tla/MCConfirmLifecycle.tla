------------------------ MODULE MCConfirmLifecycle -------------------------
(***************************************************************************)
(* Small instances of ConfirmLifecycle for TLC.                            *)
(***************************************************************************)
EXTENDS ConfirmLifecycle, TLC

\* Tokens and handlers are interchangeable: no property names one.
Symmetry == Permutations(Tokens) \cup Permutations(Calls)
=============================================================================
