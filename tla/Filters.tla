--------------------------------- MODULE Filters ---------------------------------
(* SelectSeq in the words of SequencesExt, so that proofs can open it. *)
EXTENDS Integers, Sequences, FiniteSets, SequencesExt, FiniteSetsExt

\* The entries of s that pass Test, in their order.
Filter(s, Test(_)) == FlattenSeq([i \in DOMAIN s |-> IF Test(s[i]) THEN <<s[i]>> ELSE <<>>])
=============================================================================
