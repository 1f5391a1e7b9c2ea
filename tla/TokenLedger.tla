---------------------------- MODULE TokenLedger ----------------------------
(***************************************************************************)
(* What the confirmation gate promises, without statements, threads or     *)
(* clocks: a token is minted once as the record of one human decision, a   *)
(* confirmed one can be spent once, and only a spent one can carry a       *)
(* write, once.  A token may stop short anywhere on that road.             *)
(*                                                                         *)
(* A reset takes every write off the record and retention any token that   *)
(* carries none; neither comes back, but that where nothing enforces the   *)
(* foreign key a write can still come for a token that is gone.            *)
(***************************************************************************)

CONSTANTS Tokens, ForeignKeys

VARIABLE phase   \* how far each token has got

Phases == {"unminted", "declined", "confirmed", "spent", "written", "cleared", "gone"}

Init == phase = [t \in Tokens |-> "unminted"]

Move(t, from, to) ==
    /\ phase[t] = from
    /\ phase' = [phase EXCEPT ![t] = to]

Decide(t) == \/ Move(t, "unminted", "confirmed")
             \/ Move(t, "unminted", "declined")

Spend(t) == Move(t, "confirmed", "spent")

Write(t) == Move(t, "spent", "written")

Orphan(t) == ~ForeignKeys /\ Move(t, "gone", "written")

Clear == phase' = [t \in Tokens |-> IF phase[t] = "written" THEN "cleared" ELSE phase[t]]

Forget(gone) ==
    /\ \A t \in gone : phase[t] \in {"declined", "confirmed", "spent"}
    /\ phase' = [t \in Tokens |-> IF t \in gone THEN "gone" ELSE phase[t]]

Next ==
    \/ Clear
    \/ \E gone \in SUBSET Tokens : Forget(gone)
    \/ \E t \in Tokens : Decide(t) \/ Spend(t) \/ Write(t) \/ Orphan(t)

Spec == Init /\ [][Next]_phase
=============================================================================
