---------------------------- MODULE MCAgentLoop -----------------------------
(***************************************************************************)
(* AgentLoop for TLC: one turn and all its passes, with budgets small      *)
(* enough to be reached on every path.                                     *)
(***************************************************************************)
EXTENDS AgentLoop
=============================================================================
