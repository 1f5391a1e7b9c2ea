-------------------------- MODULE AgentLoopProofs ---------------------------
(***************************************************************************)
(* What holds of AgentLoop for any budgets, any filter and any routing.    *)
(*                                                                         *)
(* The invariant has a part for each result: the fields' types; the budget *)
(* with what each stage of a pass may have added to it; where a pass can   *)
(* be while a card is pending; where it can be once the card was dealt     *)
(* with.                                                                   *)
(***************************************************************************)
EXTENDS AgentLoop, TLAPS

\* Completions other than act steps that a pass may have asked for besides its
\* repairs, by the place it has reached.
Allowance == CASE pc \in {"discover", "route"} -> 0
               [] pc = "verify" -> 2
               [] pc = "closed" -> 3
               [] OTHER -> 1

\* The budgets, with the completions that are neither steps nor repairs.
BudgetInv ==
    /\ steps <= MaxSteps
    /\ calls <= MaxCalls
    /\ extra <= calls + Allowance
    /\ pc \in {"discover", "reissue"} => calls = 0

\* A pending card and the places between its proposal and the park.
ParkInv ==
    /\ turn.pending # "none" =>
            card = "pending" /\ pc \in {"back", "debt", "leave", "closed"}
    /\ card = "pending" => \/ turn.pending # "none"
                           \/ pc = "discover" /\ pass # "chat"
                           \/ pc = "closed" /\ outcome = "degraded"
    /\ outcome = "awaiting" => pc = "closed" /\ card = "pending"
    /\ pc = "closed" /\ card = "pending" => outcome \in {"awaiting", "degraded"}

\* What an answered card leaves behind, and where its pass can no longer be.
DealtInv ==
    /\ pc = "reissue" => card = "confirmed"
    /\ turn.performed =>
            /\ "write" \in found.results
            /\ card = "confirmed"
            /\ pc \in {"data", "score", "profile", "gate", "action", "synthesize",
                       "verify", "closed"}
    /\ turn.declined =>
            /\ pass = "declined"
            /\ card = "declined"
            /\ pc \in {"data", "score", "profile", "gate", "act", "action",
                       "synthesize", "verify", "closed"}

-----------------------------------------------------------------------------
\* Types.

\* A successful result keeps the record's type and takes no result away.
LEMMA AbsorbType ==
  ASSUME NEW tool \in Tools, NEW f \in FoundRecord, Absorb(tool, f)
  PROVE  /\ found' \in FoundRecord
         /\ f.results \subseteq found'.results
  <1>1. PICK v \in IF tool = "compliance" THEN Verdicts ELSE {f.verdict},
             a \in IF tool \in ProfileFirst THEN {f.forActor, TRUE} ELSE {f.forActor},
             e \in IF tool \in RagTools THEN SUBSET {"grounded", "spread"} ELSE {{}} :
          found' = [f EXCEPT !.results  = @ \cup ({tool} \cap Slots),
                             !.verdict  = v, !.forActor = a, !.evidence = @ \cup e]
    BY DEF Absorb
  <1>2. v \in Verdicts \cup {"none"} /\ a \in BOOLEAN /\ e \subseteq {"grounded", "spread"}
    BY DEF FoundRecord
  <1>3. {tool} \cap Slots \subseteq Slots
    OBVIOUS
  <1> HIDE DEF Slots, Tools
  <1> QED
    BY <1>1, <1>2, <1>3 DEF FoundRecord

\* A failed call keeps both too.
LEMMA NotedType ==
  ASSUME NEW tool \in Tools, NEW f \in FoundRecord
  PROVE  /\ Noted(tool, f) \in FoundRecord
         /\ Noted(tool, f).results = f.results
  BY DEF Noted, FoundRecord, Slots

\* So does the reading back of the spans.
LEMMA RecallType ==
  ASSUME found \in FoundRecord, Recall
  PROVE  found' \in FoundRecord
  <1>1. PICK v \in IF "compliance" \in found.failed
                   THEN {"undecided", found.verdict} \ {"none"} ELSE {found.verdict},
             a \in IF ProfileFirst \cap found.failed # {}
                   THEN {found.forActor, TRUE} ELSE {found.forActor} :
          found' = [found EXCEPT !.results = @ \cup found.failed, !.verdict = v,
                                 !.forActor = a]
    BY DEF Recall
  <1>2. v \in Verdicts \cup {"none"} /\ a \in BOOLEAN
    BY DEF FoundRecord, Verdicts
  <1> QED
    BY <1>1, <1>2 DEF FoundRecord

\* A call with its repair costs at most two.
LEMMA InvokeType ==
  ASSUME LoopTypeOK, NEW tool \in Tools, NEW r, NEW g \in {found, Noted(tool, found)},
         Invoke(tool, r, g)
  PROVE  /\ g \in FoundRecord /\ found.results \subseteq g.results
         /\ calls' \in Nat /\ extra' \in Nat
         /\ calls <= calls' /\ calls' <= calls + 2
  BY NotedType DEF LoopTypeOK, Invoke

\* A call of the orchestrator's own costs one.
LEMMA DirectType ==
  ASSUME LoopTypeOK, NEW tool \in Tools, NEW p, Direct(tool, p)
  PROVE  /\ found' \in FoundRecord /\ found.results \subseteq found'.results
         /\ calls' = calls + 1 /\ calls' \in Nat
         /\ pc' = p /\ outcome' = outcome
  BY AbsorbType, NotedType DEF LoopTypeOK, Direct, Goto

\* Every step keeps the types.
LEMMA TypeStep ==
  ASSUME LoopTypeOK, [LoopNext]_vars
  PROVE  LoopTypeOK'
  <1>1. CASE Discover
    BY <1>1, LoopAssumption
    DEF Discover, LoopTypeOK, Goto, Finish, PCs, Outcomes
  <1>2. CASE Route
    BY <1>2, LoopAssumption
    DEF Route, LoopTypeOK, Goto, Finish, PCs, Outcomes, Run, Asks, Callers
  <1>3. CASE StopForBudget
    BY <1>3, LoopAssumption
    DEF StopForBudget, LoopTypeOK, Goto, Finish, PCs, Outcomes, Stop, TurnRecord, Budgets
  <1>4. CASE ActStep
    BY <1>4, LoopAssumption
    DEF ActStep, LoopTypeOK, Goto, Finish, PCs, Outcomes, CountedStep
  <1>5. CASE ModelFails
    BY <1>5, LoopAssumption
    DEF ModelFails, LoopTypeOK, Goto, Finish, PCs, Outcomes
  <1>6. CASE NoCatalog
    BY <1>6, LoopAssumption
    DEF NoCatalog, LoopTypeOK, Goto, Finish, PCs, Outcomes
  <1>7. CASE NoToolCall
    BY <1>7, LoopAssumption
    DEF NoToolCall, LoopTypeOK, Goto, Finish, PCs, Outcomes, TurnRecord, Nudges
  <1>8. CASE StopForCalls
    BY <1>8, LoopAssumption
    DEF StopForCalls, LoopTypeOK, Goto, Finish, PCs, Outcomes, Stop, TurnRecord, Budgets
  <1>9. CASE RefusedCall
    BY <1>9, LoopAssumption
    DEF RefusedCall, LoopTypeOK, Goto, Finish, PCs, Outcomes
  <1>10. CASE CallWrite
    <2>1. PICK r \in Replies("write"), g \in {found, Noted("write", found)} :
            /\ Invoke("write", r, g)
            /\ found' = g
      BY <1>10 DEF CallWrite
    <2>2. found' \in FoundRecord /\ calls' \in Nat /\ extra' \in Nat
      BY <2>1, InvokeType DEF Tools
    <2>3. turn' \in TurnRecord /\ card' \in {"none", "pending", "confirmed", "declined"}
      BY <1>10 DEF CallWrite, Propose, LoopTypeOK, TurnRecord
    <2>4. left' \in 0 .. MaxBatch /\ pc' \in PCs /\ outcome' \in Outcomes
      BY <1>10, LoopAssumption DEF CallWrite, LoopTypeOK, Goto, PCs
    <2> QED
      BY <1>10, <2>2, <2>3, <2>4 DEF CallWrite, LoopTypeOK
  <1>11. CASE EndStep
    BY <1>11, LoopAssumption
    DEF EndStep, LoopTypeOK, Goto, Finish, PCs, Outcomes, Stop, TurnRecord
  <1>12. CASE Back
    BY <1>12, LoopAssumption
    DEF Back, LoopTypeOK, Goto, Finish, PCs, Outcomes, Callers
  <1>13. CASE \E tool \in Tools : CallTool(tool)
    <2>1. PICK tool \in Tools : CallTool(tool)
      BY <1>13
    <2>2. PICK r \in Replies(tool), g \in {found, Noted(tool, found)} :
            /\ Invoke(tool, r, g)
            /\ IF r = "ok" THEN Absorb(tool, g) ELSE found' = g
      BY <2>1 DEF CallTool
    <2>3. found' \in FoundRecord /\ calls' \in Nat /\ extra' \in Nat
      BY <2>2, InvokeType, AbsorbType
    <2>4. left' \in 0 .. MaxBatch /\ pc' \in PCs /\ outcome' \in Outcomes
      BY <2>1, <2>2, LoopAssumption DEF CallTool, LoopTypeOK, Goto, PCs
    <2>5. turn' \in TurnRecord
      BY <2>1, <2>2 DEF CallTool, LoopTypeOK, TurnRecord
    <2> QED
      BY <2>1, <2>3, <2>4, <2>5 DEF CallTool, LoopTypeOK
  <1>14. CASE Leave
    BY <1>14, LoopAssumption
    DEF Leave, LoopTypeOK, Goto, Finish, PCs, Outcomes
  <1>15. CASE SettleData
    <2>1. OutOfBudget \in BOOLEAN
      BY DEF OutOfBudget, LoopTypeOK
    <2>2. turn' \in TurnRecord
      <3>1. turn.nudges \cup {"data"} \in SUBSET Nudges
        BY DEF LoopTypeOK, TurnRecord, Nudges
      <3> QED
        BY <1>15, <3>1 DEF SettleData, LoopTypeOK, TurnRecord
    <2> QED
      BY <1>15, <2>1, <2>2 DEF SettleData, LoopTypeOK, Goto, Run, PCs, Callers
  <1>16. CASE SettleVerdict
    BY <1>16, DirectType DEF SettleVerdict, LoopTypeOK, Goto, PCs, Tools
  <1>17. CASE SettleProfile("debt", "leave")
    BY <1>17, DirectType DEF SettleProfile, LoopTypeOK, Goto, PCs, Tools
  <1>18. CASE SettleProfile("profile", "gate")
    BY <1>18, DirectType DEF SettleProfile, LoopTypeOK, Goto, PCs, Tools
  <1>19. CASE Gate
    <2>1. turn' \in TurnRecord
      BY <1>19 DEF Gate, LoopTypeOK, TurnRecord
    <2> QED
      BY <1>19, <2>1 DEF Gate, LoopTypeOK, Goto, Run, Finish, PCs, Outcomes, Callers
  <1>20. CASE SettleAction
    BY <1>20, LoopAssumption
    DEF SettleAction, LoopTypeOK, Goto, Finish, PCs, Outcomes, Run, TurnRecord, Nudges, Callers
  <1>21. CASE ProposeDeterministically
    <2>1. found' \in FoundRecord /\ calls' \in Nat
      BY <1>21, NotedType DEF ProposeDeterministically, LoopTypeOK, Tools
    <2>2. turn' \in TurnRecord
      <3>1. turn.nudges \cup {"proposed"} \in SUBSET Nudges
        BY DEF LoopTypeOK, TurnRecord, Nudges
      <3> QED
        BY <1>21, <3>1 DEF ProposeDeterministically, LoopTypeOK, TurnRecord
    <2> QED
      BY <1>21, <2>1, <2>2
      DEF ProposeDeterministically, LoopTypeOK, Goto, Finish, PCs, Outcomes
  <1>22. CASE Synthesize
    BY <1>22, LoopAssumption
    DEF Synthesize, LoopTypeOK, Goto, Finish, PCs, Outcomes
  <1>23. CASE Verify
    BY <1>23, LoopAssumption
    DEF Verify, LoopTypeOK, Goto, Finish, PCs, Outcomes
  <1>24. CASE Reissue
    <2>1. found' \in FoundRecord
      BY <1>24, NotedType DEF Reissue, LoopTypeOK, FoundRecord, Tools, Slots
    <2>2. turn' \in TurnRecord
      BY <1>24 DEF Reissue, LoopTypeOK, TurnRecord
    <2> QED
      BY <1>24, <2>1, <2>2 DEF Reissue, LoopTypeOK, Goto, Finish, PCs, Outcomes
  <1>25. CASE ServerLost
    BY <1>25, LoopAssumption
    DEF ServerLost, LoopTypeOK, Goto, Finish, PCs, Outcomes, TurnRecord, Nudges
  <1>26. CASE ClockRunsOut
    BY <1>26, LoopAssumption
    DEF ClockRunsOut, LoopTypeOK, Goto, Finish, PCs, Outcomes
  <1>27. CASE \E d \in {"confirmed", "declined"} : Decide(d)
    <2>1. PICK d \in {"confirmed", "declined"} : Decide(d)
      BY <1>27
    <2>2. found' \in FoundRecord
      BY <2>1, RecallType DEF Decide, Rehydrate, LoopTypeOK
    <2>3. turn' \in TurnRecord
      BY <2>1 DEF Decide, Rehydrate, Resumed, Fresh, TurnRecord
    <2>4. ask' \in Asks
      BY <2>1 DEF Decide, Rehydrate, LoopTypeOK, Asks
    <2> QED
      BY <2>1, <2>2, <2>3, <2>4 DEF Decide, Rehydrate, LoopTypeOK, PCs, Outcomes
  <1>28. CASE UNCHANGED vars
    BY <1>28 DEF vars, LoopTypeOK
  <1> QED
    BY <1>1, <1>2, <1>3, <1>4, <1>5, <1>6, <1>7, <1>8, <1>9, <1>10, <1>11, <1>12, <1>13, <1>14, <1>15, <1>16, <1>17, <1>18, <1>19, <1>20, <1>21, <1>22, <1>23, <1>24, <1>25, <1>26, <1>27, <1>28
    DEF LoopNext, Step

-----------------------------------------------------------------------------
\* The budgets.

\* Every step keeps the budgets: a repair is paid for by the call it repairs.
LEMMA BudgetStep ==
  ASSUME LoopTypeOK, BudgetInv, [LoopNext]_vars
  PROVE  BudgetInv'
  <1>1. CASE Discover
    BY <1>1, LoopAssumption
    DEF Discover, Goto, Finish, BudgetInv, Allowance, LoopTypeOK
  <1>2. CASE Route
    BY <1>2, LoopAssumption
    DEF Route, Run, Goto, Finish, BudgetInv, Allowance, LoopTypeOK
  <1>3. CASE StopForBudget
    BY <1>3, LoopAssumption
    DEF StopForBudget, Goto, Finish, BudgetInv, Allowance, LoopTypeOK
  <1>4. CASE ActStep
    BY <1>4, LoopAssumption
    DEF ActStep, CountedStep, Goto, Finish, BudgetInv, Allowance, LoopTypeOK
  <1>5. CASE ModelFails
    BY <1>5, LoopAssumption
    DEF ModelFails, Goto, Finish, BudgetInv, Allowance, LoopTypeOK
  <1>6. CASE NoCatalog
    BY <1>6, LoopAssumption
    DEF NoCatalog, Goto, Finish, BudgetInv, Allowance, LoopTypeOK
  <1>7. CASE NoToolCall
    BY <1>7, LoopAssumption
    DEF NoToolCall, Goto, Finish, BudgetInv, Allowance, LoopTypeOK
  <1>8. CASE StopForCalls
    BY <1>8, LoopAssumption
    DEF StopForCalls, Goto, Finish, BudgetInv, Allowance, LoopTypeOK
  <1>9. CASE RefusedCall
    BY <1>9, LoopAssumption
    DEF RefusedCall, Goto, Finish, BudgetInv, Allowance, LoopTypeOK
  <1>10. CASE CallWrite
    <2>1. PICK r \in Replies("write"), g \in {found, Noted("write", found)} :
            Invoke("write", r, g)
      BY <1>10 DEF CallWrite
    <2>2. calls' <= MaxCalls /\ extra' - extra <= calls' - calls
      BY <2>1, LoopAssumption DEF Invoke, LoopTypeOK
    <2>3. steps' = steps /\ pc = "reply" /\ pc' \in {"reply", "back"}
      BY <1>10 DEF CallWrite, Goto
    <2> QED
      BY <2>2, <2>3, TypeStep DEF BudgetInv, Allowance, LoopTypeOK
  <1>11. CASE EndStep
    BY <1>11, LoopAssumption
    DEF EndStep, Goto, Finish, BudgetInv, Allowance, LoopTypeOK
  <1>12. CASE Back
    BY <1>12, LoopAssumption
    DEF Back, Callers, Goto, Finish, BudgetInv, Allowance, LoopTypeOK
  <1>13. CASE \E tool \in Tools : CallTool(tool)
    <2>1. PICK tool \in Tools : CallTool(tool)
      BY <1>13
    <2>2. PICK r \in Replies(tool), g \in {found, Noted(tool, found)} : Invoke(tool, r, g)
      BY <2>1 DEF CallTool
    <2>3. calls' <= MaxCalls /\ extra' - extra <= calls' - calls
      BY <2>2, LoopAssumption DEF Invoke, LoopTypeOK
    <2>4. steps' = steps /\ pc = "reply" /\ pc' \in {"reply", "back"}
      BY <2>1 DEF CallTool, Goto
    <2> QED
      BY <2>3, <2>4, TypeStep DEF BudgetInv, Allowance, LoopTypeOK
  <1>14. CASE Leave
    BY <1>14, LoopAssumption
    DEF Leave, Goto, Finish, BudgetInv, Allowance, LoopTypeOK
  <1>15. CASE SettleData
    BY <1>15, LoopAssumption
    DEF SettleData, Run, Goto, Finish, BudgetInv, Allowance, LoopTypeOK
  <1>16. CASE SettleVerdict
    BY <1>16, LoopAssumption
    DEF SettleVerdict, Direct, VerdictOutstanding, Goto, Finish, BudgetInv, Allowance, LoopTypeOK
  <1>17. CASE SettleProfile("debt", "leave")
    BY <1>17, LoopAssumption
    DEF SettleProfile, Direct, ProfileOutstanding, Goto, Finish, BudgetInv, Allowance, LoopTypeOK
  <1>18. CASE SettleProfile("profile", "gate")
    BY <1>18, LoopAssumption
    DEF SettleProfile, Direct, ProfileOutstanding, Goto, Finish, BudgetInv, Allowance, LoopTypeOK
  <1>19. CASE Gate
    BY <1>19, LoopAssumption
    DEF Gate, Run, Goto, Finish, BudgetInv, Allowance, LoopTypeOK
  <1>20. CASE SettleAction
    BY <1>20, LoopAssumption
    DEF SettleAction, Run, Goto, Finish, BudgetInv, Allowance, LoopTypeOK
  <1>21. CASE ProposeDeterministically
    BY <1>21, LoopAssumption
    DEF ProposeDeterministically, Describable, Goto, Finish, BudgetInv, Allowance, LoopTypeOK
  <1>22. CASE Synthesize
    BY <1>22, LoopAssumption
    DEF Synthesize, Goto, Finish, BudgetInv, Allowance, LoopTypeOK
  <1>23. CASE Verify
    BY <1>23, LoopAssumption
    DEF Verify, Goto, Finish, BudgetInv, Allowance, LoopTypeOK
  <1>24. CASE Reissue
    BY <1>24, LoopAssumption
    DEF Reissue, Goto, Finish, BudgetInv, Allowance, LoopTypeOK
  <1>25. CASE ServerLost
    BY <1>25, LoopAssumption
    DEF ServerLost, Goto, Finish, BudgetInv, Allowance, LoopTypeOK
  <1>26. CASE ClockRunsOut
    BY <1>26, LoopAssumption
    DEF ClockRunsOut, Goto, Finish, BudgetInv, Allowance, LoopTypeOK
  <1>27. CASE \E d \in {"confirmed", "declined"} : Decide(d)
    BY <1>27, LoopAssumption
    DEF Decide, Rehydrate, Goto, Finish, BudgetInv, Allowance, LoopTypeOK
  <1>28. CASE UNCHANGED vars
    BY <1>28 DEF vars, BudgetInv, Allowance, LoopTypeOK
  <1> QED
    BY <1>1, <1>2, <1>3, <1>4, <1>5, <1>6, <1>7, <1>8, <1>9, <1>10, <1>11, <1>12, <1>13, <1>14, <1>15, <1>16, <1>17, <1>18, <1>19, <1>20, <1>21, <1>22, <1>23, <1>24, <1>25, <1>26, <1>27, <1>28
    DEF LoopNext, Step

-----------------------------------------------------------------------------
\* The card.

\* Every step keeps a pending card on its way to the reader.
LEMMA ParkStep ==
  ASSUME LoopTypeOK, ParkInv, [LoopNext]_vars
  PROVE  ParkInv'
  <1>1. CASE Discover
    BY <1>1
    DEF Discover, Goto, Finish, ParkInv, LoopTypeOK, TurnRecord
  <1>2. CASE Route
    BY <1>2
    DEF Route, Run, Goto, Finish, ParkInv, LoopTypeOK, TurnRecord
  <1>3. CASE StopForBudget
    BY <1>3
    DEF StopForBudget, Stop, Budgets, Goto, Finish, ParkInv, LoopTypeOK, TurnRecord
  <1>4. CASE ActStep
    BY <1>4
    DEF ActStep, Goto, Finish, ParkInv, LoopTypeOK, TurnRecord
  <1>5. CASE ModelFails
    BY <1>5
    DEF ModelFails, Goto, Finish, ParkInv, LoopTypeOK, TurnRecord
  <1>6. CASE NoCatalog
    BY <1>6
    DEF NoCatalog, Goto, Finish, ParkInv, LoopTypeOK, TurnRecord
  <1>7. CASE NoToolCall
    BY <1>7
    DEF NoToolCall, Goto, Finish, ParkInv, LoopTypeOK, TurnRecord
  <1>8. CASE StopForCalls
    BY <1>8
    DEF StopForCalls, Stop, Goto, Finish, ParkInv, LoopTypeOK, TurnRecord
  <1>9. CASE RefusedCall
    BY <1>9
    DEF RefusedCall, Goto, Finish, ParkInv, LoopTypeOK, TurnRecord
  <1>10. CASE CallWrite
    BY <1>10
    DEF CallWrite, Propose, Goto, Finish, ParkInv, LoopTypeOK, TurnRecord
  <1>11. CASE EndStep
    BY <1>11
    DEF EndStep, Stop, Goto, Finish, ParkInv, LoopTypeOK, TurnRecord
  <1>12. CASE Back
    BY <1>12
    DEF Back, Callers, Goto, Finish, ParkInv, LoopTypeOK, TurnRecord
  <1>13. CASE \E tool \in Tools : CallTool(tool)
    BY <1>13
    DEF CallTool, Goto, Finish, ParkInv, LoopTypeOK, TurnRecord
  <1>14. CASE Leave
    BY <1>14
    DEF Leave, Goto, Finish, ParkInv, LoopTypeOK, TurnRecord
  <1>15. CASE SettleData
    BY <1>15
    DEF SettleData, Run, Goto, Finish, ParkInv, LoopTypeOK, TurnRecord
  <1>16. CASE SettleVerdict
    BY <1>16
    DEF SettleVerdict, Direct, Goto, Finish, ParkInv, LoopTypeOK, TurnRecord
  <1>17. CASE SettleProfile("debt", "leave")
    BY <1>17
    DEF SettleProfile, Direct, Goto, Finish, ParkInv, LoopTypeOK, TurnRecord
  <1>18. CASE SettleProfile("profile", "gate")
    BY <1>18
    DEF SettleProfile, Direct, Goto, Finish, ParkInv, LoopTypeOK, TurnRecord
  <1>19. CASE Gate
    BY <1>19
    DEF Gate, Run, Goto, Finish, ParkInv, LoopTypeOK, TurnRecord
  <1>20. CASE SettleAction
    BY <1>20
    DEF SettleAction, Run, Goto, Finish, ParkInv, LoopTypeOK, TurnRecord
  <1>21. CASE ProposeDeterministically
    BY <1>21
    DEF ProposeDeterministically, Goto, Finish, ParkInv, LoopTypeOK, TurnRecord
  <1>22. CASE Synthesize
    BY <1>22
    DEF Synthesize, Goto, Finish, ParkInv, LoopTypeOK, TurnRecord
  <1>23. CASE Verify
    BY <1>23
    DEF Verify, Goto, Finish, ParkInv, LoopTypeOK, TurnRecord
  <1>24. CASE Reissue
    BY <1>24
    DEF Reissue, Goto, Finish, ParkInv, LoopTypeOK, TurnRecord
  <1>25. CASE ServerLost
    BY <1>25
    DEF ServerLost, Calling, Goto, Finish, ParkInv, LoopTypeOK, TurnRecord
  <1>26. CASE ClockRunsOut
    BY <1>26
    DEF ClockRunsOut, Goto, Finish, ParkInv, LoopTypeOK, TurnRecord
  <1>27. CASE \E d \in {"confirmed", "declined"} : Decide(d)
    BY <1>27
    DEF Decide, Rehydrate, Resumed, Fresh, Goto, Finish, ParkInv, LoopTypeOK, TurnRecord
  <1>28. CASE UNCHANGED vars
    BY <1>28 DEF vars, ParkInv, LoopTypeOK, TurnRecord
  <1> QED
    BY <1>1, <1>2, <1>3, <1>4, <1>5, <1>6, <1>7, <1>8, <1>9, <1>10, <1>11, <1>12, <1>13, <1>14, <1>15, <1>16, <1>17, <1>18, <1>19, <1>20, <1>21, <1>22, <1>23, <1>24, <1>25, <1>26, <1>27, <1>28
    DEF LoopNext, Step

-----------------------------------------------------------------------------
\* The answered card.

\* Every step keeps an answered card away from the places that propose.
LEMMA DealtStep ==
  ASSUME LoopTypeOK, DealtInv, [LoopNext]_vars
  PROVE  DealtInv'
  <1>1. CASE Discover
    BY <1>1
    DEF Discover, Goto, Finish, DealtInv, LoopTypeOK, TurnRecord, FoundRecord
  <1>2. CASE Route
    BY <1>2
    DEF Route, Run, Goto, Finish, DealtInv, LoopTypeOK, TurnRecord, FoundRecord
  <1>3. CASE StopForBudget
    BY <1>3
    DEF StopForBudget, Stop, Goto, Finish, DealtInv, LoopTypeOK, TurnRecord, FoundRecord
  <1>4. CASE ActStep
    BY <1>4
    DEF ActStep, Goto, Finish, DealtInv, LoopTypeOK, TurnRecord, FoundRecord
  <1>5. CASE ModelFails
    BY <1>5
    DEF ModelFails, Goto, Finish, DealtInv, LoopTypeOK, TurnRecord, FoundRecord
  <1>6. CASE NoCatalog
    BY <1>6
    DEF NoCatalog, Goto, Finish, DealtInv, LoopTypeOK, TurnRecord, FoundRecord
  <1>7. CASE NoToolCall
    BY <1>7
    DEF NoToolCall, Goto, Finish, DealtInv, LoopTypeOK, TurnRecord, FoundRecord
  <1>8. CASE StopForCalls
    BY <1>8
    DEF StopForCalls, Stop, Goto, Finish, DealtInv, LoopTypeOK, TurnRecord, FoundRecord
  <1>9. CASE RefusedCall
    BY <1>9
    DEF RefusedCall, Goto, Finish, DealtInv, LoopTypeOK, TurnRecord, FoundRecord
  <1>10. CASE CallWrite
    <2>1. pc = "reply" /\ turn'.performed = turn.performed /\ turn'.declined = turn.declined
          /\ pc' \in {"reply", "back"}
      BY <1>10 DEF CallWrite, Propose, Goto, LoopTypeOK, TurnRecord
    <2> QED
      BY <2>1 DEF DealtInv
  <1>11. CASE EndStep
    BY <1>11
    DEF EndStep, Stop, Goto, Finish, DealtInv, LoopTypeOK, TurnRecord, FoundRecord
  <1>12. CASE Back
    BY <1>12
    DEF Back, Callers, Goto, Finish, DealtInv, LoopTypeOK, TurnRecord, FoundRecord
  <1>13. CASE \E tool \in Tools : CallTool(tool)
    <2>1. PICK tool \in Tools : CallTool(tool)
      BY <1>13
    <2>2. pc = "reply" /\ turn'.performed = turn.performed /\ turn'.declined = turn.declined
          /\ pc' \in {"reply", "back"}
      BY <2>1 DEF CallTool, Goto, LoopTypeOK, TurnRecord
    <2> QED
      BY <2>2 DEF DealtInv
  <1>14. CASE Leave
    BY <1>14
    DEF Leave, Goto, Finish, DealtInv, LoopTypeOK, TurnRecord, FoundRecord
  <1>15. CASE SettleData
    BY <1>15
    DEF SettleData, Run, DataOutstanding, Goto, Finish, DealtInv, LoopTypeOK, TurnRecord, FoundRecord
  <1>16. CASE SettleVerdict
    <2>1. found.results \subseteq found'.results /\ pc' = "profile"
      BY <1>16, DirectType DEF SettleVerdict, Goto, Tools
    <2> QED
      BY <1>16, <2>1 DEF SettleVerdict, DealtInv
  <1>17. CASE SettleProfile("debt", "leave")
    BY <1>17, DirectType DEF SettleProfile, DealtInv, Goto, Tools
  <1>18. CASE SettleProfile("profile", "gate")
    <2>1. found.results \subseteq found'.results /\ pc' = "gate"
      BY <1>18, DirectType DEF SettleProfile, Goto, Tools
    <2> QED
      BY <1>18, <2>1 DEF SettleProfile, DealtInv
  <1>19. CASE Gate
    BY <1>19
    DEF Gate, Run, Grounded, Goto, Finish, DealtInv, LoopTypeOK, TurnRecord, FoundRecord
  <1>20. CASE SettleAction
    BY <1>20
    DEF SettleAction, Run, ActionOutstanding, Goto, Finish, DealtInv, LoopTypeOK, TurnRecord, FoundRecord
  <1>21. CASE ProposeDeterministically
    BY <1>21
    DEF ProposeDeterministically, ActionOutstanding, Goto, Finish, DealtInv, LoopTypeOK, TurnRecord, FoundRecord
  <1>22. CASE Synthesize
    BY <1>22
    DEF Synthesize, Goto, Finish, DealtInv, LoopTypeOK, TurnRecord, FoundRecord
  <1>23. CASE Verify
    BY <1>23
    DEF Verify, Goto, Finish, DealtInv, LoopTypeOK, TurnRecord, FoundRecord
  <1>24. CASE Reissue
    <2>1. ~ turn.performed /\ ~ turn.declined /\ card' = "confirmed"
      BY <1>24 DEF Reissue, DealtInv
    <2>2. /\ pc' \in {"data", "closed"}
          /\ ~ turn'.declined
          /\ turn'.performed => pc' = "data"
      BY <1>24, <2>1 DEF Reissue, Goto, Finish, LoopTypeOK, TurnRecord
    <2>3. turn'.performed => "write" \in found'.results
      <3>1. found.results \cup {"write"} = [found EXCEPT !.results = @ \cup {"write"}].results
        BY DEF LoopTypeOK, FoundRecord
      <3>2. turn'.performed => found' = [found EXCEPT !.results = @ \cup {"write"}]
        BY <1>24, <2>1 DEF Reissue, LoopTypeOK, TurnRecord
      <3> QED
        BY <3>1, <3>2
    <2> QED
      BY <2>1, <2>2, <2>3 DEF DealtInv
  <1>25. CASE ServerLost
    BY <1>25
    DEF ServerLost, Goto, Finish, DealtInv, LoopTypeOK, TurnRecord, FoundRecord
  <1>26. CASE ClockRunsOut
    BY <1>26
    DEF ClockRunsOut, Goto, Finish, DealtInv, LoopTypeOK, TurnRecord, FoundRecord
  <1>27. CASE \E d \in {"confirmed", "declined"} : Decide(d)
    BY <1>27
    DEF Decide, Rehydrate, Resumed, Fresh, Goto, Finish, DealtInv, LoopTypeOK, TurnRecord, FoundRecord
  <1>28. CASE UNCHANGED vars
    BY <1>28 DEF vars, DealtInv, LoopTypeOK, TurnRecord, FoundRecord
  <1> QED
    BY <1>1, <1>2, <1>3, <1>4, <1>5, <1>6, <1>7, <1>8, <1>9, <1>10, <1>11, <1>12, <1>13, <1>14, <1>15, <1>16, <1>17, <1>18, <1>19, <1>20, <1>21, <1>22, <1>23, <1>24, <1>25, <1>26, <1>27, <1>28
    DEF LoopNext, Step

-----------------------------------------------------------------------------
\* The action that was asked for.

\* Synthesis is reached only from the two places that settle the debt.
LEMMA DebtStep ==
  ASSUME LoopTypeOK, ActionDebtIsTerminal, [LoopNext]_vars
  PROVE  ActionDebtIsTerminal'
  <1>1. CASE SettleAction
    BY <1>1 DEF SettleAction, Run, Goto, ActionDebtIsTerminal, ActionOutstanding,
                OutOfBudget, Permitted
  <1>2. CASE ProposeDeterministically
    <2>1. CASE ~ ActionOutstanding
      BY <1>2, <2>1 DEF ProposeDeterministically, ActionDebtIsTerminal, ActionOutstanding
    <2>2. CASE ActionOutstanding
      BY <1>2, <2>2 DEF ProposeDeterministically, Finish, ActionDebtIsTerminal,
                        LoopTypeOK, TurnRecord
    <2> QED
      BY <2>1, <2>2
  <1>3. CASE ClockRunsOut \/ UNCHANGED vars
    BY <1>3 DEF ClockRunsOut, vars, ActionDebtIsTerminal, ActionOutstanding, OutOfBudget,
                Permitted
  <1>4. ASSUME ~ SettleAction, ~ ProposeDeterministically, ~ ClockRunsOut, ~ UNCHANGED vars
        PROVE  pc' # "synthesize"
    <2>1. CASE \E tool \in Tools : CallTool(tool)
      BY <2>1 DEF CallTool, Goto
    <2>2. CASE \E d \in {"confirmed", "declined"} : Decide(d)
      BY <2>2 DEF Decide
    <2>3. CASE SettleProfile("debt", "leave") \/ SettleProfile("profile", "gate")
      BY <2>3, DirectType DEF SettleProfile, Goto, Tools
    <2>4. CASE CallWrite \/ RefusedCall
      BY <2>4 DEF CallWrite, RefusedCall, Goto
    <2>5. CASE Back
      BY <2>5 DEF Back, Goto, Finish, LoopTypeOK, Callers
    <2>6. CASE Discover \/ Route \/ StopForBudget \/ ActStep \/ ModelFails \/ NoCatalog
                 \/ NoToolCall \/ StopForCalls \/ EndStep
      BY <2>6 DEF Discover, Route, Run, StopForBudget, ActStep, ModelFails, NoCatalog,
                  NoToolCall, StopForCalls, EndStep, Goto, Finish
    <2>7. CASE Leave \/ SettleData \/ SettleVerdict \/ Gate \/ Synthesize \/ Verify
                 \/ Reissue \/ ServerLost
      BY <2>7, DirectType DEF Leave, SettleData, Run, SettleVerdict, Gate, Synthesize,
                  Verify, Reissue, ServerLost, Goto, Finish, Tools
    <2> QED
      BY <1>4, <2>1, <2>2, <2>3, <2>4, <2>5, <2>6, <2>7 DEF LoopNext, Step
  <1> QED
    BY <1>1, <1>2, <1>3, <1>4 DEF ActionDebtIsTerminal

-----------------------------------------------------------------------------
\* The theorems.

LoopInv ==
    /\ LoopTypeOK
    /\ BudgetInv
    /\ ParkInv
    /\ DealtInv
    /\ ActionDebtIsTerminal

\* The invariant, from its parts.
LEMMA LoopInvStart ==
  LoopInit => LoopInv
  <1> SUFFICES ASSUME LoopInit PROVE LoopInv
    OBVIOUS
  <1>1. turn \in TurnRecord
    BY DEF LoopInit, Fresh, TurnRecord
  <1>2. found \in FoundRecord
    BY DEF LoopInit, FoundRecord
  <1>3. ask \in Asks
    BY DEF LoopInit, Asks
  <1>4. LoopTypeOK
    <2>1. left \in 0 .. MaxBatch
      BY LoopAssumption DEF LoopInit
    <2>2. pc \in PCs /\ outcome \in Outcomes /\ ret \in Callers
      BY DEF LoopInit, PCs, Outcomes, Callers
    <2> QED
      BY <1>1, <1>2, <1>3, <2>1, <2>2 DEF LoopInit, LoopTypeOK
  <1>5. BudgetInv
    BY LoopAssumption DEF LoopInit, BudgetInv, Allowance
  <1>6. ParkInv /\ DealtInv /\ ActionDebtIsTerminal
    BY DEF LoopInit, Fresh, ParkInv, DealtInv, ActionDebtIsTerminal
  <1> QED
    BY <1>4, <1>5, <1>6 DEF LoopInv

\* Its step.
LEMMA LoopInvStep ==
  LoopInv /\ [LoopNext]_vars => LoopInv'
  BY TypeStep, BudgetStep, ParkStep, DealtStep, DebtStep DEF LoopInv

\* It holds throughout.
LEMMA LoopInvHolds ==
  LoopSpec => []LoopInv
  BY LoopInvStart, LoopInvStep, PTL DEF LoopSpec

\* Every field of the turn holds what the orchestrator can put there.
THEOREM LoopTypes ==
  LoopSpec => []LoopTypeOK
  <1>1. LoopInv => LoopTypeOK
    BY DEF LoopInv
  <1> QED
    BY <1>1, LoopInvHolds, PTL

\* Whatever the model asks for and however its calls fail, a turn keeps its act
\* steps and a pass its tool calls and its completions, for every budget.
THEOREM BudgetsHold ==
  LoopSpec => []WithinBudgets
  <1>1. LoopInv => WithinBudgets
    BY LoopAssumption DEF LoopInv, LoopTypeOK, BudgetInv, Allowance, WithinBudgets
  <1> QED
    BY <1>1, LoopInvHolds, PTL

\* A card proposed anywhere in a pass is the one the turn ends on.
THEOREM CardReachesTheReader ==
  LoopSpec => []PendingIsParked
  <1>1. LoopInv => PendingIsParked
    BY DEF LoopInv, ParkInv, PendingIsParked
  <1> QED
    BY <1>1, LoopInvHolds, PTL

\* No requested action is dropped on the way to the answer.
THEOREM ActionDebtSettled ==
  LoopSpec => []ActionDebtIsTerminal
  <1>1. LoopInv => ActionDebtIsTerminal
    BY DEF LoopInv
  <1> QED
    BY <1>1, LoopInvHolds, PTL

\* A cancelled card, and one whose write was performed, has no successor.
THEOREM NoCardAfterTheAnswer ==
  LoopSpec => DealtWithForGood
  <1>1. ASSUME LoopInv, [LoopNext]_vars, turn.declined \/ turn.performed
        PROVE  card' = card
    <2>1. /\ card \in {"confirmed", "declined"}
          /\ pc \notin {"discover", "reply", "propose", "reissue"}
      BY <1>1 DEF LoopInv, DealtInv
    <2>2. ~ \E d \in {"confirmed", "declined"} : Decide(d)
      BY <2>1 DEF Decide
    <2>3. CASE \E tool \in Tools : CallTool(tool)
      BY <2>3 DEF CallTool
    <2>4. CASE Discover \/ CallWrite \/ ProposeDeterministically \/ Reissue
      BY <2>1, <2>4 DEF Discover, CallWrite, ProposeDeterministically, Reissue
    <2>5. CASE Route \/ StopForBudget \/ ActStep \/ ModelFails \/ NoCatalog \/ NoToolCall
                 \/ StopForCalls \/ RefusedCall \/ EndStep \/ Back
      BY <2>5 DEF Route, StopForBudget, ActStep, ModelFails, NoCatalog, NoToolCall,
                  StopForCalls, RefusedCall, EndStep, Back
    <2>6. CASE \/ SettleProfile("debt", "leave") \/ SettleProfile("profile", "gate")
               \/ Leave \/ SettleData \/ SettleVerdict \/ Gate \/ SettleAction
               \/ Synthesize \/ Verify \/ ServerLost
      BY <2>6 DEF SettleProfile, Leave, SettleData, SettleVerdict, Gate, SettleAction,
                  Synthesize, Verify, ServerLost
    <2>7. CASE ClockRunsOut \/ UNCHANGED vars
      BY <2>7 DEF ClockRunsOut, vars
    <2> QED
      BY <1>1, <2>2, <2>3, <2>4, <2>5, <2>6, <2>7 DEF LoopNext, Step
  <1> QED
    BY <1>1, LoopInvHolds, PTL DEF LoopSpec, DealtWithForGood

=============================================================================
