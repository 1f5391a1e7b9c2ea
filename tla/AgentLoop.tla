----------------------------- MODULE AgentLoop ------------------------------
(***************************************************************************)
(* One conversation turn through agent/orchestrator.py: discovery, routing *)
(* and the act loop of POST /chat, the debts settled behind it, the        *)
(* evidence gate and the synthesis; and the passes that later resume the   *)
(* same turn with the answer to its confirmation card.                     *)
(*                                                                         *)
(* What the model, the tools and the clock do is chosen freely.  Of a tool *)
(* result the module keeps what the loop's own conditions read.  The       *)
(* tools are the five those conditions name: the two other corpus reads,   *)
(* the benefits record and the second write differ from them in nothing    *)
(* the loop looks at.                                                      *)
(***************************************************************************)
EXTENDS Integers, FiniteSets

CONSTANTS
    MaxSteps,   \* AGENT_MAX_STEPS: act steps of a turn
    MaxCalls,   \* AGENT_MAX_TOOL_CALLS: tool calls of a pass
    MaxBatch,   \* bound on the tool calls of one completion
    Disabled,   \* MCP_TOOLS_DISABLED and the request's tools_disabled
    Intents,    \* the router's intents under study
    Workflows   \* the router's workflows under study

Tools        == {"search", "profile", "balance", "compliance", "write"}
RagTools     == {"search", "compliance"}
RecordTools  == {"profile", "balance"}
ProfileFirst == {"compliance", "balance"}
Slots        == Tools \ {"search"}
Budgets      == {"max_steps", "max_tool_calls", "timeout"}

ASSUME LoopAssumption ==
    /\ MaxSteps \in Nat \ {0}
    /\ MaxCalls \in Nat \ {0}
    /\ MaxBatch \in Nat \ {0}
    /\ Disabled \subseteq Tools
    /\ Intents \subseteq {"policy_qa", "employee_data", "workflow", "action"}
    /\ Workflows \subseteq {"none", "expense", "pto"}

VARIABLES
    pc,       \* where the pass is
    pass,     \* the request served: the question, or an answer to its card
    outcome,  \* the turn's row; "degraded" is partial with an error_kind
    card,     \* the confirmation span on record
    ask,      \* _Turn.decision, workflow and the amount in resolved_slots
    steps,    \* _Turn.steps_taken
    calls,    \* _Turn.tool_calls_made
    extra,    \* completions of this pass that are not counted as act steps
    late,     \* elapsed_s has reached AGENT_WALL_CLOCK_S
    turn,     \* the other fields of _Turn that steer the pass
    found,    \* LoopState and the citable evidence
    ret,      \* who called _run_act
    left,     \* calls of the current completion not looked at yet
    spent     \* _settle_data_debt's `spent`

vars == <<pc, pass, outcome, card, ask, steps, calls, extra, late, turn, found,
          ret, left, spent>>

PCs      == {"discover", "route", "act", "nudge", "reply", "back", "debt", "leave",
             "data", "score", "profile", "gate", "action", "propose", "synthesize", "verify",
             "reissue", "closed"}
Outcomes == {"open", "awaiting", "answered", "partial", "degraded", "refused",
             "clarify", "escalated", "configuration_required", "error"}
Verdicts == {"clear", "barred", "undecided"}
Nudges   == {"workflow", "action", "breadth", "data", "proposed"}
Callers  == {"drive", "data", "recovery", "action"}
Asks     == [intent : {"policy_qa", "employee_data", "workflow", "action"},
             workflow : {"none", "expense", "pto"}, amount : BOOLEAN]
TurnRecord  == [stop : Budgets \cup {"answered", "awaiting", "declined", "tool_failed"},
                nudges : SUBSET Nudges, reopened : BOOLEAN, blocked : BOOLEAN,
                declined : BOOLEAN, performed : BOOLEAN, writeFailed : BOOLEAN,
                clarified : BOOLEAN, pending : {"none", "scored", "other"}]
FoundRecord == [results : SUBSET Slots, failed : SUBSET Slots,
                verdict : Verdicts \cup {"none"}, forActor : BOOLEAN,
                evidence : SUBSET {"grounded", "spread"}]

\* A new _Turn.
Fresh == [stop |-> "answered", nudges |-> {}, reopened |-> FALSE, blocked |-> FALSE,
          declined |-> FALSE, performed |-> FALSE, writeFailed |-> FALSE,
          clarified |-> FALSE, pending |-> "none"]

\* Faulty: a resumed turn starts without the default stop_reason.
FreshUnset == [Fresh EXCEPT !.stop = "none"]

\* The _Turn that _rehydrate() builds.
Resumed == Fresh

LoopInit ==
    /\ pc = "discover" /\ pass = "chat"
    /\ outcome = "open" /\ card = "none"
    /\ ask = [intent |-> "workflow", workflow |-> "none", amount |-> FALSE]
    /\ steps = 0 /\ calls = 0 /\ extra = 0
    /\ late = FALSE
    /\ turn = Fresh
    /\ found = [results |-> {}, failed |-> {}, verdict |-> "none",
                forActor |-> FALSE, evidence |-> {}]
    /\ ret = "drive" /\ left = 0 /\ spent = FALSE

-----------------------------------------------------------------------------
\* What the orchestrator asks of the turn.

\* _permitted(): the router's gate and the ablation filter; a turn without a
\* catalog, which a declined one is, may call nothing.
Permitted ==
    CASE pass = "declined" -> {}
      [] ask.intent = "policy_qa" /\ ~ turn.reopened -> RagTools \ Disabled
      [] OTHER -> Tools \ Disabled

\* requires_tool_results of the workflow.  A remote-work question is, to the loop, a
\* claim whose amount was not given.
Required == CASE ask.workflow = "expense" -> {"profile", "compliance"}
              [] ask.workflow = "pto" -> {"profile", "balance", "compliance"}
              [] OTHER -> {}

Missing == Required \ found.results

\* evidence_met: the passages, or for a PTO request the ticket itself.
EvidenceMet == \/ "spread" \in found.evidence
               \/ ask.workflow = "pto" /\ turn.performed

Complete == /\ ask.workflow # "none"
            /\ Missing = {}
            /\ found.verdict \in {"clear", "barred"}
            /\ EvidenceMet

ActionOutstanding ==
    /\ ask.intent = "action"
    /\ turn.pending = "none"
    /\ ~ turn.blocked /\ ~ turn.declined /\ ~ turn.writeFailed
    /\ "write" \notin found.results

DataOutstanding ==
    /\ turn.pending = "none"
    /\ ~ turn.declined /\ ~ turn.writeFailed
    /\ "write" \notin found.results
    /\ IF ask.workflow # "none"
       THEN "workflow" \notin turn.nudges /\ Missing \cap Permitted # {}
       ELSE /\ ask.intent = "employee_data"
            /\ RecordTools \cap Permitted # {}
            /\ RecordTools \cap Permitted \cap found.results = {}

\* Faulty: the read is owed whatever the budget says.
ProfileAlwaysOutstanding ==
    /\ "profile" \notin found.results \cup Disabled
    /\ found.forActor

\* _profile_outstanding(): asks the filter, not the router's gate.
ProfileOutstanding ==
    /\ "profile" \notin found.results \cup Disabled
    /\ found.forActor
    /\ calls < MaxCalls

VerdictOutstanding ==
    /\ ask.workflow = "expense" /\ ask.amount
    /\ "compliance" \notin found.results
    /\ "compliance" \in Permitted
    /\ calls < MaxCalls

\* A step of the workflow's own, outside its budgets.
OutOfBudget == turn.stop \in Budgets \/ late

-----------------------------------------------------------------------------
\* Control.

Goto(p)   == pc' = p /\ UNCHANGED outcome
Finish(o) == pc' = "closed" /\ outcome' = o
Stop(s)   == turn' = [turn EXCEPT !.stop = s]

\* _run_act(), called from c.
Run(c) == Goto("act") /\ ret' = c

\* _absorb(): what a successful result of the tool may add to f.
Absorb(tool, f) ==
    \E v \in IF tool = "compliance" THEN Verdicts ELSE {f.verdict},
       a \in IF tool \in ProfileFirst THEN {f.forActor, TRUE} ELSE {f.forActor},
       e \in IF tool \in RagTools THEN SUBSET {"grounded", "spread"} ELSE {{}} :
          found' = [f EXCEPT !.results  = @ \cup ({tool} \cap Slots),
                             !.verdict  = v,
                             !.forActor = a,
                             !.evidence = @ \cup e]

\* A failed call leaves its span, which only a resume reads.
Noted(tool, f) == [f EXCEPT !.failed = @ \cup ({tool} \cap Slots)]

Replies(tool) ==
    CASE tool = "write"  -> {"gated", "error"}
      [] tool = "search" -> {"ok", "error"}
      [] OTHER           -> {"ok", "error", "not_found"}

\* _invoke(): a call that errs is asked to be repaired once, when a second call
\* fits the budget; r is what the caller sees, g what is found apart from it.
Invoke(tool, r, g) ==
    /\ calls < MaxCalls
    /\ \/ /\ r # "error" \/ calls + 1 >= MaxCalls
          /\ g = IF r = "error" THEN Noted(tool, found) ELSE found
          /\ calls' = calls + 1
          /\ UNCHANGED extra
       \/ /\ calls + 1 < MaxCalls
          /\ g = Noted(tool, found)
          /\ extra' = extra + 1
          /\ \/ r = "error" /\ calls' = calls + 1     \* no usable repair
             \/ calls' = calls + 2

\* One of the orchestrator's own calls, then on to p.
Direct(tool, p) ==
    /\ calls' = calls + 1
    /\ \/ Absorb(tool, found)
       \/ found' = Noted(tool, found)
    /\ Goto(p)

-----------------------------------------------------------------------------
\* _drive(): discovery and the router.

Discover ==
    /\ pc = "discover"
    /\ IF pass = "chat"
       THEN /\ \/ Goto("route")
               \/ Finish("degraded")
               \/ Finish("refused")       \* the out-of-corpus pre-check
            /\ UNCHANGED card
       ELSE \/ Goto("reissue") /\ card' = "confirmed"
            \/ Finish("degraded") /\ UNCHANGED card
    /\ UNCHANGED <<pass, ask, steps, calls, extra, late, turn, found, ret, left, spent>>

\* A decision; or the fallback for a router that could not answer, which is the
\* decision the turn began with; or an end that needs no tools.  Only a claim's
\* amount matters.
Route ==
    /\ pc = "route"
    /\ extra' = extra + 1
    /\ \/ /\ \E i \in Intents, w \in Workflows, m \in BOOLEAN :
                 /\ m => w = "expense"
                 /\ ask' = [intent |-> i, workflow |-> w, amount |-> m]
          /\ Run("drive")
       \/ UNCHANGED ask /\ Run("drive")
       \/ /\ \E o \in {"escalated", "refused", "clarify",
                       "configuration_required", "error"} : Finish(o)
          /\ UNCHANGED <<ask, ret>>
    /\ UNCHANGED <<pass, card, steps, calls, late, turn, found, left, spent>>

-----------------------------------------------------------------------------
\* _act(): the loop.

\* The two budgets read at the top of every step.
StopForBudget ==
    /\ pc = "act" /\ pass # "declined"
    /\ steps >= MaxSteps \/ late
    /\ Stop(IF steps >= MaxSteps THEN "max_steps" ELSE "timeout")
    /\ Goto("back")
    /\ UNCHANGED <<pass, card, ask, steps, calls, extra, late, found, ret, left, spent>>

\* Faulty: a step the model spent is not counted.
UncountedStep == UNCHANGED steps

CountedStep == steps' = steps + 1

\* One completion, of no tool call or of several.
ActStep ==
    /\ pc = "act" /\ pass # "declined"
    /\ steps < MaxSteps /\ ~ late
    /\ CountedStep
    /\ \E n \in 0 .. MaxBatch : left' = n /\ Goto(IF n = 0 THEN "nudge" ELSE "reply")
    /\ UNCHANGED <<pass, card, ask, calls, extra, late, turn, found, ret, spent>>

\* The model raises, here or when asked for a repair.  Only the first run of the
\* loop is guarded; behind a debt it goes to the catch-all.
ModelFails ==
    /\ \/ pc = "act" /\ pass # "declined" /\ steps < MaxSteps /\ ~ late
       \/ pc = "reply" /\ left > 0 /\ calls + 1 < MaxCalls
    /\ extra' = extra + 1
    /\ \E o \in IF ret = "drive" THEN {"configuration_required", "error"}
                                 ELSE {"error"} : Finish(o)
    /\ UNCHANGED <<pass, card, ask, steps, calls, late, turn, found, ret, left, spent>>

\* A declined turn has no catalog: the loop's assertion fails.
NoCatalog ==
    /\ pc = "act" /\ pass = "declined"
    /\ Finish("error")
    /\ UNCHANGED <<pass, card, ask, steps, calls, extra, late, turn, found, ret, left, spent>>

\* What _nudge() finds wanting.  Whether the corpus has been searched broadly
\* enough is left open.
Wanting(n) ==
    CASE n = "workflow" -> /\ ask.workflow # "none" /\ ~ Complete
                           /\ \/ Missing \cap Permitted # {}
                              \/ "search" \in Permitted /\ ~ EvidenceMet
      [] n = "action"   -> ActionOutstanding /\ "write" \in Permitted
      [] n = "breadth"  -> "search" \in Permitted

Due(n) == n \notin turn.nudges /\ Wanting(n)

\* A completion without a call: one reminder, the first that is due and each at
\* most once, or the end of the run.
NoToolCall ==
    /\ pc = "nudge"
    /\ \/ \E n \in {"workflow", "action", "breadth"} :
             /\ Due(n)
             /\ n # "workflow" => ~ Due("workflow")
             /\ n = "breadth" => ~ Due("action")
             /\ turn' = [turn EXCEPT !.nudges = @ \cup {n}]
             /\ Goto("act")
       \/ /\ ~ Due("workflow") /\ ~ Due("action")
          /\ Goto("back")
          /\ UNCHANGED turn
    /\ UNCHANGED <<pass, card, ask, steps, calls, extra, late, found, ret, left, spent>>

\* The tool budget, read before every call.
StopForCalls ==
    /\ pc = "reply" /\ left > 0
    /\ calls >= MaxCalls
    /\ Stop("max_tool_calls")
    /\ Goto("back")
    /\ UNCHANGED <<pass, card, ask, steps, calls, extra, late, found, ret, left, spent>>

\* A name that is not permitted, or no tool's, is refused at the boundary and not
\* counted.
RefusedCall ==
    /\ pc = "reply" /\ left > 0
    /\ calls < MaxCalls
    /\ left' = left - 1
    /\ UNCHANGED <<pc, pass, outcome, card, ask, steps, calls, extra, late, turn,
                   found, ret, spent>>

\* A read: its result goes to the turn and the loop goes on, but for an employee
\* nobody knows, which ends the loop on a question.
CallTool(tool) ==
    /\ pc = "reply" /\ left > 0
    /\ tool \in Permitted \ {"write"}
    /\ \E r \in Replies(tool), g \in {found, Noted(tool, found)} :
          /\ Invoke(tool, r, g)
          /\ IF r = "ok" THEN Absorb(tool, g) ELSE found' = g
          /\ IF r = "not_found"
             THEN turn' = [turn EXCEPT !.clarified = TRUE] /\ Goto("back") /\ UNCHANGED left
             ELSE left' = left - 1 /\ UNCHANGED <<turn, pc, outcome>>
    /\ UNCHANGED <<pass, card, ask, steps, late, ret, spent>>

\* _refuse_write(): the verdict on the write's own scenario is not one that lets
\* it be filed.  A verdict that decided nothing may or may not stop it.
Refuses(scored) == scored /\ found.verdict \in {"barred", "undecided"}
MayPropose(scored) == ~ (scored /\ found.verdict = "barred")

\* _propose(): the card and its pending span.  It is scored when the write goes
\* to the queue of the scenario that has the verdict.
Propose(scored) ==
    /\ turn' = [turn EXCEPT !.pending = IF scored THEN "scored" ELSE "other",
                            !.stop = "awaiting"]
    /\ card' = "pending"

\* The gated write: refused for the verdict, or proposed, which ends the loop.
CallWrite ==
    /\ pc = "reply" /\ left > 0
    /\ "write" \in Permitted
    /\ \E r \in Replies("write"), g \in {found, Noted("write", found)},
          scored \in {b \in BOOLEAN : b => found.verdict # "none"} :
          /\ Invoke("write", r, g)
          /\ found' = g
          /\ \/ r = "error" /\ left' = left - 1 /\ UNCHANGED <<turn, card, pc, outcome>>
             \/ /\ r = "gated" /\ Refuses(scored)
                /\ turn' = [turn EXCEPT !.blocked = TRUE]
                /\ left' = left - 1
                /\ UNCHANGED <<card, pc, outcome>>
             \/ /\ r = "gated" /\ MayPropose(scored)
                /\ Propose(scored)
                /\ Goto("back")
                /\ UNCHANGED left
    /\ UNCHANGED <<pass, ask, steps, late, ret, spent>>

\* The step is over: the workflow is complete with nothing left to propose, or
\* the recovery has had its one step, or the loop goes round.
EndStep ==
    /\ pc = "reply" /\ left = 0
    /\ IF Complete /\ ~ ActionOutstanding
       THEN Stop("answered") /\ Goto("back")
       ELSE Goto(IF turn.reopened THEN "back" ELSE "act") /\ UNCHANGED turn
    /\ UNCHANGED <<pass, card, ask, steps, calls, extra, late, found, ret, left, spent>>

\* Faulty: a card proposed behind a debt does not park the turn.
BackUnparked ==
    /\ pc = "back"
    /\ Goto(CASE ret = "drive" -> "debt" [] ret = "data" -> "score"
              [] ret = "recovery" -> "gate" [] ret = "action" -> "propose")
    /\ ret' = "drive" /\ left' = 0
    /\ UNCHANGED <<pass, card, ask, steps, calls, extra, late, turn, found, spent>>

\* _run_act() returns, and its locals go.  Behind a debt a card parks the turn at
\* once.
Back ==
    /\ pc = "back"
    /\ IF ret # "drive" /\ turn.pending # "none"
       THEN Finish("awaiting")
       ELSE Goto(CASE ret = "drive" -> "debt" [] ret = "data" -> "score"
                   [] ret = "recovery" -> "gate" [] ret = "action" -> "propose")
    /\ ret' = "drive" /\ left' = 0
    /\ UNCHANGED <<pass, card, ask, steps, calls, extra, late, turn, found, spent>>

-----------------------------------------------------------------------------
\* Behind the loop.

\* _settle_profile_debt(): one read of the orchestrator's own, whatever the other
\* budgets say.
SettleProfile(p, q) ==
    /\ pc = p
    /\ IF ProfileOutstanding THEN Direct("profile", q)
                             ELSE Goto(q) /\ UNCHANGED <<calls, found>>
    /\ UNCHANGED <<pass, card, ask, steps, extra, late, turn, ret, left, spent>>

\* The first run's three ways out: the card, the question, the answer.
Leave ==
    /\ pc = "leave"
    /\ CASE turn.pending # "none" -> Finish("awaiting")
         [] turn.pending = "none" /\ turn.clarified -> Finish("clarify")
         [] OTHER -> Goto("data")
    /\ UNCHANGED <<pass, card, ask, steps, calls, extra, late, turn, found, ret, left, spent>>

\* _settle_data_debt(): the loop once more for a record still unread.
SettleData ==
    /\ pc = "data"
    /\ spent' = OutOfBudget
    /\ IF ~ OutOfBudget /\ DataOutstanding /\ "data" \notin turn.nudges /\ steps < MaxSteps
       THEN /\ turn' = [turn EXCEPT !.nudges = @ \cup {"data"}]
            /\ Run("data")
       ELSE Goto("score") /\ UNCHANGED <<turn, ret>>
    /\ UNCHANGED <<pass, card, ask, steps, calls, extra, late, found, left>>

\* _score_deterministically(), for a claim whose amount the question gave.
SettleVerdict ==
    /\ pc = "score"
    /\ IF ~ spent /\ VerdictOutstanding THEN Direct("compliance", "profile")
                                        ELSE Goto("profile") /\ UNCHANGED <<calls, found>>
    /\ spent' = FALSE
    /\ UNCHANGED <<pass, card, ask, steps, extra, late, turn, ret, left>>

\* Faulty: a write that was performed grounds nothing.
GroundedByEvidence == "grounded" \in found.evidence

\* G1: evidence enough, or a write this turn performed.
Grounded == "grounded" \in found.evidence \/ turn.performed

\* The evidence gate, before and after its one recovery: a policy question gets
\* the whole catalog for one more step.
Gate ==
    /\ pc = "gate"
    /\ \/ Grounded /\ Goto("action") /\ UNCHANGED <<turn, ret>>
       \/ /\ ~ Grounded /\ ask.intent = "policy_qa" /\ ~ turn.reopened
          /\ turn' = [turn EXCEPT !.reopened = TRUE]
          /\ Run("recovery")
       \/ /\ ~ Grounded /\ ~ (ask.intent = "policy_qa" /\ ~ turn.reopened)
          /\ Finish("refused")
          /\ UNCHANGED <<turn, ret>>
    /\ UNCHANGED <<pass, card, ask, steps, calls, extra, late, found, left, spent>>

\* Faulty: the model is reminded, and nothing more.
RemindOnly ==
    /\ pc = "action"
    /\ IF ActionOutstanding /\ "write" \in Permitted /\ ~ OutOfBudget
             /\ "action" \notin turn.nudges
       THEN /\ turn' = [turn EXCEPT !.nudges = @ \cup {"action"}]
            /\ Run("action")
       ELSE Goto("synthesize") /\ UNCHANGED <<turn, ret>>
    /\ UNCHANGED <<pass, card, ask, steps, calls, extra, late, found, left, spent>>

\* _settle_action_debt(): the loop once more, with the reminder it may have had.
SettleAction ==
    /\ pc = "action"
    /\ IF ActionOutstanding /\ "write" \in Permitted /\ ~ OutOfBudget
       THEN IF "action" \notin turn.nudges
            THEN /\ turn' = [turn EXCEPT !.nudges = @ \cup {"action"}]
                 /\ Run("action")
            ELSE Goto("propose") /\ UNCHANGED <<turn, ret>>
       ELSE Goto("synthesize") /\ UNCHANGED <<turn, ret>>
    /\ UNCHANGED <<pass, card, ask, steps, calls, extra, late, found, left, spent>>

\* What the deterministic proposal needs: the budget, and a verdict whose
\* scenario has a queue.
Describable == calls < MaxCalls /\ found.verdict # "none"

\* _propose_deterministically(): a card of the turn's own, or none if the write
\* is not one it can describe or the call errs.
ProposeDeterministically ==
    /\ pc = "propose"
    /\ \/ /\ ~ ActionOutstanding
          /\ Goto("synthesize")
          /\ UNCHANGED <<calls, card, turn, found>>
       \/ /\ ActionOutstanding /\ Describable
          /\ calls' = calls + 1
          /\ turn' = [turn EXCEPT !.nudges = @ \cup {"proposed"}, !.stop = "awaiting",
                                  !.pending = "scored"]
          /\ card' = "pending"
          /\ Finish("awaiting")
          /\ UNCHANGED found
       \/ /\ ActionOutstanding
          /\ \/ Describable /\ calls' = calls + 1 /\ found' = Noted("write", found)
             \/ UNCHANGED <<calls, found>>
          /\ turn' = [turn EXCEPT !.nudges = @ \cup {"proposed"}]
          /\ Goto("synthesize")
          /\ UNCHANGED card
    /\ UNCHANGED <<pass, ask, steps, extra, late, ret, left, spent>>

\* _synthesize(), and what its failures make of the turn.
Synthesize ==
    /\ pc = "synthesize"
    /\ extra' = extra + 1
    /\ \/ Goto("verify")
       \/ \E o \in {"degraded", "configuration_required", "error"} : Finish(o)
    /\ UNCHANGED <<pass, card, ask, steps, calls, late, turn, found, ret, left, spent>>

\* An answer is whole when the workflow is complete and a block of substance is
\* left.
BudgetLimited(whole) == turn.stop \in Budgets /\ ~ (Complete /\ whole)

\* G2 to the close: one broader answer may be asked for inside the budget, and the
\* answer is served, or refused with its citations or for want of a claim.
Verify ==
    /\ pc = "verify"
    /\ \/ UNCHANGED extra
       \/ ~ OutOfBudget /\ extra' = extra + 1
    /\ \/ Finish("refused")
       \/ \E whole \in BOOLEAN :
             Finish(IF BudgetLimited(whole) \/ turn.writeFailed THEN "partial"
                                                                 ELSE "answered")
    /\ UNCHANGED <<pass, card, ask, steps, calls, late, turn, found, ret, left, spent>>

-----------------------------------------------------------------------------
\* The passes that answer the card.

\* The results of the turn's spans, those of failed calls with them: the body of a
\* failed check holds no verdict, and may be the latest.
Recall ==
    \E v \in IF "compliance" \in found.failed
             THEN {"undecided", found.verdict} \ {"none"} ELSE {found.verdict},
       a \in IF ProfileFirst \cap found.failed # {}
             THEN {found.forActor, TRUE} ELSE {found.forActor} :
          found' = [found EXCEPT !.results = @ \cup found.failed, !.verdict = v,
                                 !.forActor = a]

\* _rehydrate(): the spans give back the decision, the steps and the results, of
\* failed calls too; the budget of tool calls and the reminders start again.
Rehydrate(d) ==
    /\ pass' = d
    /\ calls' = 0 /\ extra' = 0
    /\ late' = FALSE
    /\ turn' = IF d = "declined"
               THEN [Resumed EXCEPT !.declined = TRUE, !.stop = "declined"] ELSE Resumed
    /\ ask' = [ask EXCEPT !.amount = FALSE]
    /\ Recall

\* POST /chat/confirm: a cancelled card is resolved at once, a confirmed one after
\* the discovery.
Decide(d) ==
    /\ pc = "closed"
    /\ card = "pending"
    /\ Rehydrate(d)
    /\ outcome' = "open"
    /\ IF d = "declined" THEN card' = "declined" /\ pc' = "data"
                         ELSE pc' = "discover" /\ UNCHANGED card
    /\ UNCHANGED <<steps, ret, left, spent>>

\* _resume(): the gated call with its token.
Reissue ==
    /\ pc = "reissue"
    /\ calls' = calls + 1
    /\ \/ /\ "write" \notin Disabled                    \* created
          /\ turn' = [turn EXCEPT !.performed = TRUE]
          /\ found' = [found EXCEPT !.results = @ \cup {"write"}]
          /\ Goto("data")
       \/ /\ turn' = [turn EXCEPT !.writeFailed = TRUE, !.stop = "tool_failed"]
          /\ found' = Noted("write", found)
          /\ Goto("data")
       \/ /\ "write" \notin Disabled                    \* the token was refused
          /\ Finish("refused")
          /\ UNCHANGED <<turn, found>>
    /\ UNCHANGED <<pass, card, ask, steps, extra, late, ret, left, spent>>

-----------------------------------------------------------------------------
\* A call of the tool server that finds it gone ends the pass with a caveat; a
\* card proposed before it stays on record.
Calling ==
    \/ pc = "reply" /\ left > 0 /\ calls < MaxCalls /\ Permitted # {}
    \/ pc \in {"debt", "profile"} /\ ProfileOutstanding
    \/ pc = "score" /\ ~ spent /\ VerdictOutstanding
    \/ pc = "propose" /\ ActionOutstanding /\ Describable
    \/ pc = "reissue" /\ "write" \notin Disabled

ServerLost ==
    /\ Calling
    /\ turn' = IF pc = "propose" THEN [turn EXCEPT !.nudges = @ \cup {"proposed"}] ELSE turn
    /\ Finish("degraded")
    /\ UNCHANGED <<pass, card, ask, steps, calls, extra, late, found, ret, left, spent>>

ClockRunsOut ==
    /\ pc # "closed" /\ ~ late
    /\ late' = TRUE
    /\ UNCHANGED <<pc, pass, outcome, card, ask, steps, calls, extra, turn, found,
                   ret, left, spent>>

Step ==
    \/ Discover \/ Route
    \/ StopForBudget \/ ActStep \/ ModelFails \/ NoCatalog \/ NoToolCall
    \/ StopForCalls \/ RefusedCall \/ CallWrite \/ EndStep \/ Back
    \/ \E tool \in Tools : CallTool(tool)
    \/ SettleProfile("debt", "leave") \/ Leave \/ SettleData \/ SettleVerdict
    \/ SettleProfile("profile", "gate") \/ Gate \/ SettleAction
    \/ ProposeDeterministically \/ Synthesize \/ Verify
    \/ Reissue \/ ServerLost

LoopNext == Step \/ ClockRunsOut \/ \E d \in {"confirmed", "declined"} : Decide(d)

LoopSpec == LoopInit /\ [][LoopNext]_vars

\* A request that is being served is served to its end.
FairLoopSpec == LoopSpec /\ WF_vars(Step)

-----------------------------------------------------------------------------
\* Properties

\* Every field holds what the code can put there.
LoopTypeOK ==
    /\ pc \in PCs
    /\ pass \in {"chat", "confirmed", "declined"}
    /\ outcome \in Outcomes
    /\ card \in {"none", "pending", "confirmed", "declined"}
    /\ ask \in Asks
    /\ steps \in Nat /\ calls \in Nat /\ extra \in Nat
    /\ late \in BOOLEAN
    /\ turn \in TurnRecord
    /\ found \in FoundRecord
    /\ ret \in Callers
    /\ left \in 0 .. MaxBatch
    /\ spent \in BOOLEAN

\* A turn takes no more act steps than AGENT_MAX_STEPS over all its passes, and a
\* pass no more tool calls than AGENT_MAX_TOOL_CALLS, the repairs and the calls the
\* orchestrator makes itself included.  So the model is asked a bounded number of
\* times: for each step, for the repair of each call, and for the route, the
\* synthesis and the broader answer.
WithinBudgets ==
    /\ steps <= MaxSteps
    /\ calls <= MaxCalls
    /\ extra <= MaxCalls + 3

\* A card that is put on record reaches the reader: however the loop was left, the
\* turn is parked on it (or degraded, its tool server gone), and a turn that awaits
\* an answer has a card to answer.
PendingIsParked ==
    pc = "closed" => /\ card = "pending" => outcome \in {"awaiting", "degraded"}
                     /\ outcome = "awaiting" => card = "pending"

\* A turn asked to do something does not end in an answer before it was tried: at
\* synthesis the write has been proposed, refused or answered, or the budget is
\* gone, or the tool is withheld, or the orchestrator has had its own try
\* (_settle_action_debt, "the debt is terminal").
ActionDebtIsTerminal ==
    pc = "synthesize" /\ ActionOutstanding =>
        OutOfBudget \/ "write" \notin Permitted \/ "proposed" \in turn.nudges

\* Once a card was cancelled, or its write performed, no other card is put before
\* the reader in the same turn.
DealtWithForGood ==
    [][turn.declined \/ turn.performed => card' = card]_vars

\* Whatever the model and the tools do, every request is answered.
EveryPassAnswers == pc # "closed" ~> pc = "closed"

\* "A write the deterministic layer refuses is never proposed": no card is pending
\* for a request whose own verdict bars it (_refuse_write).
RefusedIsNotProposed ==
    ~ (turn.pending = "scored" /\ found.verdict = "barred")
=============================================================================
