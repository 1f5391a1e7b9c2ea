---------------------------------- MODULE Turns ----------------------------------
(***************************************************************************)
(* What a turn is taken to ask: the router's decision made safe            *)
(* (agent/router.py), the slots a session remembers (session.py), what a   *)
(* clarification asks for (orchestrator), what a workflow still owes       *)
(* (workflows/), and the blocks read off the answer as it streams          *)
(* (answer_stream.py).                                                     *)
(***************************************************************************)
EXTENDS Filters

-----------------------------------------------------------------------------
(* Routing. *)
Catalog == {"search", "profile", "compliance", "ticket"}
RAG_TOOLS == {"search"}
Workflows == {"pto", "remote", "expense"}

RouteInputs == [intent : {"policy_qa", "employee_data", "workflow", "action"}, workflow : Workflows \cup {"none"},
                needs_employee_data : BOOLEAN, selected : {{}, {"search", "unknown"}, {"ticket"}},
                target : {"none", "valid", "invalid"}, named : BOOLEAN, money : BOOLEAN, approval : BOOLEAN,
                disabled : {{}, {"ticket"}}, reopened : BOOLEAN]

normalise(r) ==
    LET monetary == r.money /\ r.approval
        expense == monetary /\ r.workflow = "none" /\ r.intent # "action"
    IN  [r EXCEPT !.selected = @ \cap Catalog,
                  !.target = IF @ = "valid" THEN @ ELSE IF r.named THEN "valid" ELSE "none",
                  !.workflow = IF expense THEN "expense" ELSE @,
                  !.intent = IF expense THEN "workflow" ELSE @,
                  !.needs_employee_data = @ \/ monetary]

allowed_tools(r) ==
    (IF r.intent = "policy_qa" /\ ~r.reopened THEN Catalog \cap RAG_TOOLS ELSE Catalog) \ r.disabled

(***************************************************************************)
(* A claim with an amount in it is scored by the expense workflow however  *)
(* the model routed it, without undoing another workflow it chose; a tool  *)
(* that is disabled or not in the catalog is never offered; and nobody's   *)
(* record is read for an id that is none (router.normalise, allowed_tools).*)
(***************************************************************************)
RoutesAreSafe(r) ==
    LET out == normalise(r)
        tools == allowed_tools(out)
    IN  /\ (r.money /\ r.approval) => out.needs_employee_data /\ (out.workflow # "none" \/ r.intent = "action")
        /\ (r.money /\ r.approval /\ r.intent # "action") => "compliance" \in tools \/ out.intent = "policy_qa"
        /\ r.workflow # "none" => out.workflow = r.workflow
        /\ tools \cap r.disabled = {} /\ out.selected \subseteq Catalog
        /\ out.target # "invalid" /\ normalise(out) = out

-----------------------------------------------------------------------------
(* Slots. A turn of a session holds the slots its calls sent, whether it   *)
(* has an outcome yet, its workflow and whether it made a write.           *)
MAX_TURNS == 3
SLOT_FAMILIES == {{"days", "end_date"}}
SlotKeys == {"start_date", "days", "end_date"}
SlotValues == {1, 2}
Partial(keys) == UNION {[k -> SlotValues] : k \in SUBSET keys}
SessionTurns == [slots : Partial({"start_date", "days"}), finished : BOOLEAN, workflow : {"pto"}, wrote : {FALSE}] \cup
                [slots : {[start_date |-> 1, days |-> 2], [start_date |-> 2, end_date |-> 2], [x \in {} |-> 1]}, finished : {TRUE},
                 workflow : {"pto", "none"}, wrote : {TRUE}]
CallSlots == UNION {[k -> {1}] : k \in SUBSET SlotKeys}
SessionInputs == [turns : {<<a, b>> : a, b \in SessionTurns} \cup {<<a, b, b, b>> : a, b \in SessionTurns},
                  call : {[tool |-> t, parameters |-> p] : t \in {"compliance", "balance"}, p \in CallSlots},
                  workflow : {"pto", "remote"}]

\* The newest finished turns, oldest first.
recent(turns) ==
    LET finished == Filter(turns, LAMBDA t : t.finished)
        from == IF Len(finished) > MAX_TURNS THEN Len(finished) - MAX_TURNS + 1 ELSE 1
    IN  SubSeq(finished, from, Len(finished))

Overlay(f, g) == [k \in DOMAIN f \cup DOMAIN g |-> IF k \in DOMAIN g THEN g[k] ELSE f[k]]
NoSlots == [k \in {} |-> 1]
inherited_slots(turns) ==
    LET upTo[i \in 0..Len(turns)] == IF i = 0 THEN NoSlots ELSE Overlay(upTo[i - 1], turns[i].slots)
    IN  upTo[Len(turns)]

prior_writes(turns) == {i \in DOMAIN turns : turns[i].wrote /\ \A j \in DOMAIN turns : turns[j].wrote => j <= i}

\* relates_to: the same workflow, or one slot of the subject the same.
relates_to(write, workflow, slots) ==
    \/ write.workflow # "none" /\ write.workflow = workflow
    \/ \E k \in {"start_date", "end_date"} :
          k \in DOMAIN write.slots /\ k \in DOMAIN slots /\ write.slots[k] = slots[k]
_prior_write(turns, workflow) ==
    \E i \in prior_writes(turns) : relates_to(turns[i], workflow, inherited_slots(turns))

_inherit_slots(call, remembered) ==
    LET supplied == DOMAIN call.parameters
        blocked == UNION {family \in SLOT_FAMILIES : family \cap supplied # {}}
        added == DOMAIN remembered \ (supplied \cup blocked)
    IN  IF call.tool # "compliance" THEN call
        ELSE [call EXCEPT !.parameters = Overlay([k \in added |-> remembered[k]], @)]

(***************************************************************************)
(* A follow-up changes the request it names: what it supplies stands, and  *)
(* no part of the old request's span is put beside a new one; what it      *)
(* leaves out is what the session last said of it; and an answer that      *)
(* tells of an earlier write tells of one about this request               *)
(* (session.recent, inherited_slots, relates_to, _inherit_slots).          *)
(***************************************************************************)
FollowUpsKeepTheirSubject(input) ==
    LET turns == recent(input.turns)
        sent == _inherit_slots(input.call, inherited_slots(turns)).parameters
        said == input.call.parameters
        lastSaid(k) == {i \in DOMAIN turns : k \in DOMAIN turns[i].slots
                            /\ \A j \in (i + 1)..Len(turns) : k \notin DOMAIN turns[j].slots}
    IN  /\ \A k \in DOMAIN said : sent[k] = said[k]
        /\ ({"days", "end_date"} \cap DOMAIN said # {}) => {"days", "end_date"} \cap DOMAIN sent \subseteq DOMAIN said
        /\ \A k \in DOMAIN sent \ DOMAIN said : \E i \in lastSaid(k) : sent[k] = turns[i].slots[k]
        /\ input.call.tool = "compliance" /\ lastSaid("start_date") # {} => "start_date" \in DOMAIN sent
        /\ _prior_write(turns, input.workflow) =>
              \E i \in DOMAIN turns : turns[i].wrote /\ (turns[i].workflow = input.workflow \/ DOMAIN turns[i].slots # {})
        /\ (input.turns # <<>> /\ \A i \in DOMAIN input.turns : ~input.turns[i].finished) => sent = said

-----------------------------------------------------------------------------
(* Clarification. *)
CLARIFY_SLOT_ORDER == [pto |-> <<"identity", "start_date", "days">>, remote |-> <<"identity", "country", "duration">>,
                       expense |-> <<"identity", "amount">>]
EmployeeDataOrder == <<"identity", "employee_data">>
ClarifyInputs == [workflow : Workflows \cup {"none"}, known : SUBSET {"start_date", "days", "amount", "country"},
                  has_record : BOOLEAN, intent : {"employee_data", "workflow"},
                  topic : {"none", "pto", "remote"}, rationale : {"none", "identity", "days"}]

unfilled_slots(order, i) == Filter(order, LAMBDA s : IF s = "identity" THEN ~i.has_record ELSE s \notin i.known)

\* The workflow's slots, else the intent's, else those of what the text is about, else
\* the one the router's reason names.
_clarification(i) ==
    LET order == IF i.workflow # "none" THEN CLARIFY_SLOT_ORDER[i.workflow]
                 ELSE IF i.intent = "employee_data" THEN EmployeeDataOrder ELSE <<>>
        own == unfilled_slots(order, i)
        inferred == IF own = <<>> /\ i.workflow = "none" /\ i.topic # "none"
                    THEN unfilled_slots(CLARIFY_SLOT_ORDER[i.topic], i) ELSE own
    IN  IF inferred # <<>> THEN inferred
        ELSE IF i.rationale = "none" \/ (i.rationale = "identity" /\ i.has_record) THEN <<>> ELSE <<i.rationale>>

(***************************************************************************)
(* A clarification never asks who the reader is when the session knows,    *)
(* asks for every slot the workflow lacks and for none it was told, except *)
(* the one the router's own reason names (_clarification_text).            *)
(***************************************************************************)
AsksForWhatIsMissing(i) ==
    LET asked == ToSet(_clarification(i))
    IN  /\ i.has_record => "identity" \notin asked
        /\ (asked \cap i.known) \subseteq {i.rationale} /\ (asked \cap i.known # {} => Len(_clarification(i)) = 1)
        /\ i.workflow # "none" => (ToSet(CLARIFY_SLOT_ORDER[i.workflow]) \ (i.known \cup {"identity"})) \subseteq asked

-----------------------------------------------------------------------------
(* What a workflow owes: tool results, and evidence it may cite. *)
REQUIRES == [pto |-> {"profile", "balance", "compliance"}, remote |-> {"profile", "compliance"},
             expense |-> {"profile", "compliance"}]
DebtInputs == [workflow : Workflows, results : SUBSET {"profile", "balance", "compliance"},
               verdict : {"compliant", "insufficient_evidence"}, chunks : 0..2, docs : 0..3, wrote : BOOLEAN,
               permitted : SUBSET {"profile", "balance", "compliance", "search"}]

decided(d) == "compliance" \in d.results /\ d.verdict # "insufficient_evidence"
evidence_met(d) == CASE d.workflow = "remote" -> d.docs >= 3
                     [] d.workflow = "pto" -> d.chunks >= 2 \/ d.wrote
                     [] OTHER -> d.chunks >= 2
is_complete(d) == REQUIRES[d.workflow] \subseteq d.results /\ decided(d) /\ evidence_met(d)
debts(d) == ((REQUIRES[d.workflow] \ d.results) \cap d.permitted)
            \cup (IF "search" \in d.permitted /\ ~evidence_met(d) THEN {"evidence"} ELSE {})

(***************************************************************************)
(* Only debts the turn can pay are put to the model, and a turn with every *)
(* tool at hand and no debt is complete unless the engine itself had too   *)
(* little to decide on (WorkflowSpec.debts, is_complete).                  *)
(***************************************************************************)
DebtsAreWhatCompletes(d) ==
    /\ debts(d) \ {"evidence"} \subseteq d.permitted
    /\ is_complete(d) => debts(d) = {}
    /\ (debts(d) = {} /\ d.permitted = {"profile", "balance", "compliance", "search"}
          /\ d.verdict # "insufficient_evidence") => is_complete(d)
    /\ is_complete(d) => "compliance" \in d.results

-----------------------------------------------------------------------------
(* The blocks of a streaming answer: the characters that matter inside the *)
(* array are braces, quotes, the backslash and the closing bracket.        *)
Chars == {"{", "}", "q", "esc", "]", "x"}
ScanInputs == [text : [1..5 -> Chars], cut : 1..4]

Scanner == [depth |-> 0, inString |-> FALSE, escaped |-> FALSE, blocks |-> 0, done |-> FALSE]
\* A fresh chunk starts outside any string (faulty).
ForgetString(s) == [s EXCEPT !.inString = FALSE]
Carried(s) == s
ScanChar(s, c) ==
    IF s.done THEN s
    ELSE IF s.inString
    THEN IF s.escaped THEN [s EXCEPT !.escaped = FALSE]
         ELSE [s EXCEPT !.escaped = (c = "esc"), !.inString = c # "q"]
    ELSE CASE c = "q" -> [s EXCEPT !.inString = TRUE]
           [] c = "{" -> [s EXCEPT !.depth = @ + 1]
           [] c = "}" -> [s EXCEPT !.depth = @ - 1, !.blocks = IF s.depth = 1 THEN @ + 1 ELSE @]
           [] c = "]" -> [s EXCEPT !.done = s.depth = 0]
           [] OTHER -> s
Advance(s, text) ==
    LET after[n \in 0..Len(text)] == IF n = 0 THEN Carried(s) ELSE ScanChar(after[n - 1], text[n])
    IN  after[Len(text)]

\* Read in two chunks, the first drained before the second comes.
StreamedBlocks(i) ==
    LET cut == IF i.cut > Len(i.text) THEN Len(i.text) ELSE i.cut
        first == Advance(Scanner, SubSeq(i.text, 1, cut))
        second == Advance(first, SubSeq(i.text, cut + 1, Len(i.text)))
    IN  <<first.blocks, second.blocks>>

(***************************************************************************)
(* However the answer arrives, the blocks shown are those of the whole     *)
(* text, each once and none that is still open (answer_stream.py).         *)
(***************************************************************************)
StreamIsTheAnswer(i) ==
    LET whole == Advance(Scanner, i.text).blocks
        streamed == StreamedBlocks(i)
    IN  streamed[2] = whole /\ streamed[1] <= whole
        /\ whole <= Cardinality({n \in DOMAIN i.text : i.text[n] = "}"})
=============================================================================
