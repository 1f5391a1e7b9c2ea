---------------------------------- MODULE Pages ----------------------------------
(***************************************************************************)
(* A turn as a page shows it: answered live and replayed from its row when *)
(* the page is loaded again (Orchestrator._served, _finish; _render_turn,  *)
(* _rehydrate and chat_page of web/api.py), and the counts every page      *)
(* states of its checks.                                                   *)
(***************************************************************************)
EXTENDS Filters

-----------------------------------------------------------------------------
(* Texts: two that hold a secret, one with an employee's id in it, one     *)
(* that opens a section of its own with the heading of the next steps, and *)
(* what a clarification asks. A block's citation may be of a chunk the     *)
(* index no longer has.                                                    *)
Secret(text) == text \in {"secret1", "secret2"}
Redacted(text) == IF Secret(text) THEN "redacted" ELSE text
RedactedAll(texts) == [n \in DOMAIN texts |-> Redacted(texts[n])]
without_employee_ids(text) == IF text = "with_id" THEN "without_id" ELSE text

Block(type, text, cites) == [type |-> type, text |-> text, cites |-> cites]
FactBlocks == {Block("policy_fact", t, c) : t \in {"plain", "secret1"}, c \in {{"known"}, {"stale"}, {"known", "stale"}}}
Notices == {Block("notice", t, {}) : t \in {"plain", "other", "secret2", "steps"}} \cup {Block("notice", "other", {"stale"})}
SlotsAsked == {<<>>, <<"identity">>, <<"identity", "days">>, <<"days">>}
Answer(outcome, blocks, steps, slots, record, column) ==
    [outcome |-> outcome, blocks |-> blocks, steps |-> steps, slots |-> slots, has_record |-> record, column |-> column]

\* column: the row is of the schema that has next_steps_json. A session with a record
\* is never asked who it is.
ServedAnswers == {b \in SeqOf(FactBlocks \cup Notices, 2) : b # <<>>}
StepLists == SeqOf({"plain", "with_id", "secret1", "secret2"}, 2)
AnsweredInputs ==
    {Answer(o, b, s, <<>>, TRUE, m) : o \in {"answered", "refused"}, b \in ServedAnswers, s \in StepLists, m \in BOOLEAN}
ParkedInputs == {Answer("awaiting_confirmation", <<Block("notice", "plain", {})>>, <<>>, <<>>, TRUE, m) : m \in BOOLEAN}
ClarifyingInputs ==
    {i \in {Answer("clarify", <<>>, <<"other">>, s, r, m) : s \in SlotsAsked, r, m \in BOOLEAN} :
        i.has_record => "identity" \notin ToSet(i.slots)}
AnswerInputs == AnsweredInputs \cup ParkedInputs \cup ClarifyingInputs

LABELLED_OUTCOMES == {"answered", "escalated", "partial"}

-----------------------------------------------------------------------------
(* Clarifications. *)
CLARIFY_QUESTIONS == [identity |-> "who", days |-> "how many", fallback |-> "tell me more"]
CLARIFY_CHIPS == [identity |-> {"it is for", "look it up"}, days |-> {"three days", "one day"},
                  fallback |-> {"my time off", "working elsewhere"}]
NEEDS_A_RECORD == {"look it up"}
SlotOf(slots) == IF slots = <<>> THEN "fallback" ELSE Head(slots)

\* The question opens with that of the first slot and names the rest after it.
clarification_question(slots) == CLARIFY_QUESTIONS[SlotOf(slots)]
clarify_slot_of(text) ==
    IF \E s \in {"identity", "days"} : CLARIFY_QUESTIONS[s] = text
    THEN CHOOSE s \in {"identity", "days"} : CLARIFY_QUESTIONS[s] = text ELSE "fallback"
clarify_chips(slot, has_record) == IF has_record THEN CLARIFY_CHIPS[slot] ELSE CLARIFY_CHIPS[slot] \ NEEDS_A_RECORD

-----------------------------------------------------------------------------
(* The end of a turn. *)
\* _served: what cannot be resolved is stripped, a policy fact that lost all it cited
\* goes with it, and an answer that would be emptied keeps its sentences, uncited.
_served(blocks) ==
    LET kept == FlattenSeq([n \in DOMAIN blocks |->
            LET left == [blocks[n] EXCEPT !.cites = @ \ {"stale"}]
            IN  IF left.type = "policy_fact" /\ left.cites = {} THEN <<>> ELSE <<left>>])
    IN  IF kept # <<>> THEN kept
        ELSE [n \in DOMAIN blocks |-> [blocks[n] EXCEPT !.type = "recommendation", !.cites = {}]]

\* render_answer as lines: the steps under a heading of their own, last.
Lines(kind, texts) == [n \in DOMAIN texts |-> [line |-> kind, text |-> texts[n]]]
TextLines(text) == IF text = "steps" THEN Lines("lead", <<"">>) \o Lines("bullet", <<"other">>) ELSE Lines("text", <<text>>)
render_answer(blocks, steps) ==
    FlattenSeq([n \in DOMAIN blocks |-> TextLines(blocks[n].text)])
        \o (IF steps = <<>> THEN <<>> ELSE Lines("lead", <<"">>) \o Lines("bullet", steps))
parse_next_steps(lines) ==
    LET leads == {n \in DOMAIN lines : lines[n].line = "lead"}
        tail == SubSeq(lines, Max(leads \cup {0}) + 1, Len(lines))
        steps == Filter(tail, LAMBDA l : l.line = "bullet")
    IN  IF leads = {} THEN <<>> ELSE [n \in DOMAIN steps |-> steps[n].text]

\* _finish: the response, and the row the closing UPDATE leaves, redacted.
_finish(i) ==
    LET asked == Block("notice", clarification_question(i.slots), {})
        blocks == _served(IF i.outcome = "clarify" THEN <<asked>> ELSE i.blocks)
        stored == [n \in DOMAIN blocks |-> [blocks[n] EXCEPT !.text = Redacted(@)]]
        cited == UNION {blocks[n].cites : n \in DOMAIN blocks}
        lines == render_answer(blocks, i.steps)
    IN  [response |-> [outcome |-> i.outcome, blocks |-> blocks, next_steps |-> i.steps, citations |-> cited,
                       quick_replies |-> IF i.outcome = "clarify" THEN clarify_chips(SlotOf(i.slots), i.has_record) ELSE {},
                       confirmation |-> i.outcome = "awaiting_confirmation"],
         row |-> [outcome |-> i.outcome, blocks |-> stored, citations |-> cited,
                  column |-> i.column, next_steps |-> IF i.column THEN RedactedAll(i.steps) ELSE <<>>,
                  final_answer |-> [n \in DOMAIN lines |-> [lines[n] EXCEPT !.text = Redacted(@)]]]]

-----------------------------------------------------------------------------
(* Two ways to the same context. *)
rendered_next_steps(response) ==
    LET said == {response.blocks[n].text : n \in DOMAIN response.blocks}
        bare == [n \in DOMAIN response.next_steps |-> without_employee_ids(response.next_steps[n])]
        new(n) == bare[n] \notin said /\ \A m \in 1..(n - 1) : bare[m] # bare[n]
    IN  IF response.outcome \in LABELLED_OUTCOMES THEN <<>>
        ELSE FlattenSeq([n \in DOMAIN bare |-> IF new(n) THEN <<bare[n]>> ELSE <<>>])

_turn_context(response, decision) ==
    [outcome |-> response.outcome, labelled |-> response.outcome \in LABELLED_OUTCOMES, blocks |-> response.blocks,
     next_steps |-> rendered_next_steps(response), quick_replies |-> response.quick_replies,
     citations_by_id |-> response.citations, sections_read |-> Cardinality(response.citations),
     decision_line |-> decision, confirm_fields |-> response.confirmation]

_replayed_next_steps(row) == IF row.column THEN row.next_steps ELSE parse_next_steps(row.final_answer)
_replayed_clarify_slot(row) == clarify_slot_of(Head(row.blocks).text)

\* _rehydrate of one row: no card and no decision, and a question about identity is
\* taken for one that was put to a session with no record.
_rehydrate_row(row) ==
    LET slot == _replayed_clarify_slot(row)
    IN  _turn_context([outcome |-> row.outcome, blocks |-> row.blocks, next_steps |-> _replayed_next_steps(row),
                       citations |-> row.citations, confirmation |-> FALSE,
                       quick_replies |-> IF row.outcome = "clarify" THEN clarify_chips(slot, slot # "identity") ELSE {}],
                      FALSE)

_render_turn(response) == _turn_context(response, FALSE)

(***************************************************************************)
(* A page loaded again shows the turn it showed, save the card: the same   *)
(* blocks with their sources, the same steps, the same quick replies and   *)
(* the same counts, from rows of either schema; only what holds a secret   *)
(* reads otherwise, and no replay shows one. On both, every source a block *)
(* names can be opened, and no step repeats a block or another step        *)
(* (TURN_CONTEXT_KEYS, _rehydrate, Orchestrator._served).                  *)
(***************************************************************************)
ReloadShowsTheTurn(i) ==
    LET end == _finish(i)
        live == _render_turn(end.response)
        again == _rehydrate_row(end.row)
        texts(context) == {context.blocks[n].text : n \in DOMAIN context.blocks} \cup ToSet(context.next_steps)
        secret == \E t \in texts(live) \cup ToSet(i.steps) : Secret(t)
        ownSection == ~i.column /\ i.steps = <<>> /\ \E n \in DOMAIN live.blocks : live.blocks[n].text = "steps"
    IN  /\ (~secret /\ ~ownSection) => again = [live EXCEPT !.confirm_fields = FALSE]
        /\ \A t \in texts(again) : ~Secret(t)
        /\ [again EXCEPT !.next_steps = <<>>] =
              [live EXCEPT !.confirm_fields = FALSE, !.next_steps = <<>>,
                           !.blocks = [n \in DOMAIN live.blocks |-> [live.blocks[n] EXCEPT !.text = Redacted(@)]]]
        /\ ~ownSection => ToSet(again.next_steps) \subseteq {Redacted(t) : t \in ToSet(live.next_steps)}
        /\ (~i.has_record /\ i.slots # <<>>) => again.quick_replies \cap NEEDS_A_RECORD = {}
        /\ \A context \in {live, again} :
              /\ \A n \in DOMAIN context.blocks :
                    /\ context.blocks[n].cites \subseteq context.citations_by_id \cap {"known"}
                    /\ context.blocks[n].type = "policy_fact" => context.blocks[n].cites # {}
              /\ IsInjective(context.next_steps)
              /\ \A n \in DOMAIN context.blocks : context.blocks[n].text \notin ToSet(context.next_steps)
        /\ i.blocks # <<>> => Len(live.blocks) > 0

-----------------------------------------------------------------------------
(* Whose session a page may replay, and which of its turns.                *)
VisitInputs == [requested : {"absent", "malformed", "unknown", "known"}, owner : {"e1", "e2"}, actor : {"e1", "e2"},
                is_admin : BOOLEAN, ended : SeqOf(BOOLEAN, 3)]

_owns(i) == i.requested = "known" /\ (i.is_admin \/ i.owner = i.actor)
chat_page(i) ==
    [transcript |-> IF _owns(i) THEN Filter([n \in DOMAIN i.ended |-> n], LAMBDA n : i.ended[n]) ELSE <<>>,
     session |-> _owns(i), notice |-> i.requested # "absent" /\ ~_owns(i)]

-----------------------------------------------------------------------------
(* What the pages count, from the spans of a turn: the verdicts of a       *)
(* guardrail, the requirements the rules engine scored.                    *)
Verdict(rule, verdict) == [kind |-> "guardrail", rule |-> rule, verdict |-> verdict, rows |-> {}]
Scored(rows) == [kind |-> "tool_call", rule |-> "none", verdict |-> "none", rows |-> rows]
SpanInputs == SeqOf({Verdict(r, v) : r \in {"G1", "G2"}, v \in {"allow", "strip"}}
                    \cup {Scored(rows) : rows \in {{<<"r1", "met">>}, {<<"r1", "unmet">>}, {<<"r1", "not_stated">>, <<"r2", "met">>}}}, 4)
SAFETY_RULES == 6

guardrail_verdicts(spans) ==
    LET verdicts == Filter(spans, LAMBDA s : s.kind = "guardrail")
    IN  [runs |-> Len(verdicts), blocked |-> Len(Filter(verdicts, LAMBDA s : s.verdict # "allow"))]

safety_checks(spans) ==
    LET verdicts == {s \in ToSet(spans) : s.kind = "guardrail"}
        ran == {s.rule : s \in verdicts}
        blocked == {s.rule : s \in {s \in verdicts : s.verdict # "allow"}}
    IN  [passed |-> Cardinality(ran) - Cardinality(blocked), ran |-> Cardinality(ran)]

\* The last status of each requirement; one that is not stated was not run.
policy_rules(spans) ==
    LET upTo[n \in 0..Len(spans)] ==
            IF n = 0 THEN [id \in {"r1", "r2"} |-> "absent"]
            ELSE [id \in {"r1", "r2"} |->
                     IF \E r \in spans[n].rows : r[1] = id THEN (CHOOSE r \in spans[n].rows : r[1] = id)[2] ELSE upTo[n - 1][id]]
        of(statuses) == Cardinality({id \in {"r1", "r2"} : upTo[Len(spans)][id] \in statuses})
    IN  [passed |-> of({"met"}), ran |-> of({"met", "unmet"})]

(***************************************************************************)
(* A conversation is shown to its owner or an administrator, its finished  *)
(* turns in order (chat_page, _rehydrate).                                 *)
(***************************************************************************)
OnlyOnesOwn(i) ==
    LET out == chat_page(i)
    IN  /\ (out.transcript # <<>> \/ out.session) => i.requested = "known" /\ (i.is_admin \/ i.owner = i.actor)
        /\ ~(out.session /\ out.notice)
        /\ \A n, m \in DOMAIN out.transcript : n < m => out.transcript[n] < out.transcript[m]
        /\ out.session => ToSet(out.transcript) = {n \in DOMAIN i.ended : i.ended[n]}

(***************************************************************************)
(* The two units a turn's checks are counted in never contradict each      *)
(* other, a rule that runs twice is one check, and a request that is       *)
(* scored again counts each requirement once, as it was scored last        *)
(* (safety_checks, guardrail_verdicts, policy_rules).                      *)
(***************************************************************************)
PagesCountAlike(spans) ==
    LET checks == safety_checks(spans)
        verdicts == guardrail_verdicts(spans)
        rules == policy_rules(spans)
        lastScored == {n \in DOMAIN spans : spans[n].kind = "tool_call" /\ \A m \in (n + 1)..Len(spans) : spans[m].kind # "tool_call"}
    IN  /\ checks.ran <= SAFETY_RULES /\ checks.ran <= verdicts.runs
        /\ 0 <= checks.passed /\ (verdicts.blocked = 0 <=> checks.passed = checks.ran)
        /\ checks.ran - checks.passed <= verdicts.blocked
        /\ rules.passed <= rules.ran
        /\ \A n \in lastScored : <<"r1", "met">> \in spans[n].rows => rules.passed >= 1
        /\ \A n \in lastScored : <<"r1", "unmet">> \in spans[n].rows => rules.passed < rules.ran
        /\ policy_rules(spans \o spans) = rules /\ safety_checks(spans \o spans) = checks
=============================================================================
