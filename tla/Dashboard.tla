-------------------------------- MODULE Dashboard --------------------------------
(***************************************************************************)
(* The operator's pages over the store (web/dashboard.py, narration.py):   *)
(* lists that are filtered, paged and exported, the counts beside them,    *)
(* the figures of a run of the evaluation and the comparison of its arms.  *)
(* A list of the store is a sequence, newest first.                        *)
(***************************************************************************)
EXTENDS Integers, Sequences, FiniteSets, SequencesExt, FiniteSetsExt

\* Bounds: 50 rows to a page and 200 of an unpaged list, in the code.
PAGE_SIZE == 1
ROW_LIMIT == 2

None == "none"
NoNumber == -1
Sum(s) == FoldSeq(LAMBDA x, y : x + y, 0, s)
Newest(rows, n) == SubSeq(rows, 1, Min({n, Len(rows)}))

-----------------------------------------------------------------------------
(* Pages 2 and 4. A query is what the address bar holds: a text, a flag or *)
(* a number, "" when the parameter is not there.                           *)
Digits == [n \in 0..3 |-> <<"0", "1", "2", "3">>[n + 1]]
number(text) == IF \E n \in DOMAIN Digits : Digits[n] = text THEN CHOOSE n \in DOMAIN Digits : Digits[n] = text ELSE NoNumber

from_request(query) ==
    [client_label |-> IF query.client_label \in {"", "blank"} THEN None ELSE query.client_label,
     outcome |-> IF query.outcome \in {"", "blank"} THEN None ELSE query.outcome,
     has_error |-> query.has_error \in {"true", "on"},
     min_duration_ms |-> number(query.min_duration_ms),
     page |-> Max({1, number(query.page)})]

\* A false flag, an absent text and the number 0 are left out alike.
query_string(filters, page) ==
    [client_label |-> IF filters.client_label = None THEN "" ELSE filters.client_label,
     outcome |-> IF filters.outcome = None THEN "" ELSE filters.outcome,
     has_error |-> IF filters.has_error THEN "true" ELSE "",
     min_duration_ms |-> IF filters.min_duration_ms \in {NoNumber, 0} THEN "" ELSE Digits[filters.min_duration_ms],
     page |-> IF page = 1 THEN "" ELSE Digits[page]]

\* A turn: its session, its outcome (None while it is open) and its duration (then NoNumber).
Turn(session, outcome, ms) == [session |-> session, outcome |-> outcome, ms |-> ms]
Kinds == {<<None, NoNumber>>, <<"answered", 1>>, <<"answered", 2>>, <<"error", 2>>}
ClientOf == [s \in 1..3 |-> IF s = 2 THEN "web" ELSE "eval"]

\* The third session has no turn yet.
Lists == {<<Turn(1, k1[1], k1[2]), Turn(2, k2[1], k2[2]), Turn(1, k3[1], k3[2])>> : k1 \in Kinds, k2 \in Kinds, k3 \in Kinds}
Queries == [client_label : {"", "blank", "web"}, outcome : {"", "error"}, has_error : {"", "on", "no"},
            min_duration_ms : {"", "0", "2", "x"}, page : {"", "2"}]
ListInputs == [turns : Lists, query : Queries]

TurnsOf(session, turns) == SelectSeq(turns, LAMBDA t : t.session = session)
total_ms(session, turns) == LET ended == SelectSeq(TurnsOf(session, turns), LAMBDA t : t.ms # NoNumber)
                            IN Sum([n \in DOMAIN ended |-> ended[n].ms])
has_error(session, turns) == \E t \in ToSet(TurnsOf(session, turns)) : t.outcome = "error"

_session_filters(session, turns, filters) ==
    /\ filters.client_label \in {None, ClientOf[session]}
    /\ filters.outcome # None => \E t \in ToSet(TurnsOf(session, turns)) : t.outcome = filters.outcome
    /\ filters.has_error => has_error(session, turns)
    /\ total_ms(session, turns) >= filters.min_duration_ms

\* A turn that has no duration fails every comparison with it.
_turn_filters(turn, filters) ==
    /\ filters.client_label \in {None, ClientOf[turn.session]}
    /\ filters.outcome \in {None, turn.outcome}
    /\ filters.has_error => turn.outcome = "error"
    /\ filters.min_duration_ms # NoNumber => turn.ms # NoNumber /\ turn.ms >= filters.min_duration_ms

PageOf(rows, page) ==
    [rows |-> SubSeq(rows, (page - 1) * PAGE_SIZE + 1, Min({page * PAGE_SIZE, Len(rows)})), page |-> page, total |-> Len(rows)]
build_sessions(turns, filters) == PageOf(SelectSeq(<<3, 2, 1>>, LAMBDA s : _session_filters(s, turns, filters)), filters.page)
build_turns(turns, filters) == PageOf(SelectSeq(turns, LAMBDA t : _turn_filters(t, filters)), filters.page)
Pages(view) == Max({1, (view.total + PAGE_SIZE - 1) \div PAGE_SIZE})

build_overview(turns) ==
    [sessions_total |-> 3, turns |-> Len(turns),
     error_turns |-> Len(SelectSeq(turns, LAMBDA t : t.outcome = "error")),
     answered_turns |-> Len(SelectSeq(turns, LAMBDA t : t.outcome = "answered")),
     duration_n |-> Len(SelectSeq(turns, LAMBDA t : t.ms # NoNumber))]

NoFilter == from_request(query_string([client_label |-> None, outcome |-> None, has_error |-> FALSE,
                                       min_duration_ms |-> NoNumber], 1))
SessionsWalked(turns, filters) ==
    FlattenSeq([p \in 1..Pages(build_sessions(turns, filters)) |-> build_sessions(turns, from_request(query_string(filters, p))).rows])
TurnsWalked(turns, filters) ==
    FlattenSeq([p \in 1..Pages(build_turns(turns, filters)) |-> build_turns(turns, from_request(query_string(filters, p))).rows])

\* The pager walks the filtered list once, whatever page it starts from; the export is
\* the page that offers it; and two pages that count one thing count it alike. A minimum
\* of 0 ms is the exception: on the turns page it hides the open turns, and it does not
\* survive in a link.
ListsAreTheStore(i) ==
    LET filters == from_request(i.query)
        sessions == SelectSeq(<<3, 2, 1>>, LAMBDA s : _session_filters(s, i.turns, filters))
        errors == [NoFilter EXCEPT !.client_label = filters.client_label, !.has_error = TRUE]
        kpis == build_overview(i.turns)
    IN /\ SessionsWalked(i.turns, filters) = sessions
       /\ build_sessions(i.turns, from_request(query_string(filters, filters.page))) = build_sessions(i.turns, filters)
       /\ filters.min_duration_ms # 0 =>
             /\ TurnsWalked(i.turns, filters) = SelectSeq(i.turns, LAMBDA t : _turn_filters(t, filters))
             /\ build_turns(i.turns, from_request(query_string(filters, filters.page))) = build_turns(i.turns, filters)
       /\ build_sessions(i.turns, errors).total
             = Cardinality({t.session : t \in {t \in ToSet(i.turns) : _turn_filters(t, errors)}})
       /\ kpis.error_turns = build_turns(i.turns, [NoFilter EXCEPT !.has_error = TRUE]).total
       /\ kpis.error_turns + kpis.answered_turns = kpis.duration_n
       /\ kpis.turns = build_turns(i.turns, NoFilter).total /\ kpis.sessions_total = build_sessions(i.turns, NoFilter).total

-----------------------------------------------------------------------------
(* Pages 5 and 7: model calls and tool calls. A call that fails may have   *)
(* no error code; one stopped at the confirmation gate has that code.      *)
CONFIRMATION_REQUIRED == "CONFIRMATION_REQUIRED"
Call(tool, is_error, code, ms) == [tool |-> tool, is_error |-> is_error, code |-> code, ms |-> ms]
CallsOf(tool) == {Call(tool, FALSE, None, 1), Call(tool, FALSE, None, NoNumber), Call(tool, TRUE, CONFIRMATION_REQUIRED, 1),
                  Call(tool, TRUE, "FAILED", 1), Call(tool, TRUE, None, NoNumber)}
Tools_ == {"search", "ticket"}
CallInputs == [calls : [1..3 -> UNION {CallsOf(t) : t \in Tools_}], tool : {None, "search"}, errors_only : BOOLEAN]

IsPause(call) == call.code = CONFIRMATION_REQUIRED
IsFailure(call) == call.is_error /\ ~IsPause(call)
CallsListed(i) ==
    SelectSeq(i.calls, LAMBDA c : i.tool \in {None, c.tool} /\ (i.errors_only => IsFailure(c)))
Of(tool, calls) == SelectSeq(calls, LAMBDA c : c.tool = tool)

outcome_label(call) == IF IsPause(call) THEN "paused" ELSE IF call.is_error THEN "error" ELSE "ok"
ToolRollup(tool, calls) ==
    [calls |-> Len(Of(tool, calls)), errors |-> Len(SelectSeq(Of(tool, calls), IsFailure)),
     pauses |-> Len(SelectSeq(Of(tool, calls), IsPause)),
     sample |-> SelectSeq(Newest(Of(tool, calls), ROW_LIMIT), LAMBDA c : c.ms # NoNumber)]
build_tools(i) ==
    [by_tool |-> [t \in {c.tool : c \in ToSet(CallsListed(i))} |-> ToolRollup(t, CallsListed(i))],
     recent |-> [n \in DOMAIN Newest(CallsListed(i), ROW_LIMIT) |-> outcome_label(CallsListed(i)[n])]]

\* The colour of the call's line on the activity rail.
tone_for(call) == IF IsPause(call) THEN "pending" ELSE IF call.is_error THEN "error" ELSE "ok"

ModelInputs == [calls : [1..3 -> [model : {"small", "large", None}, failover : BOOLEAN]], model : {None, "small"}, failover : BOOLEAN]
ModelCallsListed(i) ==
    SelectSeq(i.calls, LAMBDA c : (i.model # None => c.model = i.model) /\ (i.failover => c.failover))
build_llm(i) ==
    [rows |-> Newest(ModelCallsListed(i), ROW_LIMIT),
     by_model |-> [m \in {c.model : c \in ToSet(ModelCallsListed(i))} |-> Len(SelectSeq(ModelCallsListed(i), LAMBDA c : c.model = m))]]

\* Every call that is listed is in its model's count, and the counts are of more than is
\* listed only once the list is full; a filter only takes away.
ModelCallsAreCounted(i) ==
    LET view == build_llm(i)
        whole == build_llm([i EXCEPT !.model = None, !.failover = FALSE])
        total == Sum([n \in 1..Cardinality(DOMAIN view.by_model) |-> view.by_model[SetToSeq(DOMAIN view.by_model)[n]]])
    IN /\ \A m \in DOMAIN view.by_model :
            /\ view.by_model[m] >= Len(SelectSeq(view.rows, LAMBDA c : c.model = m))
            /\ view.by_model[m] <= whole.by_model[m]
       /\ Len(view.rows) = Min({ROW_LIMIT, total})

\* The rollup counts every call the list is of, and the list shows the newest; a wait
\* for the reader is no error on the page, on the rail or under "errors only"; and a tool
\* that is called seldom keeps its sample whatever the others do.
CallsAreCounted(i) ==
    LET view == build_tools(i)
        whole == build_tools([i EXCEPT !.errors_only = FALSE])
        listed == CallsListed(i)
    IN /\ \A t \in DOMAIN view.by_tool :
            /\ view.by_tool[t].errors = whole.by_tool[t].errors
            /\ view.by_tool[t].errors + view.by_tool[t].pauses <= view.by_tool[t].calls
            /\ i.errors_only => view.by_tool[t].pauses = 0 /\ view.by_tool[t].calls = view.by_tool[t].errors
            /\ Of(t, listed)[1].ms # NoNumber => view.by_tool[t].sample # <<>>
       /\ \A t \in DOMAIN whole.by_tool : whole.by_tool[t].errors > 0 <=> t \in DOMAIN build_tools([i EXCEPT !.errors_only = TRUE]).by_tool
       /\ Len(view.recent) = Min({ROW_LIMIT, Len(listed)})
       /\ \A n \in DOMAIN view.recent :
            /\ view.recent[n] = "paused" <=> tone_for(listed[n]) = "pending"
            /\ view.recent[n] = "error" <=> tone_for(listed[n]) = "error"

-----------------------------------------------------------------------------
(* Page 11: a run of the evaluation. A row is the result of one item: its  *)
(* category, whether it is a scored row or a cold probe's, whether it      *)
(* passed, its score for safety and whether an action was at stake. A run's*)
(* file may or may not carry the runner's own denominator for safety.      *)
Row(category, phase, passed, safety, at_stake) ==
    [category |-> category, phase |-> phase, cold |-> phase = "cold", passed |-> passed, safety |-> safety, at_stake |-> at_stake]
Rows == {Row("facts", "scored", p, NoNumber, FALSE) : p \in BOOLEAN}
    \cup {Row("facts", "scored", TRUE, 1, FALSE), Row("writes", "scored", TRUE, 1, TRUE), Row("writes", "scored", FALSE, 0, TRUE)}
    \cup {Row("unsafe_action", "scored", p, NoNumber, FALSE) : p \in BOOLEAN}
    \cup {Row("facts", "cold", p, 1, TRUE) : p \in BOOLEAN}
RunInputs == [rows : [1..3 -> Rows], runner_n : {NoNumber, 2}, category : {None, "unsafe_action"},
              cold_only : BOOLEAN, failures_first : BOOLEAN]

ItemsShown(i) == SelectSeq(i.rows, LAMBDA r : i.category \in {None, r.category} /\ (i.cold_only => r.cold))
Scored(rows) == SelectSeq(rows, LAMBDA r : r.phase = "scored")
Passed(rows) == SelectSeq(rows, LAMBDA r : r.passed)
AtStake(rows) == SelectSeq(Scored(rows), LAMBDA r : r.at_stake \/ r.category = "unsafe_action")

\* The runner's figure where it has one; else over the items shown, a score that is
\* missing being 0; else, where no action was at stake, what the items report.
action_safety(i) ==
    LET stake == AtStake(ItemsShown(i))
    IN IF i.runner_n # NoNumber THEN [n |-> i.runner_n, passes |-> NoNumber]
       ELSE IF stake # <<>>
       THEN [n |-> Len(stake), passes |-> Len(SelectSeq(stake, LAMBDA r : r.safety = 1))]
       ELSE [n |-> Len(SelectSeq(Scored(ItemsShown(i)), LAMBDA r : r.safety # NoNumber)), passes |-> NoNumber]

_verdict(rows) == [items_scored |-> Len(Scored(rows)), items_passed |-> Len(Passed(Scored(rows)))]
_latency_block(rows) ==
    [n_warm |-> Len(SelectSeq(Scored(rows), LAMBDA r : ~r.cold)), n_cold |-> Len(SelectSeq(rows, LAMBDA r : r.cold))]
build_eval_run_detail(i) ==
    [items |-> IF i.failures_first THEN SelectSeq(ItemsShown(i), LAMBDA r : ~r.passed) \o Passed(ItemsShown(i)) ELSE ItemsShown(i),
     safety |-> action_safety(i), verdict |-> _verdict(i.rows), latency |-> _latency_block(i.rows)]

\* The pass line and the latencies are the run's whatever the filter shows; no cold probe
\* is a scored item; a rate is over the items that had something at stake, the runner's
\* own count before the page's; and an unsafe item nobody scored did not pass.
RunPageIsTheRun(i) ==
    LET view == build_eval_run_detail(i)
        all == build_eval_run_detail([i EXCEPT !.category = None, !.cold_only = FALSE, !.failures_first = FALSE])
        unscored == SelectSeq(Scored(ItemsShown(i)), LAMBDA r : r.category = "unsafe_action" /\ r.safety = NoNumber)
    IN /\ view.verdict = all.verdict /\ view.latency = all.latency
       /\ view.verdict.items_scored + view.latency.n_cold = Len(i.rows)
       /\ view.verdict.items_passed <= view.verdict.items_scored
       /\ i.runner_n # NoNumber => view.safety = all.safety
       /\ view.safety.passes # NoNumber =>
             /\ view.safety.passes + Len(unscored) <= view.safety.n
             /\ view.safety.n <= Len(Scored(ItemsShown(i)))
       /\ i.cold_only /\ i.runner_n = NoNumber => view.safety.n = 0
       /\ \A m, n \in DOMAIN view.items : i.failures_first /\ m < n /\ view.items[m].passed => view.items[n].passed

-----------------------------------------------------------------------------
(* The ablation tab: of each variant the run that may best stand for it,   *)
(* and the items whose result differs from the baseline's.                 *)
DatasetSize == 2
EvalRun(variant, label, results) == [variant |-> variant, label |-> label, results |-> results]
RunsOf(variant) ==
    {EvalRun(variant, "full", r) : r \in [1..2 -> BOOLEAN]}
    \cup {EvalRun(variant, l, r) : l \in {"part", "dashboard smoke run"}, r \in [{1} -> BOOLEAN] \cup [{2} -> BOOLEAN]}
CompareInputs == {<<>>} \cup UNION {[1..n -> RunsOf("baseline") \cup RunsOf("dense_only_k2")] : n \in 1..2}
    \cup {<<r1, r2, r3>> : r1 \in RunsOf("baseline"), r2 \in RunsOf("dense_only_k2"), r3 \in RunsOf("baseline")}

_compare_rank(run) ==
    IF run.label = "dashboard smoke run" THEN 2 ELSE IF Cardinality(DOMAIN run.results) >= DatasetSize THEN 0 ELSE 1

\* Newest first: a later one takes the place only with a better rank.
Arms(runs) ==
    FoldLeft(LAMBDA arms, run : IF run.variant \in DOMAIN arms /\ _compare_rank(run) >= _compare_rank(arms[run.variant])
                                THEN arms ELSE [v \in DOMAIN arms \cup {run.variant} |-> IF v = run.variant THEN run ELSE arms[v]],
             <<>>, runs)
build_eval_compare(runs) ==
    LET arms == Arms(runs)
    IN [arms |-> arms,
        flips |-> IF "baseline" \notin DOMAIN arms THEN {}
                  ELSE {f \in (DOMAIN arms \ {"baseline"}) \X (1..DatasetSize) :
                          /\ f[2] \in DOMAIN arms[f[1]].results \cap DOMAIN arms["baseline"].results
                          /\ arms[f[1]].results[f[2]] # arms["baseline"].results[f[2]]}]

\* No run of the variant is of a better rank, none of the same rank is newer, no variant
\* that was run is dropped, and a flip is of an item both arms were asked.
ArmsAreTheBest(runs) ==
    LET view == build_eval_compare(runs)
    IN /\ DOMAIN view.arms = {runs[n].variant : n \in DOMAIN runs}
       /\ \A v \in DOMAIN view.arms : \E n \in DOMAIN runs :
            /\ runs[n] = view.arms[v]
            /\ \A m \in DOMAIN runs \ {n} : runs[m].variant = v =>
                  /\ _compare_rank(runs[m]) >= _compare_rank(runs[n])
                  /\ m < n => _compare_rank(runs[m]) > _compare_rank(runs[n])
       /\ \A f \in view.flips : {TRUE, FALSE} = {view.arms[f[1]].results[f[2]], view.arms["baseline"].results[f[2]]}
=============================================================================
