--------------------------------- MODULE Rules ---------------------------------
(***************************************************************************)
(* The policy engine of check_policy_compliance: a scenario's requirements *)
(* are evaluated in file order, a requirement's guard reading the ones     *)
(* decided before it, then settled and summed up into a verdict; the dates *)
(* behind them walk a calendar of weekends and observed holidays; and the  *)
(* approvals the verdict asks for are put on named people.                 *)
(*                                                                         *)
(* A fact is abstracted to how its comparison would come out: "absent",    *)
(* "passes" or "fails".  Days are numbered; day 0 is a Monday.             *)
(***************************************************************************)
EXTENDS Integers, Sequences, FiniteSets, SequencesExt, FiniteSetsExt

CONSTANTS
    Requirements,    \* bound: how many requirements a scenario has
    LastRulesDay,    \* bound: the days of the calendar
    People           \* the employees of the approver chain

ASSUME RulesConstants == Requirements \in Nat \ {0} /\ LastRulesDay \in Nat

CONSTANT Nobody
ASSUME NobodyIsNobody == Nobody \notin People

MAX_DEPTH == 6

-----------------------------------------------------------------------------
(* The grammar of rules.yml.  applies_when reads a parameter or the record *)
(* ("holds", "fails"), or the status of another requirement of the file.   *)
Operators == {"compare", "snapshot", "manual", "informational"}
Values == {"absent", "passes", "fails"}

Guards(n) == {<<"always">>, <<"parameter", TRUE>>, <<"parameter", FALSE>>}
                \cup ({"met", "unmet"} \X (1..Requirements \ {n}))

RequirementsAt(n) ==
    [operator : Operators, blocking : BOOLEAN, value : Values,
     applies_when : {g \in Guards(n) : n > 1 \/ g[1] \in {"always", "parameter"}}]

\* The scenarios: one requirement after the other, with the evidence in the corpus or not.
Scenarios == {s \in [1..Requirements -> UNION {RequirementsAt(n) : n \in 1..Requirements}] :
                 \A n \in 1..Requirements : s[n] \in RequirementsAt(n)}

\* submitted_on < as_of: what the record snapshot says is not of the day asked about.
RuleInputs == [scenario : Scenarios, early : BOOLEAN]

-----------------------------------------------------------------------------
\* Faulty: unmet: is read as "not met", as it was before G5c.
GuardOnMet(guard, decided) ==
    CASE guard[1] = "always" -> TRUE
      [] guard[1] = "parameter" -> guard[2]
      [] guard[1] = "met" -> guard[2] \in DOMAIN decided /\ decided[guard[2]].status = "met"
      [] guard[1] = "unmet" -> guard[2] \in DOMAIN decided /\ decided[guard[2]].status # "met"

\* A requirement that is not decided, not applied or later in the file, is neither.
guard_holds(guard, decided) ==
    CASE guard[1] = "always" -> TRUE
      [] guard[1] = "parameter" -> guard[2]
      [] guard[1] \in {"met", "unmet"} ->
            guard[2] \in DOMAIN decided /\ decided[guard[2]].status = guard[1]

Decision(status, evaluable, blocking, backed) ==
    [status |-> status, evaluable |-> evaluable, blocking |-> blocking, data_backed |-> backed]

\* A standing rule is met; what nobody can verify is stated as such and never blocks;
\* a comparison needs its subject, and a snapshot's subject needs the snapshot's day.
_evaluate_requirement(r, early) ==
    CASE r.operator = "informational" -> Decision("met", TRUE, r.blocking, TRUE)
      [] r.operator = "manual" -> Decision("not_stated", TRUE, FALSE, FALSE)
      [] r.operator = "snapshot" /\ early -> Decision("not_stated", FALSE, r.blocking, TRUE)
      [] r.operator \in {"compare", "snapshot"} /\ ~(r.operator = "snapshot" /\ early) ->
            CASE r.value = "absent" -> Decision("not_stated", FALSE, r.blocking, TRUE)
              [] r.value = "passes" -> Decision("met", TRUE, r.blocking, TRUE)
              [] r.value = "fails" -> Decision("unmet", TRUE, r.blocking, TRUE)

\* One turn of the loop of evaluate(): the n-th requirement, after those decided before it.
Decide(input, n, before) ==
    LET r == input.scenario[n]
    IN  IF guard_holds(r.applies_when, before)
        THEN [k \in (DOMAIN before) \cup {n} |->
                 IF k = n THEN _evaluate_requirement(r, input.early) ELSE before[k]]
        ELSE before

\* What has been decided after all of them.
DecidedUpTo(input) ==
    LET upTo[n \in 0..Requirements] ==
            IF n = 0 THEN <<>> ELSE Decide(input, n, upTo[n - 1])
    IN upTo[Requirements]

\* A manual row counts only beside one that data was compared for.
_settle_manual(decided) ==
    LET grounded == \E n \in DOMAIN decided : decided[n].data_backed /\ decided[n].evaluable
    IN  [n \in DOMAIN decided |->
            IF decided[n].data_backed \/ grounded THEN decided[n]
            ELSE [decided[n] EXCEPT !.evaluable = FALSE]]

Met(d) == d.status = "met"

_verdict(decisions) ==
    LET of == {decisions[n] : n \in DOMAIN decisions} IN
    IF \A d \in of : ~d.evaluable THEN "insufficient_evidence"
    ELSE IF \E d \in of : d.blocking /\ d.evaluable /\ ~Met(d) THEN "non_compliant"
    ELSE IF \E d \in of : ~Met(d) THEN "conditional"
    ELSE "compliant"

\* The approvals and the next steps are guarded alike, by the statuses before settling;
\* one of each is attached to every requirement here, under either form of guard.
Attached(form, decided) == {n \in DOMAIN decided : guard_holds(<<form, n>>, decided)}

evaluate(input) ==
    LET decided == DecidedUpTo(input)
        decisions == _settle_manual(decided)
    IN  [verdict |-> _verdict(decisions), requirements |-> decisions,
         unmet |-> {n \in DOMAIN decisions : decisions[n].status = "unmet"},
         approvals_required |-> Attached("unmet", decided)]

-----------------------------------------------------------------------------
(* The calendar.                                                           *)
IsWorkingDay(d, holidays) == d % 7 < 5 /\ d \notin holidays

business_days_between(start, end, holidays) ==
    Cardinality({d \in (start + 1)..(end - 1) : IsWorkingDay(d, holidays)})

business_days_inclusive(start, end, holidays) ==
    Cardinality({d \in start..end : IsWorkingDay(d, holidays)})

\* Context.span_end without an end_date: the cursor walks on, a working day takes one
\* of the remaining days, and the walk stops where none is left.  The calendar and a
\* week more bound it.
LastStop(start) == start + LastRulesDay + 7

Remaining(start, days, holidays) ==
    LET after[d \in (start - 1)..LastStop(start)] ==
            IF d = start - 1 THEN (IF days < 1 THEN 1 ELSE days)
            ELSE IF IsWorkingDay(d, holidays) THEN after[d - 1] - 1 ELSE after[d - 1]
    IN after

span_end(start, days, holidays) ==
    Min({d \in start..LastStop(start) : Remaining(start, days, holidays)[d] <= 0})

\* derive_parameters: the dates imply the days, unless the caller gave them; an end
\* before its start is an argument error.
NotGiven == -1
derive_parameters(p, holidays) ==
    IF p.end # NotGiven /\ p.end < p.start THEN [error |-> TRUE]
    ELSE [error |-> FALSE,
          end |-> IF p.end # NotGiven THEN p.end
                  ELSE span_end(p.start, IF p.days = NotGiven THEN 1 ELSE p.days, holidays),
          days |-> IF p.days # NotGiven \/ p.end = NotGiven THEN p.days
                   ELSE business_days_inclusive(p.start, p.end, holidays)]

overlaps_blackout(start, end, blackout) == \E d \in start..end : d \in blackout

DateInputs ==
    [start : 0..LastRulesDay, end : {NotGiven} \cup 0..LastRulesDay,
     days : {NotGiven} \cup 0..3, holiday : 0..LastRulesDay]

-----------------------------------------------------------------------------
(* approvers.py: the chain of managers above the actor, and who on it      *)
(* holds the role an approval names.                                       *)
\* One turn of its loop: the next above, unless there is none or they were seen.
Climb(actor, walk, managers) ==
    LET above == managers[IF walk = <<>> THEN actor ELSE Last(walk)]
    IN  IF above \in {Nobody, actor} \cup ToSet(walk) THEN walk ELSE Append(walk, above)

chain(actor, managers) ==
    LET Walk[n \in 0..MAX_DEPTH] ==
            IF n = 0 THEN <<>> ELSE Climb(actor, Walk[n - 1], managers)
    IN Walk[MAX_DEPTH]

Kinds_ == {"manager", "director", "vp"}
Route(person, routed) == [person |-> person, routed |-> routed]

resolve(kind, actor, title, managers) ==
    LET above == chain(actor, managers)
        next == IF above = <<>> THEN Nobody ELSE Head(above)
        holders == {n \in DOMAIN above : title[above[n]] = kind}
    IN  IF kind # "manager" /\ title[actor] = kind THEN Route(next, TRUE)
        ELSE IF kind = "manager" THEN Route(next, FALSE)
        ELSE Route(IF holders = {} THEN Nobody ELSE above[Min(holders)], FALSE)

ApproverInputs ==
    [kind : Kinds_, title : [People -> {"staff", "director", "vp"}],
     managers : {m \in [People -> People \cup {Nobody}] : \A p \in People : m[p] # p}]

-----------------------------------------------------------------------------
(***************************************************************************)
(* A verdict is earned.  Compliant: every requirement that applies was     *)
(* met, and one of them at least was checked.  Non-compliant: a blocking   *)
(* requirement was compared with data and failed, never one whose data was *)
(* absent, stale or unverifiable.  An approval hangs on a requirement that *)
(* is in unmet, and unmet holds nothing that was not compared (evaluate,   *)
(* guard_holds, _settle_manual, _verdict).                                 *)
(***************************************************************************)
VerdictIsEarned(input) ==
    LET body == evaluate(input)
        compared(n) == /\ input.scenario[n].operator \in {"compare", "snapshot"}
                       /\ input.scenario[n].value # "absent"
                       /\ ~(input.scenario[n].operator = "snapshot" /\ input.early)
        failed(n) == compared(n) /\ input.scenario[n].value = "fails"
        applied == DOMAIN body.requirements
    IN  /\ body.verdict = "compliant" =>
              /\ applied # {}
              /\ \A n \in applied : input.scenario[n].operator = "informational" \/ (compared(n) /\ ~failed(n))
        /\ body.verdict = "non_compliant" <=> \E n \in applied : failed(n) /\ input.scenario[n].blocking
        /\ body.approvals_required = body.unmet
        /\ body.unmet = {n \in applied : failed(n)}
        /\ (\A n \in applied : input.scenario[n].operator = "manual" \/ (input.scenario[n].operator # "informational" /\ ~compared(n)))
              <=> body.verdict = "insufficient_evidence"

(***************************************************************************)
(* Days and dates say the same thing: a span given in working days ends on *)
(* the day that makes it exactly that long, a span given by its two dates  *)
(* comes to days that end no later than it does, and notice never counts   *)
(* the two days it lies between (span_end, derive_parameters).             *)
(***************************************************************************)
SpansAgree(p) ==
    LET holidays == {p.holiday}
        derived == derive_parameters(p, holidays)
    IN  ~derived.error =>
          /\ p.end = NotGiven =>
                business_days_inclusive(p.start, derived.end, holidays) = (IF p.days < 1 THEN 1 ELSE p.days)
          /\ (p.end # NotGiven /\ p.days = NotGiven /\ derived.days > 0) =>
                span_end(p.start, derived.days, holidays) <= p.end
          /\ (p.end # NotGiven /\ p.end > p.start) =>
                business_days_between(p.start, p.end, holidays) <=
                    business_days_inclusive(p.start, p.end, holidays)

(***************************************************************************)
(* Nobody approves their own request, whatever the manager map holds, a    *)
(* cycle included; and where it has none, nobody approves a request from a *)
(* person who approves theirs (SELF_APPROVAL_SENTENCE, approvers.resolve). *)
(***************************************************************************)
NobodyApprovesThemselves(i) ==
    LET approver(p) == resolve(i.kind, p, i.title, i.managers).person
        cyclic == \E p \in People : Nobody \notin ({i.managers[q] : q \in {p} \cup ToSet(chain(p, i.managers))})
    IN  /\ \A p \in People : approver(p) # p
        /\ ~cyclic => \A p, q \in People : approver(p) = q => approver(q) # p
=============================================================================
