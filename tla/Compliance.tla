------------------------------- MODULE Compliance -------------------------------
(***************************************************************************)
(* The answer step that keeps an answer consistent with the verdict the    *)
(* policy engine returned in the same turn (agent/compliance.py).          *)
(*                                                                         *)
(* A sentence is abstracted to what the step's patterns see in it: the     *)
(* rows whose subject it names, whether it denies or asserts, whether it   *)
(* is about the reader's own request, the ceiling it quotes (0: none) and  *)
(* whether it hands the decision to the manager.                           *)
(***************************************************************************)
EXTENDS Filters

MIN_STEP_OVERLAP == 3

RowIds == 1..2
ClaimedAmount == 2    \* the amount of the request; 1 is below it, 3 above it

\* A row: amount says that its reason compares the request's amount.
Rows == [status : {"met", "unmet"}, amount : BOOLEAN, blocking : {FALSE}]
            \cup [status : {"not_stated"}, amount : {FALSE}, blocking : BOOLEAN]

Sentence(about, polarity, reader, ceiling, lower) ==
    [about |-> about, polarity |-> polarity, reader |-> reader, ceiling |-> ceiling, lower |-> lower]

Claims == {Sentence(about, polarity, reader, 0, FALSE) :
              about \in (SUBSET RowIds) \ {{}}, polarity \in {"denies", "asserts"}, reader \in BOOLEAN}
Amounts == {Sentence({}, "none", FALSE, ceiling, lower) : ceiling \in {0, 1, 3}, lower \in BOOLEAN}

\* What the step itself writes: a row's reason said to the reader, its "not verified"
\* line, and the engine's own rule for the amount.
ReaderSentence(n) == [said |-> "reader", row |-> n]
NotStatedLine(n) == [said |-> "line", row |-> n]
CoveringRule == [said |-> "covering", row |-> 0]
Written(s) == "said" \in DOMAIN s

\* A step of the answer against the engine's next steps: not one of them, or one that
\* shares so many content words with each row's text.
NotMandated == [n \in RowIds |-> -1]
BesideAClaim == Amounts \cup {Sentence({1}, "denies", FALSE, 0, FALSE), NotStatedLine(2)}
ClaimInputs ==
    {[rows |-> rows, text |-> <<s, t>>, covering |-> TRUE, overlap |-> NotMandated] :
        rows \in [RowIds -> Rows], s \in Claims, t \in BesideAClaim}
AmountInputs ==
    {[rows |-> rows, text |-> <<s, t>>, covering |-> covering, overlap |-> overlap] :
        rows \in [RowIds -> Rows], s \in Amounts, t \in {Sentence({}, "none", FALSE, 1, TRUE)},
        covering \in BOOLEAN, overlap \in [RowIds -> {2, 3, 4}]}
ComplianceInputs == ClaimInputs \cup AmountInputs

-----------------------------------------------------------------------------
\* How one sentence stands to one row's status.
relation(s, n, rows) ==
    IF Written(s) \/ n \notin s.about THEN "silent"
    ELSE CASE rows[n].status = "met" -> IF s.polarity = "denies" THEN "opposes" ELSE "agrees"
           [] rows[n].status = "unmet" -> IF s.polarity = "asserts" THEN "opposes" ELSE "agrees"
           [] rows[n].status = "not_stated" -> IF s.reader THEN "opposes" ELSE "unsure"

OpposedRows(s, rows) == {n \in RowIds : relation(s, n, rows) = "opposes"}

\* Exactly one row is contradicted: its reason replaces the sentence.  More than one:
\* nobody can say which was meant, and the sentence stays.
correct(text, rows) ==
    [i \in DOMAIN text |->
        LET opposed == OpposedRows(text[i], rows)
        IN  IF Cardinality(opposed) = 1 THEN ReaderSentence(CHOOSE n \in opposed : TRUE) ELSE text[i]]

Restated(before, after) == {i \in DOMAIN before : before[i] # after[i]}

stated_amount(rows) == IF \E n \in RowIds : rows[n].amount THEN {ClaimedAmount} ELSE {}

Outgrown(s, rows) ==
    ~Written(s) /\ s.ceiling > 0 /\ \E a \in stated_amount(rows) : s.ceiling < a

\* Each outgrown sentence makes way for the covering rule, or for nothing.
correct_ceilings(text, rows, covering) ==
    FlattenSeq([i \in DOMAIN text |->
        IF ~Outgrown(text[i], rows) THEN <<text[i]>>
        ELSE IF covering THEN <<CoveringRule>> ELSE <<>>])

FailingAmounts(rows) == {n \in RowIds : rows[n].status = "unmet" /\ rows[n].amount}

\* The decision handed to the manager, on an amount only somebody above can approve:
\* the routing is said once, in the place of the first such sentence.
correct_authority(text, rows, covering) ==
    LET hands == {i \in DOMAIN text : ~Written(text[i]) /\ text[i].lower}
        routing == IF covering THEN CoveringRule ELSE ReaderSentence(Max(FailingAmounts(rows)))
    IN  IF FailingAmounts(rows) = {} THEN text
        ELSE FlattenSeq([i \in DOMAIN text |->
                 IF i \notin hands THEN <<text[i]>> ELSE IF i = Min(hands) THEN <<routing>> ELSE <<>>])

\* The row a mandated step restates: the one that shares most words with it, enough of
\* them, and no other as many.
supporting_row(overlap) ==
    {n \in RowIds : overlap[n] >= MIN_STEP_OVERLAP /\ \A m \in RowIds \ {n} : overlap[m] < overlap[n]}

\* What a recommendation is retyped to, if anything.
retype(restated, overlap) ==
    IF overlap # NotMandated
    THEN IF supporting_row(overlap) # {} THEN <<"policy_fact", supporting_row(overlap)>> ELSE <<"record", {}>>
    ELSE IF restated # {} THEN <<"record", {}>> ELSE <<"recommendation", {}>>

\* One line for each row nobody checked, the blocking ones first.
not_stated_lines(rows) ==
    LET of(blocking) == Filter(<<1, 2>>, LAMBDA n : rows[n].status = "not_stated" /\ rows[n].blocking = blocking)
    IN  [i \in DOMAIN (of(TRUE) \o of(FALSE)) |-> NotStatedLine((of(TRUE) \o of(FALSE))[i])]

\* The answer is one recommendation block and one next step of the same text.
apply(input) ==
    LET corrected == correct(input.text, input.rows)
        block == correct_authority(correct_ceilings(corrected, input.rows, input.covering), input.rows, input.covering)
        steps == correct_ceilings(corrected, input.rows, input.covering)
        typed == retype(Restated(input.text, corrected), input.overlap)
        said == Filter(not_stated_lines(input.rows), LAMBDA line : line \notin ToSet(block))
    IN  [block |-> block, type |-> typed[1], citations |-> typed[2],
         steps |-> steps, unchecked |-> said]

-----------------------------------------------------------------------------
(***************************************************************************)
(* After the step an answer contradicts its own verdict nowhere it can be  *)
(* told which row was meant, quotes no ceiling the request has outgrown,   *)
(* hands no failing amount to the manager, and says of every row nobody    *)
(* checked that nobody did; every sentence that was not wrong stays; and a *)
(* mandated step is never filed as advice, nor under the citation of a row *)
(* another one supports as well (compliance.apply).                        *)
(***************************************************************************)
AnswerKeepsTheVerdict(input) ==
    LET out == apply(input)
        rows == input.rows
        all == ToSet(out.block) \cup ToSet(out.steps)
        said == ToSet(out.block) \cup ToSet(out.unchecked)
        wrong(s) == Cardinality(OpposedRows(s, rows)) = 1
        hands(s) == ~Written(s) /\ s.lower /\ FailingAmounts(rows) # {}
        sound(s) == ~wrong(s) /\ ~Outgrown(s, rows) /\ ~hands(s)
        routed == {i \in DOMAIN out.block : out.block[i] = CoveringRule}
    IN  /\ \A s \in all : ~wrong(s) /\ ~Outgrown(s, rows)
        /\ \A s \in ToSet(out.block) : ~hands(s)
        /\ Filter(input.text, sound) = Filter(out.block, LAMBDA s : s \in ToSet(Filter(input.text, sound)))
        /\ \A n \in RowIds : rows[n].status = "not_stated" => NotStatedLine(n) \in said
        /\ \A line \in ToSet(out.unchecked) : rows[line.row].status = "not_stated"
        /\ \A i, j \in DOMAIN out.unchecked :
              (i < j /\ rows[out.unchecked[j].row].blocking) => rows[out.unchecked[i].row].blocking
        /\ ((\E s \in ToSet(input.text) : hands(s)) /\ input.covering) => routed # {}
        /\ input.overlap # NotMandated => out.type # "recommendation"
        /\ (\A s \in ToSet(input.text) : ~wrong(s)) /\ input.overlap = NotMandated => out.type = "recommendation"
        /\ \A n \in out.citations : \A m \in RowIds \ {n} : input.overlap[n] > input.overlap[m]
=============================================================================
