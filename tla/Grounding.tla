-------------------------------- MODULE Grounding --------------------------------
(***************************************************************************)
(* The answer steps that hold an answer to the tools' own results: the     *)
(* balance and its working (check_pto_balance, arithmetic.py), a deadline  *)
(* counted back from its anchor (dates.py), and a snapshot's date and the  *)
(* tenure it gives (snapshot.py).                                          *)
(***************************************************************************)
EXTENDS Filters

SumOf(s) == LET upTo[n \in 0..Len(s)] == IF n = 0 THEN 0 ELSE upTo[n - 1] + s[n] IN upTo[Len(s)]

-----------------------------------------------------------------------------
(* The PTO balance. *)
Snapshot == 5
Balances == [accrued : {0, 3}, used : 0..1, pending : 0..1, prior : {0, 2}, expires : {0, 4, 5}]

unexpired_carryover(row) == IF row.expires >= Snapshot THEN row.prior ELSE 0

\* The tool's envelope: the terms with their signs in the order they are said, and what they come to.
balance_of(row) ==
    LET carryover == unexpired_carryover(row)
        all == <<<<row.accrued, "accrued">>, <<-row.used, "used">>, <<-row.pending, "pending">>,
                 <<carryover, "carried over">>>>
    IN  [terms |-> all, remaining |-> row.accrued - row.used - row.pending + carryover,
         expired |-> row.prior > 0 /\ carryover = 0 /\ row.expires # 0]

\* decomposition: the terms that are not zero; none when there is none.
decomposition(e) == Filter(e.terms, LAMBDA t : t[1] # 0)

Working(total, terms, reader) == [said |-> "working", total |-> total, terms |-> terms, reader |-> reader]
Expiry(told, reader) == [said |-> "expiry", told |-> told, reader |-> reader]
Statement(e) == [said |-> "engine", total |-> e.remaining, terms |-> decomposition(e), reader |-> TRUE]
ExpiredNote == [said |-> "expired note", reader |-> TRUE]

BalanceTerms == {<<>>, <<<<3, "accrued">>, <<-1, "used">>>>, <<<<1, "accrued">>, <<2, "carried over">>>>,
                 <<<<1, "other">>, <<2, "other">>>>}
BalanceSentences ==
    {Working(total, terms, reader) : total \in 2..4, reader \in BOOLEAN, terms \in BalanceTerms}
    \cup {Expiry(told, reader) : told, reader \in BOOLEAN}

BalanceInputs ==
    LET right == {s \in BalanceSentences : s.said # "working" \/ (s.total = 3 /\ s.reader)}
    IN  [row : Balances, text : {<<s, t>> : s \in BalanceSentences, t \in right} \cup {<<t, s>> : s \in BalanceSentences, t \in right},
         cited : BOOLEAN]

\* DECOMPOSITION needs a plus or a minus: a single term in brackets is not a working.
IsWorking(s) == s.said \in {"working", "engine"} /\ Len(s.terms) > 1

Term(e, field) == {e.terms[i][1] : i \in {j \in DOMAIN e.terms : e.terms[j][2] = field}}

\* It comes to its total, and shows no term the record has at zero.
_sound(s, e) ==
    /\ SumOf([i \in DOMAIN s.terms |-> s.terms[i][1]]) = s.total
    /\ \A i \in DOMAIN s.terms : Term(e, s.terms[i][2]) = {0} => s.terms[i][1] = 0

\* arithmetic.correct: the record's working in the place of one that is not sound.
CorrectWorking(s, e) == IF IsWorking(s) /\ ~_sound(s, e) THEN [s EXCEPT !.terms = decomposition(e)] ELSE s

Numbers(s) == IF s.said \in {"working", "engine"}
              THEN {s.total} \cup {IF s.terms[i][1] < 0 THEN -s.terms[i][1] ELSE s.terms[i][1] : i \in DOMAIN s.terms}
              ELSE {}

\* A sentence with the wrong total, or an expiry the record does not date, gives way to the engine's.
restate(text, e) ==
    LET wrong(s) == IsWorking(s) /\ s.total # e.remaining
        invented(s) == s.said = "expiry" /\ s.reader /\ ~s.told
        instead(s) == IF wrong(s) THEN {Statement(e)} ELSE IF e.expired THEN {ExpiredNote} ELSE {}
        kept[i \in 0..Len(text)] ==
            IF i = 0 THEN <<>>
            ELSE IF ~wrong(text[i]) /\ ~invented(text[i]) THEN Append(kept[i - 1], text[i])
            ELSE kept[i - 1] \o SetToSeq(instead(text[i]) \ ToSet(kept[i - 1]))
        all == kept[Len(text)]
        again(s) == s # Statement(e) /\ s.reader /\ Numbers(s) = {e.remaining}
    IN  IF \A i \in DOMAIN text : ~wrong(text[i]) /\ ~invented(text[i]) THEN text
        ELSE IF Statement(e) \in ToSet(all) THEN Filter(all, LAMBDA s : ~again(s))
        ELSE all

ApplyArithmetic(input) ==
    LET e == balance_of(input.row)
        corrected == [i \in DOMAIN input.text |-> CorrectWorking(input.text[i], e)]
    IN  IF input.cited THEN corrected ELSE restate(corrected, e)

(***************************************************************************)
(* A working shown beside a total comes to that total, which is the        *)
(* balance the tool returned, and no expiry is told the reader that the    *)
(* record does not have: in every block that is not a cited policy fact,   *)
(* whatever row the balance comes from (check_pto_balance, arithmetic).    *)
(***************************************************************************)
WorkingsAreTheRecords(input) ==
    LET out == ApplyArithmetic(input)
        balance == input.row.accrued - input.row.used - input.row.pending
                      + (IF input.row.expires >= Snapshot THEN input.row.prior ELSE 0)
    IN  input.cited \/
        /\ \A i \in DOMAIN out : Len(out) > 0 =>
              /\ out[i].said \in {"working", "engine"} /\ Len(out[i].terms) > 1 =>
                    out[i].total = balance /\ SumOf([j \in DOMAIN out[i].terms |-> out[i].terms[j][1]]) = balance
              /\ out[i].said = "expiry" /\ out[i].reader => out[i].told
        /\ Cardinality({i \in DOMAIN out : out[i].said = "engine"}) <= 1

-----------------------------------------------------------------------------
(* Deadlines: day 1 is a Monday. *)
Weekday(day) == (day - 1) % 7
IsBusinessDay(day) == Weekday(day) < 5

\* An anchor, when there is one, has so many days before it that n of them are working days.
DeadlineInputs == [stated : 0..18, n : 0..6, business : BOOLEAN, anchor : {0} \cup (20..26), weekday : {0, 5}]

DayBack(walk) ==
    LET moment == walk.day - 1
    IN  IF walk.left = 0 THEN walk
        ELSE [day |-> moment, left |-> IF IsBusinessDay(moment) THEN walk.left - 1 ELSE walk.left]
minus_days(anchor, n, business) ==
    LET walk[k \in 0..anchor] == IF k = 0 THEN [day |-> anchor, left |-> n] ELSE DayBack(walk[k - 1])
    IN  IF business THEN walk[anchor].day ELSE anchor - n

\* dates.correct: a working that dates nothing is taken out, one whose anchor is no date
\* is left; then each weekday is the one of its date.
CorrectDeadline(i) ==
    LET day == IF i.stated # 0 /\ i.anchor # 0 THEN minus_days(i.anchor, i.n, i.business) ELSE i.stated
    IN  [stated |-> day, shown |-> i.anchor = 0 \/ i.stated # 0, weekday |-> IF day = 0 THEN i.weekday ELSE Weekday(day)]

(***************************************************************************)
(* A deadline said to be n days before its anchor is: of the days from it  *)
(* to the day before the anchor n are counted, it is a working day when    *)
(* only working days count, and the weekday said is its own; a count with  *)
(* no date is not shown (dates.correct).                                   *)
(***************************************************************************)
DeadlinesAreCounted(i) ==
    LET out == CorrectDeadline(i)
        counted == {d \in out.stated..(i.anchor - 1) : i.business => d % 7 \notin {6, 0}}
    IN  IF i.anchor = 0 THEN out.stated = i.stated /\ out.shown
        ELSE IF i.stated = 0 THEN ~out.shown
        ELSE /\ out.shown /\ Cardinality(counted) = i.n
             /\ i.n > 0 => out.stated \in counted
             /\ out.weekday = (out.stated + 6) % 7

-----------------------------------------------------------------------------
(* The snapshot's date and the tenure it reports. *)
TENURE_FLOOR == 13
AsOf(date) == [said |-> "as of", date |-> date, threshold |-> FALSE, months |-> 0]
Months(months, threshold) == [said |-> "months", date |-> 0, threshold |-> threshold, months |-> months]
SnapshotPhrases == {AsOf(1), AsOf(2)} \cup {Months(m, t) : m \in {6, 12, 26}, t \in BOOLEAN}

\* A tool's body: its as-of date (0: none), the months it reports and whether it words the tenure.
SnapshotBodies == [as_of : 0..1, reported : {<<>>, <<6>>, <<26>>, <<12, 26>>}, worded : BOOLEAN]
SnapshotInputs == [bodies : {<<b>> : b \in SnapshotBodies}, text : {<<s, t>> : s, t \in SnapshotPhrases}]

snapshot_dates(bodies) == {bodies[i].as_of : i \in DOMAIN bodies} \ {0}
\* tenures: each number reported, in the body's own words or in years and months.
tenures(bodies) ==
    UNION {{<<m, IF bodies[i].worded THEN "worded" ELSE "years and months">> : m \in ToSet(bodies[i].reported)}
              : i \in DOMAIN bodies}

undate(text, dates) == Filter(text, LAMBDA s : ~(s.said = "as of" /\ s.date \in dates))

restate_tenure(text, pairs) ==
    [i \in DOMAIN text |->
        LET s == text[i]
            words == {p[2] : p \in {q \in pairs : q[1] = s.months}}
        IN  IF s.said = "months" /\ ~s.threshold /\ s.months >= TENURE_FLOOR /\ words # {}
            THEN [said |-> CHOOSE w \in words : TRUE, date |-> 0, threshold |-> FALSE, months |-> s.months]
            ELSE s]

ApplySnapshot(input) == restate_tenure(undate(input.text, snapshot_dates(input.bodies)), tenures(input.bodies))

(***************************************************************************)
(* Only what the tools reported is rewritten: another date and a tenure    *)
(* nobody reported stay, a threshold the policy sets keeps its months, and *)
(* the reader's own tenure of more than a year is not in months            *)
(* (snapshot.apply).                                                       *)
(***************************************************************************)
OnlyTheSnapshotIsReworded(input) ==
    LET out == ApplySnapshot(input)
        body == input.bodies[1]
    IN  /\ \A s \in ToSet(out) : s.said = "as of" => s.date # body.as_of
        /\ \A s \in ToSet(out) :
              s.said = "months" => s.threshold \/ s.months < 13 \/ s.months \notin ToSet(body.reported)
        /\ {s \in ToSet(input.text) : s.said = "months" /\ (s.threshold \/ s.months < 13)} \subseteq ToSet(out)
        /\ Len(out) = Len(Filter(input.text, LAMBDA s : s.said = "months" \/ s.date # body.as_of))
=============================================================================
