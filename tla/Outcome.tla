--------------------------------- MODULE Outcome ---------------------------------
(***************************************************************************)
(* The answer step that keeps an answer's account of a write the account   *)
(* the tool result gives (agent/outcome.py): one performed statement, no   *)
(* denial of it, no instruction to do it again, and the reader's own       *)
(* record filed as record; and the step that says each sentence once.      *)
(*                                                                         *)
(* A sentence is abstracted to what the step's patterns find in it: the    *)
(* verb of its clause, whether the clause opens with it, what its object   *)
(* is, a modal frame addressed to the reader, the write's id, a claim that *)
(* it happened, a denial, and the values of the record it states.          *)
(***************************************************************************)
EXTENDS Filters

Plain == [verb |-> "none", opens |-> FALSE, object |-> "other", modal |-> FALSE, id |-> FALSE,
          claim |-> FALSE, denial |-> FALSE, states |-> {}, reader |-> FALSE]

Submit == [Plain EXCEPT !.verb = "filing", !.opens = TRUE, !.object = "write"]
SubmitIt == [Submit EXCEPT !.object = "pronoun"]
OpenThePolicy == [Submit EXCEPT !.object = "other"]
YouMustSubmit == [Submit EXCEPT !.opens = FALSE, !.modal = TRUE]
TrackTheId == [Submit EXCEPT !.id = TRUE]
IdWasCreated == [Plain EXCEPT !.id = TRUE, !.claim = TRUE]
ICannotFile == [Plain EXCEPT !.denial = TRUE, !.object = "write"]
CannotHandle == [Plain EXCEPT !.denial = TRUE]
AskPeopleOps == [Plain EXCEPT !.verb = "directive", !.opens = TRUE, !.states = {"number"}]
YouHaveDays == [Plain EXCEPT !.states = {"number"}, !.reader = TRUE]
YourManagerIs == [Plain EXCEPT !.states = {"scalar"}, !.reader = TRUE]

OutcomeSentences == {Plain, Submit, SubmitIt, OpenThePolicy, YouMustSubmit, TrackTheId, IdWasCreated,
    ICannotFile, CannotHandle, AskPeopleOps, YouHaveDays, YourManagerIs}

\* The tool results of the turn: a write gated, a write performed, a read; and whether
\* an earlier turn of the session performed one.
Envelope(tool, status, values) == [tool |-> tool, status |-> status, values |-> values]
Gated == Envelope("write", "confirmation_required", {})
Created == Envelope("write", "created", {})
Failed == Envelope("write", "unreadable", {"number"})
Balance == Envelope("read", "ok", {"number", "scalar", "prose"})
Unrendered == Envelope("unrendered", "ok", {"number", "scalar"})

Blocks(texts) == [type : {"recommendation", "policy_fact", "escalation", "performed"}, text : texts,
                  policy_claim : BOOLEAN, cited : BOOLEAN]

\* Answers of the turn, and answers of a turn after one that made the write.
AccountTexts == {<<s, t>> : s, t \in OutcomeSentences} \cup {<<s>> : s \in OutcomeSentences}
AccountAgainTexts == {<<s, t>> : s \in OutcomeSentences, t \in {Submit, YouMustSubmit}}
AccountInputs ==
    [block : {b \in Blocks(AccountTexts) : b.policy_claim => (b.type = "recommendation" /\ ~b.cited)},
     envelopes : {<<Gated, Balance>>, <<Balance, Gated, Created>>, <<Failed, Unrendered>>}, prior_write : {FALSE}]
AccountAgainInputs ==
    [block : {b \in Blocks(AccountAgainTexts) : ~b.policy_claim}, envelopes : {<<Gated, Balance>>}, prior_write : {TRUE}]
OutcomeInputs == AccountInputs \cup AccountAgainInputs

-----------------------------------------------------------------------------
\* The last envelope of a write tool that says the write was made.
performed_write(envelopes) == \E i \in DOMAIN envelopes : envelopes[i].tool = "write" /\ envelopes[i].status = "created"

\* The numbers, and the short values, of the readable results the model was shown.
Told(envelopes, kind) ==
    \E i \in DOMAIN envelopes :
        /\ envelopes[i].tool # "unrendered" /\ envelopes[i].status # "unreadable"
        /\ kind \in envelopes[i].values
envelope_numbers(envelopes) == IF Told(envelopes, "number") THEN {"number"} ELSE {}
envelope_scalars(envelopes) == IF Told(envelopes, "scalar") THEN {"scalar"} ELSE {}

denies(text) ==
    /\ \E s \in ToSet(text) : s.denial
    /\ \E s \in ToSet(text) : s.verb = "filing" \/ s.object = "write"

opens_with_a_directive(text) == \E s \in ToSet(text) : s.opens /\ s.verb # "none"

\* A filing verb opening a clause, on the write or a word that stands for it.
_imperative(s) == s.opens /\ s.verb = "filing" /\ s.object \in {"write", "pronoun"}

directs(s) == (s.verb = "filing" /\ s.modal) \/ _imperative(s)

claims_the_write(s) == s.id /\ s.claim

Removed(s) == claims_the_write(s) \/ (~s.id /\ directs(s))

trim(text) == Filter(text, LAMBDA s : ~Removed(s))

states_the_record(text, told) == ~opens_with_a_directive(text) /\ \E s \in ToSet(text) : s.states \cap told # {}

\* Of a policy fact only what is the reader's, without a number, by a short value.
IsRecord(kind, text, told) ==
    /\ states_the_record(text, IF kind = "policy_fact" THEN told \cap {"scalar"} ELSE told)
    /\ kind = "policy_fact" => Head(text).reader /\ \A s \in ToSet(text) : "number" \notin s.states

\* A block of both advice and record is two blocks; one of record alone is retyped.
_record_split(block, told) ==
    LET directives == Filter(block.text, LAMBDA s : opens_with_a_directive(<<s>>))
        isRecord(s) == ~opens_with_a_directive(<<s>>) /\ IsRecord(block.type, <<s>>, told)
        records == Filter(block.text, isRecord)
    IN  IF block.policy_claim \/ block.type \notin {"recommendation", "policy_fact"} THEN <<block>>
        ELSE IF directives # <<>> /\ records # <<>>
        THEN <<[block EXCEPT !.text = Filter(@, LAMBDA s : ~isRecord(s))],
               [type |-> "record", text |-> records, policy_claim |-> FALSE, cited |-> FALSE]>>
        ELSE IF directives = <<>> /\ IsRecord(block.type, block.text, told)
        THEN <<[block EXCEPT !.type = "record", !.cited = FALSE]>>
        ELSE <<block>>

\* What a sentence that sends the reader to file again becomes after an earlier write.
Amend == [said |-> "amend"]
amend(text) ==
    LET first(i) == \A j \in 1..(i - 1) : ~(directs(text[j]) /\ ~text[j].id)
    IN  FlattenSeq([i \in DOMAIN text |->
            IF text[i].id \/ ~directs(text[i]) THEN <<text[i]>> ELSE IF first(i) THEN <<Amend>> ELSE <<>>])

\* With a performed write: what is left of the block once its claims, its instructions
\* and its denials are out.
AfterWrite(block, wasPerformed) ==
    LET text == trim(block.text)
        left == [block EXCEPT !.text = text]
    IN  IF wasPerformed \/ (block.type = "escalation" /\ denies(block.text)) \/ text = <<>> THEN <<>>
        ELSE IF text # block.text /\ block.type = "recommendation" /\ ~block.policy_claim
                /\ ~opens_with_a_directive(text)
        THEN <<[left EXCEPT !.type = "record"]>>
        ELSE <<left>>

PerformedStatement == [type |-> "performed", text |-> <<>>, policy_claim |-> FALSE, cited |-> FALSE]

\* A next step is the sentences of the block, each a step of its own.
ApplyOutcome(input) ==
    LET write == performed_write(input.envelopes)
        told == envelope_numbers(input.envelopes) \cup envelope_scalars(input.envelopes)
        block == IF input.block.type = "performed" THEN [input.block EXCEPT !.type = "recommendation"] ELSE input.block
        left == IF write THEN AfterWrite(block, input.block.type = "performed") ELSE <<block>>
        survivors == FlattenSeq([i \in DOMAIN left |-> _record_split(left[i], told)])
        amends(b) == input.prior_write /\ ~(b.type = "policy_fact" /\ b.cited)
        steps == IF write THEN Filter(input.block.text, LAMBDA s : ~Removed(s)) ELSE input.block.text
    IN  [blocks |-> IF write THEN <<PerformedStatement>> \o survivors
                    ELSE [i \in DOMAIN survivors |->
                            IF amends(survivors[i]) THEN [survivors[i] EXCEPT !.text = amend(@)] ELSE survivors[i]],
         next_steps |-> IF ~write /\ input.prior_write THEN amend(steps) ELSE steps]

-----------------------------------------------------------------------------
(* dedupe_sentences: a sentence is its core, with or without a lede before *)
(* the colon; a block carries the citation of its own position.            *)
Cores == 1..2
LedeSentences == [core : Cores, lede : BOOLEAN]
DedupeInputs == [1..4 -> {<<s>> : s \in LedeSentences}
                         \cup {<<[core |-> c, lede |-> FALSE], t>> : c \in Cores, t \in LedeSentences}]

Key(s) == <<s.core, s.lede>>
Bare(s) == <<s.core, FALSE>>

\* The index a block that is kept will have (faulty: the one it had)
HomeByPosition(position, kept) == position
HomeAmongKept(position, kept) == Len(kept) + 1

NoneSeen == [key \in Cores \X BOOLEAN |-> 0]

\* One sentence of a block, own being where the block would be: it is new and is kept, or
\* something said it, whose home is noted.
ReadSentence(t, x, own) ==
    LET home == IF t.seen[Key(x)] # 0 THEN t.seen[Key(x)] ELSE t.seen[Bare(x)]
    IN  IF home # 0 THEN [t EXCEPT !.homes = @ \cup {home}]
        ELSE [t EXCEPT !.keep = Append(@, x), !.seen = [@ EXCEPT ![Key(x)] = own, ![Bare(x)] = own]]

ReadBlock(text, seen, own) ==
    LET step[i \in 0..Len(text)] ==
            IF i = 0 THEN [keep |-> <<>>, seen |-> seen, homes |-> {}]
            ELSE ReadSentence(step[i - 1], text[i], own)
    IN  step[Len(text)]

\* Block n: what is new of it is kept, or what it cites goes to the homes of all it says.
KeepBlock(s, n, text) ==
    LET done == ReadBlock(text, s.seen, HomeAmongKept(n, s.kept))
    IN  IF done.keep = <<>>
        THEN [s EXCEPT !.kept = [h \in DOMAIN s.kept |->
                 IF h \in done.homes THEN [s.kept[h] EXCEPT !.citations = @ \cup {n}] ELSE s.kept[h]]]
        ELSE [kept |-> Append(s.kept, [text |-> done.keep, citations |-> {n}]), seen |-> done.seen]

dedupe_sentences(texts) ==
    LET after[n \in 0..Len(texts)] ==
            IF n = 0 THEN [kept |-> <<>>, seen |-> NoneSeen] ELSE KeepBlock(after[n - 1], n, texts[n])
    IN  after[Len(texts)].kept

-----------------------------------------------------------------------------
(***************************************************************************)
(* A performed write is stated by the performed block alone and first, and *)
(* by nothing when none was made; nothing left claims it, sends the reader *)
(* to make it again or escalates because it could not be made; every other *)
(* sentence is still there; an uncited policy claim never becomes the      *)
(* reader's record, and what was filed as record is the reader's, not an   *)
(* instruction (outcome.apply).                                            *)
(***************************************************************************)
OneAccountOfTheWrite(input) ==
    LET out == ApplyOutcome(input)
        write == performed_write(input.envelopes)
        model == IF write THEN Tail(out.blocks) ELSE out.blocks
        said == (UNION {ToSet(b.text) : b \in ToSet(model)}) \ {Amend}
        again(s) == s.verb = "filing" /\ ~s.id /\ (s.modal \/ (s.opens /\ s.object # "other"))
        claim(s) == s.id /\ s.claim
        denying == /\ input.block.type = "escalation"
                   /\ \E s \in ToSet(input.block.text) : s.denial
                   /\ \E s \in ToSet(input.block.text) : s.verb = "filing" \/ s.object = "write"
    IN  /\ write <=> (out.blocks # <<>> /\ Head(out.blocks).type = "performed")
        /\ \A b \in ToSet(model) : b.type # "performed"
        /\ write => \A s \in said \cup ToSet(out.next_steps) : ~again(s) /\ ~claim(s)
        /\ (write /\ denying) => model = <<>>
        /\ (write /\ ~denying /\ input.block.type # "performed") =>
              said = {s \in ToSet(input.block.text) : ~again(s) /\ ~claim(s)}
        /\ ~write => {s \in ToSet(input.block.text) : ~again(s)} \subseteq said
        /\ input.prior_write => \A b \in ToSet(model) :
              (b.type = "policy_fact" /\ b.cited) \/ \A s \in ToSet(b.text) \ {Amend} : ~again(s)
        /\ \A b \in ToSet(model) :
              b.type = "record" => ~input.block.policy_claim /\ \A s \in ToSet(b.text) \ {Amend} : ~(s.opens /\ s.verb # "none")

(***************************************************************************)
(* Each thing is said once, and no citation is lost with a block that only *)
(* repeated: a block that is kept and says the same carries it             *)
(* (dedupe_sentences).                                                     *)
(***************************************************************************)
SaidOnceAndCited(texts) ==
    LET kept == dedupe_sentences(texts)
        bare(text) == [i \in DOMAIN text |-> text[i].core]
        said == FlattenSeq([i \in DOMAIN kept |-> bare(kept[i].text)])
    IN  /\ \A c \in Cores : Cardinality({i \in DOMAIN said : said[i] = c}) =
              IF \E n \in DOMAIN texts : \E s \in ToSet(texts[n]) : s.core = c THEN 1 ELSE 0
        /\ \A n \in DOMAIN texts : \E k \in DOMAIN kept :
              n \in kept[k].citations /\ ToSet(bare(kept[k].text)) \cap ToSet(bare(texts[n])) # {}
=============================================================================
