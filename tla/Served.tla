--------------------------------- MODULE Served ---------------------------------
(***************************************************************************)
(* What the reader is shown: the approver's name in the place of a role    *)
(* (agent/approvers.py), no denial of a tool that is permitted or of the   *)
(* reader's own profile (capability.py), next steps that the answer bears  *)
(* out (entailment.py), the notices before the blocks and the refusal of   *)
(* an answer with nothing in it (orchestrator), and nothing secret         *)
(* (core/redact.py, guardrails/g6.py).                                     *)
(***************************************************************************)
EXTENDS Filters

-----------------------------------------------------------------------------
(* Approvers. *)
Roles == <<"director", "manager">>
Reader == "dana"
Entry(role, name, routed) == [role |-> role, name |-> name, routed |-> routed]
Manager == Entry("manager", "lee", FALSE)
\* The entries a turn's compliance results and profile list, the reader being a director or not.
Listed == {<<>>, <<Manager>>, <<Manager, Entry("director", "kim", FALSE)>>,
           <<Entry("director", "lee", TRUE), Manager>>, <<Entry("director", "kim", FALSE)>>,
           <<Manager, Entry("manager", "kim", FALSE)>>, <<Entry("director", "kim", FALSE), Entry("director", "lee", TRUE)>>}

\* A phrase names a role ("your director", with or without the name), or a person.
Mention(role, name) == [said |-> "role", role |-> role, name |-> name]
ApprovedBy(name) == [said |-> "approved by", role |-> "none", name |-> name]
Phrases == {Mention("director", "none"), Mention("manager", "none"), Mention("manager", "lee"), ApprovedBy(Reader),
            ApprovedBy("kim"), [said |-> "other", role |-> "none", name |-> "none"]}

ApproverTexts == {<<s, t>> : s, t \in Phrases}
ApprovalInputs == [listed : Listed, text : ApproverTexts, cited : BOOLEAN, step : {<<s>> : s \in Phrases}]

\* The first entry for a role is the one that counts.
approvers(listed) == Filter(listed, LAMBDA e : e = listed[CHOOSE i \in DOMAIN listed :
    listed[i].role = e.role /\ \A j \in 1..(i - 1) : listed[j].role # e.role])
For(resolved, role) == {e \in ToSet(resolved) : e.role = role}

\* The person a reader who is named as their own approver is replaced by.
Higher(resolved) ==
    LET routed == Filter(resolved, LAMBDA e : e.routed)
    IN  {e \in IF routed # <<>> THEN {Head(routed)} ELSE For(resolved, "manager") : e.name # Reader}

\* approvers.correct, phrase by phrase: a routed role gives way to the name.
NameApprover(p, resolved) ==
    LET entry == For(resolved, p.role)
    IN  IF p.said = "role" /\ p.name = "none" /\ entry # {}
        THEN LET e == CHOOSE x \in entry : TRUE
             IN  [p EXCEPT !.name = e.name, !.said = IF e.routed THEN "person" ELSE "role"]
        ELSE IF p.said = "approved by" /\ p.name = Reader /\ Higher(resolved) # {}
        THEN [p EXCEPT !.name = (CHOOSE x \in Higher(resolved) : TRUE).name]
        ELSE p
CorrectApprovers(text, resolved) == [i \in DOMAIN text |-> NameApprover(text[i], resolved)]

names_an_approver(text, resolved) == \E p \in ToSet(text) : p.name \in {e.name : e \in ToSet(resolved)}

\* record_line: each person once.
RecordLine(resolved) ==
    LET names == {e.name : e \in ToSet(resolved)} IN [i \in 1..Cardinality(names) |->
        [said |-> "person", role |-> "none", name |-> SetToSeq(names)[i]]]

ApplyApprovers(input) ==
    LET resolved == approvers(input.listed)
        text == IF input.cited THEN input.text ELSE CorrectApprovers(input.text, resolved)
    IN  [blocks |-> IF resolved # <<>> /\ ~names_an_approver(text, resolved)
                    THEN <<text, RecordLine(resolved)>> ELSE <<text>>,
         step |-> CorrectApprovers(input.step, resolved)]

(***************************************************************************)
(* When an approver is resolved the answer names one; outside a cited fact *)
(* a role that is resolved is never left without its person, the reader is *)
(* never the one who approves when somebody above is known, and no name is *)
(* written that the tools did not resolve (approvers.apply).               *)
(***************************************************************************)
ApproversAreNamed(input) ==
    LET out == ApplyApprovers(input)
        known == {input.listed[i].name : i \in DOMAIN input.listed}
        own == IF input.cited THEN {out.step} ELSE {out.step, out.blocks[1]}
        names(texts) == {p.name : p \in UNION {ToSet(t) : t \in texts}}
    IN  /\ known # {} => names(ToSet(out.blocks)) \cap known # {}
        /\ \A t \in own : \A p \in ToSet(t) :
              /\ p.said = "role" /\ (\E i \in DOMAIN input.listed : input.listed[i].role = p.role) => p.name # "none"
              /\ p.said = "approved by" /\ (\E i \in DOMAIN input.listed :
                    /\ input.listed[i].routed \/ input.listed[i].role = "manager"
                    /\ \A j \in 1..(i - 1) : input.listed[j].role # input.listed[i].role) => p.name # Reader
        /\ names(ToSet(out.blocks) \cup {out.step}) \subseteq
              known \cup {"none"} \cup names({input.text, input.step})

-----------------------------------------------------------------------------
(* Sentences about what the assistant can do and what the reader is, then  *)
(* the next steps that the blocks left bear out.                           *)
Facts == 1..3       \* 1 a name, 2 a duration, 3 an amount
Deny(tool) == [denies |-> tool, contradicts |-> FALSE, facts |-> {}]
ServedSentences ==
    {Deny("permitted"), Deny("disabled"), [denies |-> "none", contradicts |-> TRUE, facts |-> {1}]}
    \cup {[denies |-> "none", contradicts |-> FALSE, facts |-> f] : f \in {{}, {2}, {1, 3}}}

StepInputs == [blocks : {<<<<r, s>>, <<t>>>> : r, s, t \in ServedSentences}, envelope : SUBSET {2, 3},
               profile : BOOLEAN, step : {[facts |-> f, repeats |-> r] : f \in SUBSET Facts, r \in {FALSE}}
                  \cup {[facts |-> f, repeats |-> TRUE] : f \in {{}, {2}}}]

\* capability.apply; contradicts_the_record needs the profile.
Struck(s, input) == s.denies = "permitted" \/ (s.contradicts /\ input.profile)
ApplyCapability(input) ==
    LET kept(b) == Filter(b, LAMBDA s : ~Struck(s, input))
        left == [i \in DOMAIN input.blocks |-> kept(input.blocks[i])]
    IN  Filter(left, LAMBDA b : b # <<>>)

\* grounds: what the blocks and the envelopes say.
Grounds(blocks, input) == input.envelope \cup UNION {s.facts : s \in UNION {ToSet(b) : b \in ToSet(blocks)}}

\* entailment.apply, over the blocks that are left.
said_in_a_block(step, blocks) ==
    step.repeats /\ \E b \in ToSet(blocks) : \E s \in ToSet(b) : s.denies = "none" /\ s.facts = step.facts
StepIsKept(input) ==
    LET blocks == ApplyCapability(input)
    IN  ~said_in_a_block(input.step, blocks) /\ input.step.facts \subseteq Grounds(blocks, input)

(***************************************************************************)
(* A step leans on nothing that was struck: what it names is in a sentence *)
(* the reader still sees or in a tool's result; it is not a sentence the   *)
(* reader has already read; and no more is struck than the denial of a     *)
(* permitted tool and the contradiction of a profile that was read         *)
(* (capability.apply, then entailment.apply).                              *)
(***************************************************************************)
StepsStandOnTheAnswer(input) ==
    LET sentences == UNION {ToSet(b) : b \in ToSet(input.blocks)}
        shown == {s \in sentences : s.denies # "permitted" /\ (s.contradicts => ~input.profile)}
        out == ApplyCapability(input)
    IN  /\ UNION {ToSet(b) : b \in ToSet(out)} = shown
        /\ \A b \in ToSet(out) : b # <<>>
        /\ StepIsKept(input) =>
              /\ \A f \in input.step.facts : f \in input.envelope \/ \E s \in shown : f \in s.facts
              /\ input.step.repeats => \A s \in shown : s.denies # "none" \/ s.facts # input.step.facts
        /\ (input.step.facts = {} /\ ~input.step.repeats) => StepIsKept(input)

-----------------------------------------------------------------------------
(* The notices that go before the blocks, and the answer that has nothing. *)
BlockKinds == {"policy_fact", "record", "recommendation", "silent"}   \* silent: "the corpus does not cover"
ServeInputs == [stopped : BOOLEAN, complete : BOOLEAN, write : {"none", "failed", "blocked", "declined", "made"},
                verdict : {"none", "compliant", "non_compliant"}, blocks : (SUBSET BlockKinds) \ {{}},
                had_policy_fact : BOOLEAN]

_complete(i) == i.complete /\ i.blocks \cap {"policy_fact", "record"} # {}
_verdict_lede(i) == i.write = "none" /\ i.verdict = "non_compliant"
Ledes(i) ==
    (IF i.stopped /\ ~_complete(i) THEN {"budget"} ELSE {}) \cup (IF i.write = "failed" THEN {"write failed"} ELSE {})
    \cup (IF i.write = "blocked" THEN {"write blocked"} ELSE {}) \cup (IF i.write = "declined" THEN {"cancelled"} ELSE {})
    \cup (IF _verdict_lede(i) THEN {"record"} ELSE {})
_unsupported(i, blocks) ==
    /\ i.write \notin {"failed", "blocked", "declined"} /\ ~i.stopped /\ ~i.had_policy_fact
    /\ blocks \cap {"policy_fact", "record", "performed"} = {} /\ "silent" \in blocks
Serve(i) ==
    LET served == Ledes(i) \cup i.blocks \cup (IF i.write = "made" THEN {"performed"} ELSE {})
    IN  IF _unsupported(i, served) THEN [outcome |-> "refused", blocks |-> {}]
        ELSE [outcome |-> IF "budget" \in served \/ i.write = "failed" THEN "partial" ELSE "answered",
              blocks |-> served]

(***************************************************************************)
(* A refusal never hides what the turn did or what it found: a write made, *)
(* failed, blocked or declined is told, a verdict against the reader is    *)
(* told unless a write's own outcome stands, and a turn that ran out is    *)
(* partial exactly when it says so (the end of _answer).                   *)
(***************************************************************************)
NothingDoneIsHidden(i) ==
    LET out == Serve(i)
    IN  /\ i.write # "none" => out.outcome # "refused"
        /\ (i.write = "none" /\ i.verdict = "non_compliant") => "record" \in out.blocks
        /\ i.blocks \cap {"policy_fact", "record"} # {} => out.outcome # "refused"
        /\ (out.outcome = "partial") = ({"budget", "write failed"} \cap out.blocks # {})
        /\ out.outcome = "answered" /\ i.stopped => i.complete
        /\ i.write = "declined" => "cancelled" \in out.blocks

-----------------------------------------------------------------------------
(* Redaction: a leaf of a payload is the keys it is under, outermost first *)
(* (a list hands its key on), and what its value looks like.               *)
Keys == {"denied", "preserved", "digest", "plain"}
RedactInputs == [keys : UNION {[1..n -> Keys] : n \in 0..3}, value : {"secret", "digest", "number", "text", "redacted"}]

\* A preserved key looks like a denied one (total_tokens); a value that looks like a
\* digest looks like a secret too.
redact_leaf(leaf) ==
    IF \E i \in DOMAIN leaf.keys : leaf.keys[i] = "denied" THEN "redacted"
    ELSE IF leaf.value = "digest" /\ leaf.keys # <<>> /\ leaf.keys[Len(leaf.keys)] = "digest" THEN leaf.value
    ELSE IF leaf.value \in {"secret", "digest"} THEN "redacted" ELSE leaf.value
redact(leaf) == [leaf EXCEPT !.value = redact_leaf(leaf)]
\* scrub and g6.check: the verdict is strip when anything changed.
g6_verdict(leaf) == IF redact(leaf) # leaf THEN "strip" ELSE "allow"

(***************************************************************************)
(* Nothing that looks like a credential, or is under a key that does, is   *)
(* stored or shown; counters and the digests of public files are; what is  *)
(* redacted once needs no second pass, and g6 says whether it did anything.*)
(***************************************************************************)
NoSecretIsShown(leaf) ==
    LET out == redact(leaf).value
    IN  /\ out # "secret"
        /\ (\E i \in DOMAIN leaf.keys : leaf.keys[i] = "denied") => out = "redacted"
        /\ out = "digest" => leaf.keys[Len(leaf.keys)] = "digest"
        /\ (leaf.value \in {"number", "text"} /\ \A i \in DOMAIN leaf.keys : leaf.keys[i] # "denied") => out = leaf.value
        /\ redact(redact(leaf)) = redact(leaf)
        /\ g6_verdict(leaf) = "allow" <=> out = leaf.value
=============================================================================
