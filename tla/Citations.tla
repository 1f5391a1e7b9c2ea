-------------------------------- MODULE Citations --------------------------------
(***************************************************************************)
(* What an answer may cite: the evidence gate (g1), the resolution of each *)
(* cited chunk (g2), the relabelling of an uncited fact (g3), the second   *)
(* try at a broader answer and the merging of one claim said twice         *)
(* (breadth), and the evidence a turn gathers, parks with and takes up     *)
(* again (Orchestrator._absorb, _rehydrate).                               *)
(***************************************************************************)
EXTENDS Filters

\* The chunks of the index, the document of each, and two ids no chunk has: what a
\* model makes of an id it remembers badly, one too short to recover from.
ChunkDoc == [c1 |-> "d1", c2 |-> "d1", c3 |-> "d2"]
IndexChunks == DOMAIN ChunkDoc
Mangled == "x"
Fragment == "short"
CitedIds == IndexChunks \cup {Mangled, Fragment}

\* Evidence shown in the turn: as the index has it, altered, or quarantined by g4.
Shown == {"faithful", "altered", "quarantined"}
Evidences == (UNION {[shown -> Shown] : shown \in SUBSET {"c1", "c3"}})
             \cup {[c \in shown |-> "faithful"] : shown \in {{"c2"}, {"c1", "c2"}, IndexChunks}}

Cites(type, cited) == [type |-> type, claim |-> 1, citations |-> cited]
CiteLists == {<<>>, <<"x">>, <<"short", "c3">>, <<"x", "c1">>} \cup {<<c>> : c \in IndexChunks}

\* near: the chunks whose id starts as the mangled id does.
CitationInputs ==
    [evidence : Evidences, quarantined : {{}, {"c1"}, {"c3"}}, near : {{"c1"}, {"c1", "c2"}},
     blocks : {<<Cites(s, a), Cites(t, b)>> : s, t \in {"policy_fact", "recommendation"}, a, b \in CiteLists}]

-----------------------------------------------------------------------------
\* Of several chunks that fit a mangled id none is taken.
recover(id, citable, near) ==
    LET matched == IF id = Mangled THEN citable \cap near ELSE {}
    IN  IF Cardinality(matched) = 1 THEN matched ELSE {}

Citable(input) ==
    {c \in DOMAIN input.evidence : c \notin input.quarantined /\ input.evidence[c] # "quarantined"}

\* A chunk that was shown must be shown as the index has it, and not in quarantine;
\* one that was not shown is only looked up in the index.
Resolves(c, input) ==
    /\ c \in IndexChunks
    /\ c \notin input.quarantined
    /\ c \in DOMAIN input.evidence => input.evidence[c] = "faithful"

\* The chunk a cited id stands for, if any.
resolution_for(id, input) ==
    IF id \in IndexChunks THEN {c \in {id} : Resolves(c, input)}
    ELSE {c \in recover(id, Citable(input), input.near) : Resolves(c, input)}

Unrepeated(s) == LET first(i) == \A j \in 1..(i - 1) : s[j] # s[i]
                 IN  FlattenSeq([i \in DOMAIN s |-> IF first(i) THEN <<s[i]>> ELSE <<>>])

\* A fact all of whose citations fell is dropped; other blocks only lose them.
g2_apply(input) ==
    LET surviving(block) == Unrepeated(FlattenSeq(
            [i \in DOMAIN block.citations |-> SetToSeq(resolution_for(block.citations[i], input))]))
        repaired == [i \in DOMAIN input.blocks |-> [input.blocks[i] EXCEPT !.citations = surviving(input.blocks[i])]]
        dropped(i) == /\ input.blocks[i].type = "policy_fact"
                      /\ input.blocks[i].citations # <<>> /\ repaired[i].citations = <<>>
        kept == FlattenSeq([i \in DOMAIN repaired |-> IF dropped(i) THEN <<>> ELSE <<repaired[i]>>])
    IN  [blocks |-> kept, dropped_blocks |-> Cardinality({i \in DOMAIN repaired : dropped(i)}),
         refused |-> input.blocks # <<>> /\ kept = <<>>]

g3_apply(blocks) ==
    [i \in DOMAIN blocks |->
        IF blocks[i].type = "policy_fact" /\ blocks[i].citations = <<>>
        THEN [blocks[i] EXCEPT !.type = "recommendation"] ELSE blocks[i]]

-----------------------------------------------------------------------------
(* breadth.py                                                              *)
cited_documents(blocks, citable) ==
    {ChunkDoc[c] : c \in citable \cap UNION {ToSet(blocks[i].citations) : i \in DOMAIN blocks}}

uncited_documents(blocks, citable) == {ChunkDoc[c] : c \in citable} \ cited_documents(blocks, citable)

distinct_docs_shortfall(blocks, citable, minimum) ==
    LET target == Min({minimum, Cardinality({ChunkDoc[c] : c \in citable})})
    IN  Max({0, target - Cardinality(cited_documents(blocks, citable))})

\* Facts of one claim become the first of them, with the citations of all.
merge(blocks) ==
    LET sameAs(i) == {j \in DOMAIN blocks : blocks[j].type = "policy_fact" /\ blocks[j].claim = blocks[i].claim}
        cited(i) == Unrepeated(FlattenSeq([j \in DOMAIN blocks |-> IF j \in sameAs(i) THEN blocks[j].citations ELSE <<>>]))
    IN  FlattenSeq([i \in DOMAIN blocks |->
            IF blocks[i].type # "policy_fact" THEN <<blocks[i]>>
            ELSE IF i = Min(sameAs(i)) THEN <<[blocks[i] EXCEPT !.citations = cited(i)]>> ELSE <<>>])

\* The second answer replaces the first when it lost nothing and cites more documents.
accepted(before, after, citable) ==
    /\ ~after.refused /\ after.dropped_blocks = 0 /\ Len(after.blocks) >= Len(before)
    /\ Cardinality(cited_documents(after.blocks, citable)) > Cardinality(cited_documents(before, citable))

\* _broaden: the model is asked once, when a document it was given is not cited;
\* reply is what it answers, repaired as the first answer was.
_broaden(input, blocks, reply) ==
    LET again == g2_apply([input EXCEPT !.blocks = reply])
    IN  IF uncited_documents(blocks, Citable(input)) # {} /\ accepted(blocks, again, Citable(input))
        THEN g3_apply(again.blocks) ELSE blocks

\* A citation a later step lost is put back on the block it was on, and no other.
carry_citations(reference, blocks) ==
    [i \in DOMAIN blocks |->
        LET from == {j \in DOMAIN reference : reference[j].block_id = blocks[i].block_id /\ blocks[i].block_id # 0}
        IN  IF from = {} THEN blocks[i]
            ELSE [blocks[i] EXCEPT !.citations =
                     @ \o Filter(reference[CHOOSE j \in from : TRUE].citations, LAMBDA c : c \notin ToSet(blocks[i].citations))]]

\* The blocks of the answer, as the steps after it may leave them: all, one, or one
\* that lost its citations.
Marked(blocks) ==
    [i \in DOMAIN blocks |-> [type |-> blocks[i].type, citations |-> blocks[i].citations, block_id |-> i]]
LaterSteps(marked) ==
    {marked, <<>>} \cup {<<marked[i]>> : i \in DOMAIN marked}
        \cup {<<[marked[i] EXCEPT !.citations = <<>>]>> : i \in DOMAIN marked}

-----------------------------------------------------------------------------
(* g1: scores in tenths, the gate at MIN_EVIDENCE, support at MIN_SUPPORT. *)
MIN_EVIDENCE == 6
MIN_SUPPORT == 5
G1Inputs == [scores : UNION {[1..n -> {4, 5, 6}] : n \in 0..3}, grounded_by_write : BOOLEAN]

Supporting(scores) == Cardinality({i \in DOMAIN scores : scores[i] >= MIN_SUPPORT})

g1_evaluate(input) ==
    LET strong == /\ input.scores # <<>>
                  /\ Max(ToSet(input.scores)) >= MIN_EVIDENCE
                  /\ Supporting(input.scores) >= 2
        reason == IF input.scores = <<>> THEN "no_evidence"
                  ELSE IF ~strong THEN "weak_evidence" ELSE "evidence"
    IN  IF ~strong /\ input.grounded_by_write THEN [passed |-> TRUE, reason |-> "performed_write"]
        ELSE [passed |-> strong, reason |-> reason]

\* The words a refusal has for the reader, by its reason.
refusal_text(reason) ==
    CASE reason \in {"no_evidence", "weak_evidence"} -> "user_refusal"
      [] reason = "out_of_scope" -> "out_of_scope_refusal"
      [] reason \in {"confirmation_invalid", "confirmation_missing"} -> "confirmation_refusal"
      [] OTHER -> "user_refusal"

-----------------------------------------------------------------------------
(* How evidence comes in: a hit of a search, or a chunk the compliance     *)
(* engine cites for a requirement. orders: the chunks whose stored text    *)
(* gives the assistant orders; the fragment is an id of another server's   *)
(* index, judged by its snippet.                                           *)
GatherInputs ==
    [orders : SUBSET {"c1", "c2"}, scored : SUBSET {"c1", "c2"},
     results : SeqOf([tool : {"search"}, chunk : {"c1", "c2", Fragment}, snippet_orders : BOOLEAN]
                     \cup [tool : {"engine"}, chunk : {"c1", "c2", Fragment}, snippet_orders : {FALSE}], 3)]

NoTurnEvidence == [evidence |-> << >>, quarantined |-> {}, noted |-> {}]

\* Judged by the stored text where there is one, whatever came over the wire.
_mark(result, i) == IF result.chunk \in IndexChunks THEN result.chunk \in i.orders ELSE result.snippet_orders

note_evidence(turn, chunk, flagged) ==
    [evidence |-> IF chunk \in DOMAIN turn.evidence THEN turn.evidence
                  ELSE [c \in DOMAIN turn.evidence \cup {chunk} |-> IF c = chunk THEN flagged ELSE turn.evidence[c]],
     quarantined |-> IF flagged THEN turn.quarantined \cup {chunk} ELSE turn.quarantined,
     noted |-> IF flagged THEN turn.noted ELSE turn.noted \cup {chunk}]

\* Nothing the engine cites is let in that is not a chunk, is here already or was not scored.
_engine_evidence(turn, chunk, i) ==
    IF chunk \in (IndexChunks \cap i.scored) \ DOMAIN turn.evidence THEN note_evidence(turn, chunk, chunk \in i.orders) ELSE turn

_absorb(turn, result, i) ==
    IF result.tool = "engine" THEN _engine_evidence(turn, result.chunk, i)
    ELSE note_evidence(turn, result.chunk, _mark(result, i))

\* What the record keeps of a result: the flag of a hit, the chunk an engine cited.
Recorded(result, i) == [tool |-> result.tool, chunk |-> result.chunk, quarantined |-> _mark(result, i)]
_rehydrate_retrieval(turn, span) == note_evidence(turn, span.chunk, span.quarantined)

Gathered(i, upTo) ==
    LET after[n \in 0..upTo] == IF n = 0 THEN NoTurnEvidence ELSE _absorb(after[n - 1], i.results[n], i) IN after[upTo]
_rehydrate(i, upTo) ==
    LET spans == [n \in 1..upTo |-> Recorded(i.results[n], i)]
        after[n \in 0..upTo] ==
            IF n = 0 THEN NoTurnEvidence
            ELSE IF spans[n].tool = "engine" THEN _engine_evidence(after[n - 1], spans[n].chunk, i)
            ELSE _rehydrate_retrieval(after[n - 1], spans[n])
    IN  after[upTo]

-----------------------------------------------------------------------------
(***************************************************************************)
(* Every citation served is a chunk of the index that the turn has not put *)
(* in quarantine and that, if the turn showed it, was shown unaltered.  It *)
(* need not have been shown: an id carried over from a prior turn resolves *)
(* in the index, whatever the head of g2.py says of it.  It is one the     *)
(* model wrote, or the only chunk of the evidence it can have meant; a     *)
(* fact served is cited; a broader answer is taken only for more documents *)
(* and the loss of nothing; merging and the later steps lose no citation   *)
(* of a block that is still there, and give it no other (g2.apply,         *)
(* g3.apply, breadth.merge, accepted, carry_citations).                    *)
(***************************************************************************)
CitationsAreSound(input) ==
    LET first == g3_apply(g2_apply(input).blocks)
        reply == [i \in DOMAIN input.blocks |-> [input.blocks[i] EXCEPT !.citations = <<"c1", "c3">>]]
        shorter == <<reply[1]>>
        wrote == UNION {ToSet(input.blocks[i].citations) : i \in DOMAIN input.blocks}
        usable(c) == c \in IndexChunks \ input.quarantined /\ (c \notin DOMAIN input.evidence \/ input.evidence[c] = "faithful")
        all(blocks) == UNION {ToSet(blocks[i].citations) : i \in DOMAIN blocks}
    IN  \A answer \in {first, _broaden(input, first, reply), _broaden(input, first, shorter)} :
          LET merged == merge(answer)
              marked == Marked(merged)
          IN  /\ \A c \in all(answer) : usable(c)
              /\ \A c \in all(first) \ wrote : Mangled \in wrote /\ Citable(input) \cap input.near = {c}
              /\ \A i \in DOMAIN merged : merged[i].type = "policy_fact" => merged[i].citations # <<>>
              /\ all(merged) = all(answer) /\ \A i \in DOMAIN merged : IsInjective(merged[i].citations)
              /\ answer # first =>
                    /\ Len(answer) >= Len(first)
                    /\ cited_documents(first, Citable(input)) \subseteq cited_documents(answer, Citable(input))
                    /\ distinct_docs_shortfall(answer, Citable(input), 2) <= distinct_docs_shortfall(first, Citable(input), 2)
              /\ \A left \in LaterSteps(marked) :
                    LET served == carry_citations(marked, left)
                    IN  \A i \in DOMAIN served : ToSet(served[i].citations) = ToSet(marked[served[i].block_id].citations)

(***************************************************************************)
(* The gate opens on two passages that support and one that carries, or on *)
(* a write already performed, never otherwise; a refusal says which.       *)
(***************************************************************************)
EvidenceGate(input) ==
    LET verdict == g1_evaluate(input)
        enough == \E i, j \in DOMAIN input.scores :
                     i # j /\ input.scores[i] >= MIN_EVIDENCE /\ input.scores[j] >= MIN_SUPPORT
    IN  /\ verdict.passed <=> (enough \/ input.grounded_by_write)
        /\ ~verdict.passed => refusal_text(verdict.reason) = "user_refusal"
        /\ verdict.reason = "performed_write" => ~enough

(***************************************************************************)
(* A passage that gives orders can be cited by no path that brings it in,  *)
(* what a completion counts as evidence is what G2 may cite, and a turn    *)
(* that parked anywhere comes back with the evidence it had (_mark,        *)
(* _absorb, _engine_evidence, _rehydrate_retrieval).                       *)
(***************************************************************************)
EvidenceComesBack(i) ==
    LET turn == Gathered(i, Len(i.results))
        citable == {c \in DOMAIN turn.evidence : ~turn.evidence[c]}
    IN  /\ \A parked \in 0..Len(i.results) : _rehydrate(i, parked) = Gathered(i, parked)
        /\ (citable \cap IndexChunks) \cap (i.orders \cup turn.quarantined) = {}
        /\ citable \cap IndexChunks = turn.noted \cap IndexChunks
        /\ \A c \in DOMAIN turn.evidence \cap IndexChunks :
              c \in i.scored \/ \E n \in DOMAIN i.results : i.results[n].tool = "search" /\ i.results[n].chunk = c
=============================================================================
