---------------------------- MODULE BackedProofs ----------------------------
(***************************************************************************)
(* What an answer is backed by (Citations, Grounding, Served), and what a  *)
(* message is taken to ask for (Turns), proved for answers, evidence,      *)
(* balances, deadlines, sessions, streams and lists of approvers of any    *)
(* length. Each theorem states for every input what Answers asks of a few; *)
(* the loops and lists they go through are those of VerdictProofs.         *)
(***************************************************************************)
EXTENDS VerdictProofs, Citations, Grounding, Served, Turns

-----------------------------------------------------------------------------
(* Citations: the evidence of a turn and what its answer cites of it.      *)
\* A set has two members when two are different.
LEMMA TwoOrMore ==
  ASSUME NEW S, IsFiniteSet(S)
  PROVE  Cardinality(S) >= 2 <=> \E i, j \in S : i # j
  <1>1. Cardinality(S) \in Nat
    BY FS_CardinalityType
  <1>2. ASSUME NEW i \in S, NEW j \in S, i # j PROVE Cardinality(S) >= 2
    <2>1. Cardinality({i, j}) = 2 /\ IsFiniteSet({i, j})
      <3>1. Cardinality({i}) = 1 /\ IsFiniteSet({i})
        BY FS_Singleton
      <3>2. Cardinality({i} \cup {j}) = 2 /\ IsFiniteSet({i} \cup {j})
        BY <1>2, <3>1, FS_AddElement
      <3>3. {i, j} = {i} \cup {j}
        OBVIOUS
      <3> QED
        BY <3>2, <3>3
    <2>2. {i, j} \subseteq S
      OBVIOUS
    <2>3. Cardinality({i, j}) <= Cardinality(S)
      BY <2>2, FS_Subset
    <2> QED
      BY <1>1, <2>1, <2>3
  <1>3. ASSUME \A i, j \in S : i = j PROVE Cardinality(S) <= 1
    <2>1. CASE S = {}
      BY <2>1, FS_EmptySet
    <2>2. CASE S # {}
      <3>1. PICK i : S = {i}
        BY <1>3, <2>2
      <3> QED
        BY <3>1, FS_Singleton
    <2> QED
      BY <2>1, <2>2
  <1> QED
    BY <1>1, <1>2, <1>3

(***************************************************************************)
(* Whatever its passages score, the gate opens on two that support and one *)
(* of them that carries, or on a write already performed, never otherwise; *)
(* what it refuses is refused in the reader's words, and a write is the    *)
(* reason only where the passages are not enough (g1.evaluate,             *)
(* refusal_text).                                                          *)
(***************************************************************************)
THEOREM TheGate ==
  ASSUME NEW K \in Nat, NEW scores \in Seq(0..K), NEW grounded \in BOOLEAN
  PROVE  EvidenceGate([scores |-> scores, grounded_by_write |-> grounded])
  <1> DEFINE input == [scores |-> scores, grounded_by_write |-> grounded]
             n == Len(scores)
             high == Max(ToSet(scores))
             support == {i \in DOMAIN scores : scores[i] >= MIN_SUPPORT}
             strong == scores # <<>> /\ high >= MIN_EVIDENCE /\ Supporting(scores) >= 2
             reason == IF scores = <<>> THEN "no_evidence" ELSE IF ~strong THEN "weak_evidence" ELSE "evidence"
             enough == \E i, j \in DOMAIN scores : i # j /\ scores[i] >= MIN_EVIDENCE /\ scores[j] >= MIN_SUPPORT
  <1>1. n \in Nat /\ DOMAIN scores = 1..n /\ (\A i \in 1..n : scores[i] \in 0..K) /\ (scores = <<>> <=> n = 0)
    OBVIOUS
  <1>2. ToSet(scores) = {scores[i] : i \in 1..n} /\ ToSet(scores) \subseteq 0..K
    BY RangeIsFinite
  <1>3. n # 0 => high \in ToSet(scores) /\ \A x \in ToSet(scores) : x <= high
    <2>1. n # 0 => ToSet(scores) # {}
      BY <1>1, <1>2
    <2> QED
      BY <1>2, <2>1, MaxIsGreatest
  <1>4. n # 0 => (\E i \in 1..n : scores[i] = high) /\ \A i \in 1..n : scores[i] <= high
    <2> HIDE DEF high, n
    <2> QED
      BY <1>2, <1>3
  <1>5. Supporting(scores) >= 2 <=> \E i, j \in support : i # j
    <2>1. IsFiniteSet(support)
      <3>1. IsFiniteSet(1..n)
        BY <1>1, FS_Interval
      <3>2. support \subseteq 1..n
        BY <1>1
      <3> QED
        BY <3>1, <3>2, FS_Subset
    <2>2. Supporting(scores) = Cardinality(support)
      BY DEF Supporting
    <2> HIDE DEF support
    <2> QED
      BY <2>1, <2>2, TwoOrMore
  <1> HIDE DEF high, n
  <1>6. strong <=> enough
    <2>1. ASSUME strong PROVE enough
      <3>1. n # 0 /\ high >= MIN_EVIDENCE
        BY <1>1, <2>1
      <3>2. PICK i \in 1..n : scores[i] = high
        BY <1>4, <3>1
      <3>3. PICK j \in support : j # i
        BY <1>5, <2>1
      <3> QED
        BY <1>1, <3>1, <3>2, <3>3
    <2>2. ASSUME enough PROVE strong
      <3>1. PICK i, j \in 1..n : i # j /\ scores[i] >= MIN_EVIDENCE /\ scores[j] >= MIN_SUPPORT
        BY <1>1, <2>2
      <3>2. n # 0
        BY <1>1
      <3>3. high >= scores[i] /\ high \in 0..K
        BY <1>1, <1>2, <1>3, <1>4, <3>2
      <3>4. i \in support /\ j \in support
        BY <1>1, <3>1 DEF MIN_EVIDENCE, MIN_SUPPORT
      <3>5. high >= MIN_EVIDENCE
        BY <1>1, <3>1, <3>3 DEF MIN_EVIDENCE
      <3> QED
        BY <1>1, <1>5, <3>1, <3>2, <3>4, <3>5
    <2> QED
      BY <2>1, <2>2
  <1>7. g1_evaluate(input) = IF ~strong /\ grounded THEN [passed |-> TRUE, reason |-> "performed_write"]
                             ELSE [passed |-> strong, reason |-> reason]
    BY DEF g1_evaluate, high
  <1>8. reason \in {"no_evidence", "weak_evidence", "evidence"} /\ (~strong => reason # "evidence")
    <2> HIDE DEF strong
    <2> QED
      OBVIOUS
  <1>9. (g1_evaluate(input).passed <=> strong \/ grounded) /\ (~strong /\ grounded => g1_evaluate(input).reason = "performed_write")
        /\ (~(~strong /\ grounded) => g1_evaluate(input).reason = reason)
    <2>1. CASE ~strong /\ grounded
      BY <1>7, <2>1
    <2>2. CASE ~(~strong /\ grounded)
      <3>1. g1_evaluate(input) = [passed |-> strong, reason |-> reason]
        BY <1>7, <2>2
      <3> HIDE DEF strong, reason
      <3> QED
        BY <2>2, <3>1
    <2> QED
      BY <2>1, <2>2
  <1>10. \A r \in {"no_evidence", "weak_evidence"} : refusal_text(r) = "user_refusal"
    BY DEF refusal_text
  <1>11. input.scores = scores /\ input.grounded_by_write = grounded
    OBVIOUS
  <1> HIDE DEF strong, reason, input, enough
  <1>12. /\ g1_evaluate(input).passed <=> (enough \/ input.grounded_by_write)
         /\ ~g1_evaluate(input).passed => refusal_text(g1_evaluate(input).reason) = "user_refusal"
         /\ g1_evaluate(input).reason = "performed_write" => ~enough
    BY <1>6, <1>8, <1>9, <1>10, <1>11
  <1>13. EvidenceGate(input)
    BY <1>11, <1>12 DEF EvidenceGate, enough
  <1> QED
    BY <1>13 DEF input

\* What the evidence of a turn is at any time: what it holds of an index chunk says
\* whether the chunk gives orders, what counts as noted is what may be cited, and no chunk
\* is there that was neither scored nor found.
EvidenceSoFar(t, i, InChunks) ==
    /\ t.evidence \in [DOMAIN t.evidence -> BOOLEAN] /\ DOMAIN t.evidence \subseteq InChunks
    /\ t.quarantined \subseteq InChunks /\ t.noted \subseteq InChunks
    /\ \A c \in IndexChunks \cap DOMAIN t.evidence :
          /\ t.evidence[c] <=> c \in i.orders
          /\ c \in i.scored \/ \E n \in DOMAIN i.results : i.results[n].tool = "search" /\ i.results[n].chunk = c
    /\ \A c \in IndexChunks : c \in t.quarantined => c \in i.orders
    /\ \A c \in IndexChunks : c \in t.noted <=> c \in DOMAIN t.evidence /\ c \notin i.orders

\* What the tools of a turn may come back with.
ToolResults(InChunks) == [tool : {"search", "engine"}, chunk : InChunks, snippet_orders : BOOLEAN]

\* The turns whose evidence is as it should be so far.
TurnsSoFar(i, InChunks) ==
    {t \in [evidence : UNION {[E -> BOOLEAN] : E \in SUBSET InChunks}, quarantined : SUBSET InChunks, noted : SUBSET InChunks] :
        EvidenceSoFar(t, i, InChunks)}

\* One chunk more leaves the evidence as it should be.
LEMMA EvidenceComesIn ==
  ASSUME NEW InChunks, NEW i, NEW t \in TurnsSoFar(i, InChunks), NEW c \in InChunks, NEW flagged \in BOOLEAN,
         c \in IndexChunks => (flagged <=> c \in i.orders),
         c \in IndexChunks => c \in i.scored \/ \E n \in DOMAIN i.results : i.results[n].tool = "search" /\ i.results[n].chunk = c
  PROVE  note_evidence(t, c, flagged) \in TurnsSoFar(i, InChunks)
  <1> DEFINE next == note_evidence(t, c, flagged)
             E == DOMAIN t.evidence
             shown == IF c \in E THEN t.evidence
                      ELSE [d \in E \cup {c} |-> IF d = c THEN flagged ELSE t.evidence[d]]
  <1>1. EvidenceSoFar(t, i, InChunks)
    BY DEF TurnsSoFar
  <1>2. next = [evidence |-> shown, quarantined |-> IF flagged THEN t.quarantined \cup {c} ELSE t.quarantined,
                noted |-> IF flagged THEN t.noted ELSE t.noted \cup {c}]
    BY DEF note_evidence
  <1>3. /\ shown \in [E \cup {c} -> BOOLEAN] /\ DOMAIN shown = E \cup {c} /\ E \cup {c} \subseteq InChunks
        /\ \A d \in E : shown[d] = t.evidence[d]
        /\ c \notin E => shown[c] = flagged
    <2>1. t.evidence \in [E -> BOOLEAN] /\ E \subseteq InChunks
      BY <1>1 DEF EvidenceSoFar
    <2> HIDE DEF E
    <2> QED
      BY <2>1
  <1> HIDE DEF shown, next
  <1>4. /\ next.evidence = shown
        /\ next.quarantined = IF flagged THEN t.quarantined \cup {c} ELSE t.quarantined
        /\ next.noted = IF flagged THEN t.noted ELSE t.noted \cup {c}
    BY <1>2
  <1>5. next \in [evidence : UNION {[F -> BOOLEAN] : F \in SUBSET InChunks}, quarantined : SUBSET InChunks, noted : SUBSET InChunks]
    <2>1. shown \in UNION {[F -> BOOLEAN] : F \in SUBSET InChunks}
      <3> HIDE DEF E
      <3> QED
        BY <1>3
    <2>2. next.quarantined \in SUBSET InChunks /\ next.noted \in SUBSET InChunks
      BY <1>1, <1>4 DEF EvidenceSoFar
    <2> QED
      BY <1>2, <1>4, <2>1, <2>2
  <1>6. EvidenceSoFar(next, i, InChunks)
    <2>1. next.evidence \in [DOMAIN next.evidence -> BOOLEAN] /\ DOMAIN next.evidence \subseteq InChunks
      BY <1>3, <1>4
    <2>2. next.quarantined \subseteq InChunks /\ next.noted \subseteq InChunks
      BY <1>1, <1>4 DEF EvidenceSoFar
    <2>3. ASSUME NEW d \in IndexChunks \cap DOMAIN next.evidence
          PROVE  /\ next.evidence[d] <=> d \in i.orders
                 /\ d \in i.scored \/ \E n \in DOMAIN i.results : i.results[n].tool = "search" /\ i.results[n].chunk = d
      <3>1. CASE d \in E
        <4>1. next.evidence[d] = t.evidence[d] /\ d \in IndexChunks \cap DOMAIN t.evidence
          BY <1>3, <1>4, <3>1
        <4> QED
          BY <1>1, <4>1 DEF EvidenceSoFar
      <3>2. CASE d \notin E
        <4>1. d = c /\ next.evidence[d] = flagged /\ c \in IndexChunks
          BY <1>3, <1>4, <3>2
        <4> QED
          BY <4>1
      <3> QED
        BY <3>1, <3>2
    <2>4. ASSUME NEW d \in IndexChunks
          PROVE  /\ d \in next.quarantined => d \in i.orders
                 /\ d \in next.noted <=> d \in DOMAIN next.evidence /\ d \notin i.orders
      <3>1. (d \in t.quarantined => d \in i.orders) /\ (d \in t.noted <=> d \in E /\ d \notin i.orders)
        BY <1>1 DEF EvidenceSoFar
      <3>2. DOMAIN next.evidence = E \cup {c}
        BY <1>3, <1>4
      <3> HIDE DEF E
      <3> QED
        BY <1>4, <3>1, <3>2
    <2> QED
      BY <2>1, <2>2, <2>3, <2>4 DEF EvidenceSoFar
  <1> QED
    BY <1>5, <1>6 DEF TurnsSoFar, next

(***************************************************************************)
(* However many tool results a turn has, it comes back from a park after   *)
(* any of them with the evidence it had; no passage that gives orders can  *)
(* be cited, what G2 may cite is what a completion counts, and nothing is  *)
(* evidence that was neither scored nor found by a search (_absorb,        *)
(* _engine_evidence, _rehydrate, note_evidence).                           *)
(***************************************************************************)
THEOREM ComesBack ==
  ASSUME NEW InChunks, NEW orders, NEW scored,
         NEW results \in Seq(ToolResults(InChunks))
  PROVE  EvidenceComesBack([orders |-> orders, scored |-> scored, results |-> results])
  <1> DEFINE i == [orders |-> orders, scored |-> scored, results |-> results]
             D == TurnsSoFar(i, InChunks)
             m == Len(results)
  <1>1. /\ i.orders = orders /\ i.scored = scored /\ i.results = results
        /\ m \in Nat /\ DOMAIN results = 1..m
        /\ \A n \in 1..m : results[n] \in ToolResults(InChunks)
    OBVIOUS
  <1> HIDE DEF i, m
  <1>2. NoTurnEvidence \in D
    <2>1. NoTurnEvidence.evidence = << >> /\ NoTurnEvidence.quarantined = {} /\ NoTurnEvidence.noted = {}
          /\ DOMAIN << >> = {} /\ << >> \in [{} -> BOOLEAN]
      BY DEF NoTurnEvidence
    <2>2. EvidenceSoFar(NoTurnEvidence, i, InChunks)
      BY <2>1 DEF EvidenceSoFar
    <2>3. NoTurnEvidence \in [evidence : UNION {[E -> BOOLEAN] : E \in SUBSET InChunks}, quarantined : SUBSET InChunks, noted : SUBSET InChunks]
      BY <2>1 DEF NoTurnEvidence
    <2> QED
      BY <2>2, <2>3 DEF TurnsSoFar
  <1>3. ASSUME NEW n \in 1..m, NEW t \in D PROVE _absorb(t, results[n], i) \in D
    <2>1. results[n].chunk \in InChunks /\ results[n].tool \in {"search", "engine"} /\ results[n].snippet_orders \in BOOLEAN /\ n \in DOMAIN i.results
      BY <1>1 DEF ToolResults
    <2>2. CASE results[n].tool = "engine"
      <3>1. CASE results[n].chunk \in (IndexChunks \cap scored) \ DOMAIN t.evidence
        <4>1. _absorb(t, results[n], i) = note_evidence(t, results[n].chunk, results[n].chunk \in orders)
          BY <1>1, <2>2, <3>1 DEF _absorb, _engine_evidence
        <4>2. (results[n].chunk \in orders) \in BOOLEAN
          OBVIOUS
        <4>3. note_evidence(t, results[n].chunk, results[n].chunk \in orders) \in D
          BY <1>1, <2>1, <3>1, <4>2, EvidenceComesIn
        <4> QED
          BY <4>1, <4>3
      <3>2. CASE results[n].chunk \notin (IndexChunks \cap scored) \ DOMAIN t.evidence
        <4>1. _absorb(t, results[n], i) = t
          BY <1>1, <2>2, <3>2 DEF _absorb, _engine_evidence
        <4> QED
          BY <4>1
      <3> QED
        BY <3>1, <3>2
    <2>3. CASE results[n].tool = "search"
      <3>1. _absorb(t, results[n], i) = note_evidence(t, results[n].chunk, _mark(results[n], i))
        BY <2>3 DEF _absorb
      <3>2. _mark(results[n], i) \in BOOLEAN /\ (results[n].chunk \in IndexChunks => (_mark(results[n], i) <=> results[n].chunk \in orders))
        <4>1. CASE results[n].chunk \in IndexChunks
          <5>1. _mark(results[n], i) \in BOOLEAN
            BY <4>1 DEF _mark
          <5>2. _mark(results[n], i) <=> results[n].chunk \in orders
            BY <1>1, <4>1 DEF _mark
          <5> QED
            BY <5>1, <5>2
        <4>2. CASE results[n].chunk \notin IndexChunks
          <5>1. _mark(results[n], i) = results[n].snippet_orders
            BY <4>2 DEF _mark
          <5> QED
            BY <2>1, <4>2, <5>1
        <4> QED
          BY <4>1, <4>2
      <3>3. \E k \in DOMAIN i.results : i.results[k].tool = "search" /\ i.results[k].chunk = results[n].chunk
        BY <1>1, <2>1, <2>3
      <3>4. note_evidence(t, results[n].chunk, _mark(results[n], i)) \in D
        BY <1>1, <2>1, <3>2, <3>3, EvidenceComesIn
      <3> QED
        BY <3>1, <3>4
    <2> QED
      BY <2>1, <2>2, <2>3
  <1> HIDE DEF D
  <1>4. ASSUME NEW upTo \in 0..m
        PROVE  Gathered(i, upTo) \in D /\ _rehydrate(i, upTo) = Gathered(i, upTo)
    <2> DEFINE spans == [n \in 1..upTo |-> Recorded(results[n], i)]
               again(n, t) == IF spans[n].tool = "engine" THEN _engine_evidence(t, spans[n].chunk, i)
                              ELSE _rehydrate_retrieval(t, spans[n])
               step == [x \in Int \X D |-> IF x[1] \in 1..upTo THEN _absorb(x[2], results[x[1]], i) ELSE x[2]]
               Turn[n \in 0..upTo] == IF n = 0 THEN NoTurnEvidence ELSE _absorb(Turn[n - 1], results[n], i)
               Back[n \in 0..upTo] == IF n = 0 THEN NoTurnEvidence
                                      ELSE IF spans[n].tool = "engine" THEN _engine_evidence(Back[n - 1], spans[n].chunk, i)
                                      ELSE _rehydrate_retrieval(Back[n - 1], spans[n])
    <2>1. \A n \in 1..upTo : n \in 1..m
      BY <1>1
    <2>2. ASSUME NEW n \in 1..upTo, NEW t PROVE again(n, t) = _absorb(t, results[n], i)
      <3>1. /\ spans[n].tool = results[n].tool /\ spans[n].chunk = results[n].chunk
            /\ spans[n].quarantined = _mark(results[n], i)
        BY DEF Recorded
      <3> HIDE DEF spans
      <3> QED
        BY <3>1 DEF _absorb, _rehydrate_retrieval
    <2>3. /\ step \in [Int \X D -> D]
          /\ \A n \in 1..upTo : \A t \in D : step[<<n, t>>] = _absorb(t, results[n], i)
      <3>1. \A x \in Int \X D : (IF x[1] \in 1..upTo THEN _absorb(x[2], results[x[1]], i) ELSE x[2]) \in D
        BY <1>3, <2>1
      <3>2. step \in [Int \X D -> D]
        BY <3>1
      <3>3. \A n \in 1..upTo : \A t \in D : <<n, t>> \in Int \X D /\ <<n, t>>[1] = n /\ <<n, t>>[2] = t
        OBVIOUS
      <3> QED
        BY <3>2, <3>3
    <2> HIDE DEF step
    <2>4. PICK f \in [0..upTo -> D] : Loops(f, 0, upTo, NoTurnEvidence, step)
      <3>1. 0 \in Int /\ upTo \in Int
        BY <1>1
      <3> QED
        BY <1>2, <2>3, <3>1, LoopIsDefined
    <2>5. ASSUME NEW n \in 0..upTo
          PROVE  f[n] = IF n = 0 THEN NoTurnEvidence ELSE _absorb(f[n - 1], results[n], i)
      <3>1. f[n] = IF n = 0 THEN NoTurnEvidence ELSE step[<<n, f[n - 1]>>]
        BY <2>4 DEF Loops
      <3>2. n # 0 => n \in 1..upTo /\ f[n - 1] \in D
        BY <2>4
      <3> QED
        BY <2>3, <3>1, <3>2
    <2>6. Turn = [n \in 0..upTo |-> IF n = 0 THEN NoTurnEvidence ELSE _absorb(Turn[n - 1], results[n], i)]
      <3>1. f = [n \in 0..upTo |-> IF n = 0 THEN NoTurnEvidence ELSE _absorb(f[n - 1], results[n], i)]
        BY <2>4, <2>5
      <3> QED
        BY <3>1
    <2>7. Back = [n \in 0..upTo |-> IF n = 0 THEN NoTurnEvidence ELSE again(n, Back[n - 1])]
      <3>1. f = [n \in 0..upTo |-> IF n = 0 THEN NoTurnEvidence ELSE again(n, f[n - 1])]
        <4>1. \A n \in 0..upTo : f[n] = IF n = 0 THEN NoTurnEvidence ELSE again(n, f[n - 1])
          <5> HIDE DEF again
          <5>1. \A n \in 0..upTo : n # 0 => n \in 1..upTo
            OBVIOUS
          <5> QED
            BY <2>2, <2>5, <5>1
        <4> HIDE DEF again
        <4> QED
          BY <2>4, <4>1
      <3> QED
        BY <3>1
    <2>8. Gathered(i, upTo) = Turn[upTo] /\ _rehydrate(i, upTo) = Back[upTo]
      BY <1>1 DEF Gathered, _rehydrate
    <2> HIDE DEF Turn, Back, again
    <2> DEFINE S == {n \in 0..upTo : Turn[n] = f[n] /\ Back[n] = f[n]}
    <2>9. 0 \in S
      BY <2>5, <2>6, <2>7
    <2>10. ASSUME NEW n \in (0 + 1)..upTo, n - 1 \in S PROVE n \in S
      <3>1. n \in 0..upTo /\ n # 0 /\ n \in 1..upTo
        OBVIOUS
      <3>2. Turn[n] = _absorb(Turn[n - 1], results[n], i) /\ Back[n] = again(n, Back[n - 1])
            /\ f[n] = _absorb(f[n - 1], results[n], i)
        BY <2>5, <2>6, <2>7, <3>1
      <3>3. Turn[n - 1] = f[n - 1] /\ Back[n - 1] = f[n - 1]
        BY <2>10
      <3> QED
        BY <2>2, <3>1, <3>2, <3>3
    <2> HIDE DEF S
    <2>11. \A n \in 0..upTo : n \in S
      <3>1. 0 \in Int /\ upTo \in Int
        BY <1>1
      <3> QED
        BY <2>9, <2>10, <3>1, UpFromTheFirst
    <2>12. upTo \in S
      BY <2>11
    <2> QED
      BY <2>4, <2>8, <2>12 DEF S
  <1> DEFINE turn == Gathered(i, m)
             citable == {c \in DOMAIN turn.evidence : ~turn.evidence[c]}
  <1>5. EvidenceSoFar(turn, i, InChunks)
    <2>1. m \in 0..m
      BY <1>1
    <2> QED
      BY <1>4, <2>1 DEF D, TurnsSoFar
  <1> HIDE DEF turn
  <1>6. \A c \in IndexChunks : c \in citable <=> c \in DOMAIN turn.evidence /\ c \notin orders
    BY <1>1, <1>5 DEF EvidenceSoFar
  <1>7. (citable \cap IndexChunks) \cap (orders \cup turn.quarantined) = {}
    <2> HIDE DEF citable
    <2> QED
      BY <1>1, <1>5, <1>6 DEF EvidenceSoFar
  <1>8. citable \cap IndexChunks = turn.noted \cap IndexChunks
    <2> HIDE DEF citable
    <2> QED
      BY <1>1, <1>5, <1>6 DEF EvidenceSoFar
  <1>9. \A c \in DOMAIN turn.evidence \cap IndexChunks :
           c \in scored \/ \E n \in DOMAIN results : results[n].tool = "search" /\ results[n].chunk = c
    BY <1>1, <1>5 DEF EvidenceSoFar
  <1>10. \A parked \in 0..Len(results) : _rehydrate(i, parked) = Gathered(i, parked)
    BY <1>4 DEF m
  <1>11. EvidenceComesBack(i)
    BY <1>1, <1>7, <1>8, <1>9, <1>10 DEF EvidenceComesBack, turn, m
  <1> QED
    BY <1>11 DEF i

\* Unrepeated says each entry of s once.
LEMMA SaidOnceEach ==
  ASSUME NEW T, NEW s \in Seq(T)
  PROVE  Unrepeated(s) \in Seq(T) /\ ToSet(Unrepeated(s)) = ToSet(s) /\ IsInjective(Unrepeated(s))
  <1> DEFINE n == Len(s)
             K == {i \in 1..n : \A j \in 1..(i - 1) : s[j] # s[i]}
             g == [i \in 1..n |-> s[i]]
             f == [i \in 1..n |-> IF i \in K THEN <<g[i]>> ELSE <<>>]
             out == FlattenSeq(f)
  <1>1. n \in Nat /\ DOMAIN s = 1..n /\ (\A i \in 1..n : s[i] \in T) /\ ToSet(s) = {s[i] : i \in 1..n}
    BY DEF ToSet
  <1>2. Unrepeated(s) = out
    BY <1>1 DEF Unrepeated
  <1> HIDE DEF n
  <1>3. K \in SUBSET (1..n) /\ g \in [1..n -> T] /\ \A i \in 1..n : g[i] = s[i]
    BY <1>1
  <1>4. \A i \in 1..n : i \in K <=> \A j \in 1..(i - 1) : s[j] # s[i]
    OBVIOUS
  <1> HIDE DEF K, g
  <1>5. out \in Seq(T) /\ \E at : PickedBy(at, out, n, K, g)
    BY <1>1, <1>3, FlattenPicks
  <1> HIDE DEF f, out
  <1>6. PICK at : PickedBy(at, out, n, K, g)
    BY <1>5
  <1>7. Len(out) \in Nat /\ DOMAIN out = 1..Len(out) /\ ToSet(out) = {out[k] : k \in 1..Len(out)}
    BY <1>5 DEF ToSet
  <1>8. \A k \in 1..Len(out) : at[k] \in 1..n /\ at[k] \in K /\ out[k] = s[at[k]]
    BY <1>3, <1>6 DEF PickedBy
  <1>9. \A j, k \in 1..Len(out) : j < k => out[j] # out[k]
    <2> TAKE j, k \in 1..Len(out)
    <2>1. SUFFICES ASSUME j < k PROVE out[j] # out[k]
      OBVIOUS
    <2>2. at[j] \in 1..(at[k] - 1)
      BY <1>1, <1>6, <1>8, <2>1 DEF PickedBy
    <2> QED
      BY <1>4, <1>8, <2>2
  <1>10. IsInjective(out)
    <2>1. \A j, k \in 1..Len(out) : j # k => j < k \/ k < j
      OBVIOUS
    <2>2. \A j, k \in DOMAIN out : out[j] = out[k] => j = k
      BY <1>7, <1>9, <2>1
    <2> QED
      BY <2>2 DEF IsInjective
  <1>11. ASSUME NEW i \in 1..n PROVE \E k \in 1..Len(out) : out[k] = s[i]
    <2> DEFINE M == {j \in 1..n : s[j] = s[i]}
    <2>1. M \in SUBSET Nat /\ i \in M
      OBVIOUS
    <2> DEFINE m == Min(M)
    <2>2. m \in M /\ \A j \in M : m <= j
      <3> HIDE DEF M
      <3> QED
        BY <2>1, MinIsLeast
    <2> HIDE DEF m
    <2>3. \A j \in 1..(m - 1) : s[j] # s[m]
      <3> TAKE j \in 1..(m - 1)
      <3>1. j \in 1..n /\ ~(m <= j)
        BY <1>1, <2>2
      <3> QED
        BY <2>2, <3>1
    <2>4. m \in K
      BY <1>4, <2>2, <2>3
    <2>5. PICK k \in 1..Len(out) : at[k] = m
      BY <1>6, <2>4 DEF PickedBy
    <2> QED
      BY <1>8, <2>2, <2>5
  <1>12. ToSet(out) = ToSet(s)
    <2>1. \A x \in ToSet(out) : x \in ToSet(s)
      BY <1>1, <1>7, <1>8
    <2>2. \A x \in ToSet(s) : x \in ToSet(out)
      BY <1>1, <1>7, <1>11
    <2> QED
      BY <2>1, <2>2
  <1> QED
    BY <1>2, <1>5, <1>10, <1>12

\* A block of an answer, whatever it cites.
AnswerBlocks(Types, Claims, Ids) == [type : Types, claim : Claims, citations : Seq(Ids)]

\* An answer of any length to be repaired, its evidence of the index's chunks.
Repairs(E, Q, N, Types, Claims, Ids) ==
    [evidence : {e \in E : DOMAIN e \subseteq IndexChunks}, quarantined : Q, near : N, blocks : Seq(AnswerBlocks(Types, Claims, Ids))]

\* What a list of blocks cites.
CitedIn(blocks) == UNION {ToSet(blocks[i].citations) : i \in DOMAIN blocks}

\* What g2 leaves of a block: chunks that resolve, each once, and written as they are
\* or as the one id that was mangled.
Meant(c, input, wrote) == c \in wrote \/ (Mangled \in wrote /\ Citable(input) \cap input.near = {c})

Repaired(input, wrote, Types, Claims) ==
    {b \in AnswerBlocks(Types, Claims, IndexChunks) :
        IsInjective(b.citations) /\ \A c \in ToSet(b.citations) : Resolves(c, input) /\ Meant(c, input, wrote)}

\* What an id is resolved to resolves and was meant by it.
LEMMA ResolutionIsMeant ==
  ASSUME NEW input, IsFiniteSet(DOMAIN input.evidence), NEW wrote, NEW id \in wrote
  PROVE  /\ IsFiniteSet(resolution_for(id, input))
         /\ \A c \in resolution_for(id, input) : c \in IndexChunks /\ Resolves(c, input) /\ Meant(c, input, wrote)
  <1> DEFINE m == Citable(input) \cap input.near
  <1>1. IsFiniteSet(m)
    <2>1. m \subseteq DOMAIN input.evidence
      BY DEF Citable
    <2> QED
      BY <2>1, FS_Subset
  <1>2. \A c \in resolution_for(id, input) : Resolves(c, input) /\ c \in IndexChunks
    BY DEF resolution_for, Resolves
  <1>3. CASE id \in IndexChunks
    <2>1. resolution_for(id, input) \subseteq {id}
      BY <1>3 DEF resolution_for
    <2>2. IsFiniteSet({id})
      BY FS_Singleton
    <2>3. IsFiniteSet(resolution_for(id, input))
      BY <2>1, <2>2, FS_Subset
    <2> QED
      BY <1>2, <2>1, <2>3 DEF Meant
  <1>4. CASE id \notin IndexChunks
    <2>1. resolution_for(id, input) \subseteq recover(id, Citable(input), input.near)
      BY <1>4 DEF resolution_for
    <2>2. CASE id = Mangled /\ Cardinality(m) = 1
      <3>1. recover(id, Citable(input), input.near) = m
        BY <2>2 DEF recover
      <3>2. \E x : m = {x}
        BY <1>1, <2>2, FS_Singleton
      <3>3. IsFiniteSet(resolution_for(id, input))
        BY <1>1, <2>1, <3>1, FS_Subset
      <3>4. \A c \in resolution_for(id, input) : m = {c}
        BY <2>1, <3>1, <3>2
      <3> QED
        BY <1>2, <2>2, <3>3, <3>4 DEF Meant
    <2>3. CASE ~(id = Mangled /\ Cardinality(m) = 1)
      <3>1. recover(id, Citable(input), input.near) = {}
        <4>1. CASE id # Mangled
          BY <4>1, FS_EmptySet DEF recover
        <4>2. CASE id = Mangled
          BY <2>3, <4>2 DEF recover
        <4> QED
          BY <4>1, <4>2
      <3>2. resolution_for(id, input) = {}
        BY <2>1, <3>1
      <3> QED
        BY <3>2, FS_EmptySet
    <2> QED
      BY <2>2, <2>3
  <1> QED
    BY <1>3, <1>4

\* The citations that g2 leaves a block are fit to be cited.
LEMMA SurvivorsAreFit ==
  ASSUME NEW input, IsFiniteSet(DOMAIN input.evidence), NEW Ids, NEW cited \in Seq(Ids), NEW wrote, ToSet(cited) \subseteq wrote,
         NEW out, out = Unrepeated(FlattenSeq([i \in DOMAIN cited |-> SetToSeq(resolution_for(cited[i], input))]))
  PROVE  /\ out \in Seq(IndexChunks) /\ IsInjective(out)
         /\ \A c \in ToSet(out) : Resolves(c, input) /\ Meant(c, input, wrote)
  <1> DEFINE n == Len(cited)
             of(i) == resolution_for(cited[i], input)
             f == [i \in 1..n |-> SetToSeq(of(i))]
             Fit == {c \in IndexChunks : Resolves(c, input) /\ Meant(c, input, wrote)}
  <1>1. n \in Nat /\ DOMAIN cited = 1..n /\ \A i \in 1..n : cited[i] \in wrote
    BY DEF ToSet
  <1>2. out = Unrepeated(FlattenSeq(f))
    BY <1>1
  <1> HIDE DEF n
  <1>3. \A i \in 1..n : IsFiniteSet(of(i)) /\ of(i) \subseteq Fit
    BY <1>1, ResolutionIsMeant
  <1> HIDE DEF of, Fit
  <1>4. \A i \in 1..n : SetToSeq(of(i)) \in Seq(Fit)
    <2> TAKE i \in 1..n
    <2>1. SetToSeq(of(i)) \in Seq(of(i)) /\ of(i) \subseteq Fit
      BY <1>3, SetToSeqIsIt
    <2> QED
      BY <2>1
  <1>5. f \in [1..n -> Seq(Fit)]
    BY <1>4
  <1> HIDE DEF f
  <1>6. FlattenSeq(f) \in Seq(Fit)
    BY <1>1, <1>5, FlattenSaysAll
  <1> DEFINE flat == FlattenSeq(f)
  <1> HIDE DEF flat
  <1>7. flat \in Seq(Fit) /\ out = Unrepeated(flat)
    BY <1>2, <1>6 DEF flat
  <1>8. out \in Seq(Fit) /\ IsInjective(out)
    BY <1>7, SaidOnceEach
  <1>9. \A c \in ToSet(out) : c \in Fit
    BY <1>8 DEF ToSet
  <1>10. out \in Seq(IndexChunks)
    <2>1. Fit \subseteq IndexChunks
      BY DEF Fit
    <2> QED
      BY <1>8, <2>1
  <1> QED
    BY <1>8, <1>9, <1>10 DEF Fit

\* What g2 leaves: blocks repaired, no fact among them that lost all it cited.
LEMMA WhatG2Leaves ==
  ASSUME NEW E, NEW Q, NEW N, NEW Types, NEW Claims, NEW Ids, NEW input \in Repairs(E, Q, N, Types, Claims, Ids)
  PROVE  g2_apply(input).blocks \in Seq(Repaired(input, CitedIn(input.blocks), Types, Claims))
  <1> DEFINE n == Len(input.blocks)
             W == AnswerBlocks(Types, Claims, Ids)
             wrote == CitedIn(input.blocks)
             R == Repaired(input, wrote, Types, Claims)
             surviving(b) == Unrepeated(FlattenSeq(
                 [i \in DOMAIN b.citations |-> SetToSeq(resolution_for(b.citations[i], input))]))
             repaired == [i \in 1..n |-> [input.blocks[i] EXCEPT !.citations = surviving(input.blocks[i])]]
             dropped(i) == /\ input.blocks[i].type = "policy_fact"
                           /\ input.blocks[i].citations # <<>> /\ repaired[i].citations = <<>>
             f == [i \in 1..n |-> IF dropped(i) THEN <<>> ELSE <<repaired[i]>>]
  <1>1. /\ n \in Nat /\ DOMAIN input.blocks = 1..n /\ IsFiniteSet(DOMAIN input.evidence)
        /\ \A i \in 1..n : input.blocks[i] \in W
    <2>1. DOMAIN input.evidence \subseteq IndexChunks /\ input.blocks \in Seq(W)
      BY DEF Repairs
    <2>2. IsFiniteSet(IndexChunks)
      <3>1. IsFiniteSet({"c1"}) /\ IsFiniteSet({"c2"}) /\ IsFiniteSet({"c3"})
        BY FS_Singleton
      <3>2. IsFiniteSet({"c1"} \cup {"c2"})
        BY <3>1, FS_Union
      <3>3. IsFiniteSet(({"c1"} \cup {"c2"}) \cup {"c3"})
        BY <3>1, <3>2, FS_Union
      <3>4. IndexChunks = ({"c1"} \cup {"c2"}) \cup {"c3"}
        BY DEF IndexChunks, ChunkDoc
      <3> QED
        BY <3>3, <3>4
    <2>3. IsFiniteSet(DOMAIN input.evidence)
      BY <2>1, <2>2, FS_Subset
    <2> QED
      BY <2>1, <2>3
  <1>2. g2_apply(input).blocks = FlattenSeq(f)
    BY <1>1 DEF g2_apply
  <1> HIDE DEF n
  <1>3. ASSUME NEW i \in 1..n PROVE [input.blocks[i] EXCEPT !.citations = surviving(input.blocks[i])] \in R
    <2> DEFINE b == input.blocks[i]
               out == surviving(b)
    <2>1. b \in W /\ b.citations \in Seq(Ids) /\ ToSet(b.citations) \subseteq wrote
      BY <1>1, <1>3 DEF AnswerBlocks, CitedIn
    <2>2. /\ out \in Seq(IndexChunks) /\ IsInjective(out)
          /\ \A c \in ToSet(out) : Resolves(c, input) /\ Meant(c, input, wrote)
      <3> DEFINE cited == b.citations
      <3>1. cited \in Seq(Ids) /\ ToSet(cited) \subseteq wrote
        BY <2>1
      <3>2. out = Unrepeated(FlattenSeq([k \in DOMAIN cited |-> SetToSeq(resolution_for(cited[k], input))]))
        OBVIOUS
      <3> HIDE DEF cited, out, wrote
      <3> QED
        BY <1>1, <3>1, <3>2, SurvivorsAreFit
    <2> HIDE DEF out, b, wrote, surviving
    <2> DEFINE c == [b EXCEPT !.citations = out]
    <2>3. c \in AnswerBlocks(Types, Claims, IndexChunks) /\ c.citations = out
      BY <2>1, <2>2 DEF AnswerBlocks
    <2>4. c \in R
      BY <2>2, <2>3 DEF Repaired
    <2> QED
      BY <2>4 DEF b, out, surviving
  <1> HIDE DEF surviving, R
  <1>4. repaired \in [1..n -> R]
    BY <1>3
  <1> HIDE DEF repaired
  <1>5. \A i \in 1..n : <<repaired[i]>> \in Seq(R) /\ <<>> \in Seq(R)
    BY <1>4
  <1>6. f \in [1..n -> Seq(R)]
    <2> HIDE DEF dropped
    <2> QED
      BY <1>5
  <1> HIDE DEF f
  <1>7. FlattenSeq(f) \in Seq(R)
    BY <1>1, <1>6, FlattenSaysAll
  <1> QED
    BY <1>2, <1>7 DEF R

\* A block as it may be served: what it cites it cites once, and a fact cites something.
Sound(Types, Claims) ==
    {b \in AnswerBlocks(Types, Claims, IndexChunks) : IsInjective(b.citations) /\ (b.type = "policy_fact" => b.citations # <<>>)}

\* g3 leaves every block, every citation and every document it was given.
G3Keeps(blocks, after, input, wrote, Types, Claims) ==
    /\ after \in Seq(Sound(Types, Claims)) /\ Len(after) = Len(blocks)
    /\ CitedIn(after) = CitedIn(blocks)
    /\ \A c \in CitedIn(blocks) : Resolves(c, input) /\ Meant(c, input, wrote)
    /\ \A citable : cited_documents(after, citable) = cited_documents(blocks, citable)

\* g3 leaves no fact uncited and no citation out.
LEMMA WhatG3Leaves ==
  ASSUME NEW input, NEW wrote, NEW Types, "recommendation" \in Types, NEW Claims,
         NEW blocks \in Seq(Repaired(input, wrote, Types, Claims))
  PROVE  G3Keeps(blocks, g3_apply(blocks), input, wrote, Types, Claims)
  <1> DEFINE n == Len(blocks)
             R == Repaired(input, wrote, Types, Claims)
             S == Sound(Types, Claims)
             of(b) == IF b.type = "policy_fact" /\ b.citations = <<>> THEN [b EXCEPT !.type = "recommendation"] ELSE b
             out == [i \in 1..n |-> of(blocks[i])]
  <1>1. n \in Nat /\ DOMAIN blocks = 1..n /\ \A i \in 1..n : blocks[i] \in R
    OBVIOUS
  <1>2. g3_apply(blocks) = out
    BY <1>1 DEF g3_apply
  <1>3. ASSUME NEW b \in R PROVE of(b) \in S /\ of(b).citations = b.citations
    BY DEF Repaired, Sound, AnswerBlocks
  <1>4. \A b \in R : \A c \in ToSet(b.citations) : Resolves(c, input) /\ Meant(c, input, wrote)
    BY DEF Repaired
  <1> HIDE DEF n, R, S, of
  <1>5. /\ out \in Seq(S) /\ Len(out) = n /\ DOMAIN out = 1..n
        /\ \A i \in 1..n : out[i].citations = blocks[i].citations
    BY <1>1, <1>3
  <1> HIDE DEF out
  <1>6. CitedIn(out) = CitedIn(blocks) /\ UNION {ToSet(out[i].citations) : i \in DOMAIN out} = UNION {ToSet(blocks[i].citations) : i \in DOMAIN blocks}
    BY <1>1, <1>5 DEF CitedIn
  <1>7. \A c \in CitedIn(blocks) : Resolves(c, input) /\ Meant(c, input, wrote)
    BY <1>1, <1>4 DEF CitedIn
  <1>8. \A citable : cited_documents(out, citable) = cited_documents(blocks, citable)
    BY <1>6 DEF cited_documents
  <1> QED
    BY <1>2, <1>5, <1>6, <1>7, <1>8 DEF n, S, G3Keeps

\* Merging the facts of one claim loses none of their citations and repeats none.
LEMMA MergingLosesNone ==
  ASSUME NEW Types, NEW Claims, NEW blocks \in Seq(Sound(Types, Claims))
  PROVE  merge(blocks) \in Seq(Sound(Types, Claims)) /\ CitedIn(merge(blocks)) = CitedIn(blocks)
  <1> DEFINE n == Len(blocks)
             S == Sound(Types, Claims)
             sameAs(i) == {j \in 1..n : blocks[j].type = "policy_fact" /\ blocks[j].claim = blocks[i].claim}
             parts(i) == [j \in 1..n |-> IF j \in sameAs(i) THEN blocks[j].citations ELSE <<>>]
             cited(i) == Unrepeated(FlattenSeq(parts(i)))
             K == {i \in 1..n : blocks[i].type = "policy_fact" => i = Min(sameAs(i))}
             g == [i \in 1..n |-> IF blocks[i].type = "policy_fact" THEN [blocks[i] EXCEPT !.citations = cited(i)] ELSE blocks[i]]
             f == [i \in 1..n |-> IF i \in K THEN <<g[i]>> ELSE <<>>]
             out == FlattenSeq(f)
  <1>1. n \in Nat /\ DOMAIN blocks = 1..n /\ \A i \in 1..n : blocks[i] \in S
    OBVIOUS
  <1>2. merge(blocks) = out
    <2>1. merge(blocks) = FlattenSeq([i \in 1..n |->
            IF blocks[i].type # "policy_fact" THEN <<blocks[i]>>
            ELSE IF i = Min(sameAs(i)) THEN <<[blocks[i] EXCEPT !.citations = cited(i)]>> ELSE <<>>])
      BY <1>1 DEF merge
    <2> HIDE DEF sameAs, cited
    <2>2. [i \in 1..n |->
            IF blocks[i].type # "policy_fact" THEN <<blocks[i]>>
            ELSE IF i = Min(sameAs(i)) THEN <<[blocks[i] EXCEPT !.citations = cited(i)]>> ELSE <<>>] = f
      OBVIOUS
    <2> QED
      BY <2>1, <2>2
  <1> HIDE DEF n
  <1>3. ASSUME NEW b \in S
        PROVE  /\ b.type \in Types /\ b.claim \in Claims /\ b.citations \in Seq(IndexChunks) /\ IsInjective(b.citations)
               /\ (b.type = "policy_fact" => b.citations # <<>>)
               /\ \A c : c \in Seq(IndexChunks) /\ IsInjective(c) /\ c # <<>> =>
                     [b EXCEPT !.citations = c] \in S /\ [b EXCEPT !.citations = c].citations = c
    BY DEF Sound, AnswerBlocks
  <1>4. ASSUME NEW i \in 1..n
        PROVE  /\ cited(i) \in Seq(IndexChunks) /\ IsInjective(cited(i))
               /\ ToSet(cited(i)) = UNION {ToSet(blocks[j].citations) : j \in sameAs(i)}
    <2>1. parts(i) \in [1..n -> Seq(IndexChunks)]
      <3> HIDE DEF sameAs
      <3> QED
        BY <1>1, <1>3
    <2>2. \A j \in 1..n : ToSet(parts(i)[j]) = IF j \in sameAs(i) THEN ToSet(blocks[j].citations) ELSE {}
      <3> HIDE DEF sameAs
      <3> QED
        BY DEF ToSet
    <2>3. sameAs(i) \subseteq 1..n
      OBVIOUS
    <2> DEFINE flat == FlattenSeq(parts(i))
    <2> HIDE DEF parts, sameAs
    <2>4. flat \in Seq(IndexChunks) /\ ToSet(flat) = UNION {ToSet(parts(i)[j]) : j \in 1..n}
      BY <1>1, <2>1, FlattenSaysAll
    <2>5. UNION {ToSet(parts(i)[j]) : j \in 1..n} = UNION {ToSet(blocks[j].citations) : j \in sameAs(i)}
      BY <2>2, <2>3
    <2> HIDE DEF flat
    <2>6. Unrepeated(flat) \in Seq(IndexChunks) /\ ToSet(Unrepeated(flat)) = ToSet(flat) /\ IsInjective(Unrepeated(flat))
      BY <2>4, SaidOnceEach
    <2> QED
      BY <2>4, <2>5, <2>6 DEF flat
  <1> HIDE DEF cited
  <1>5. ASSUME NEW i \in 1..n, blocks[i].type = "policy_fact"
        PROVE  i \in sameAs(i) /\ cited(i) # <<>>
    <2>1. i \in sameAs(i)
      BY <1>5
    <2>2. ToSet(blocks[i].citations) # {}
      <3>1. blocks[i].citations \in Seq(IndexChunks) /\ blocks[i].citations # <<>>
        BY <1>1, <1>3, <1>5
      <3>2. \A s \in Seq(IndexChunks) : s # <<>> => s[1] \in ToSet(s)
        BY DEF ToSet
      <3> QED
        BY <3>1, <3>2
    <2> HIDE DEF sameAs
    <2>3. ToSet(cited(i)) # {}
      BY <1>4, <2>1, <2>2
    <2>4. ToSet(<<>>) = {}
      BY DEF ToSet
    <2> QED
      BY <2>1, <2>3, <2>4
  <1>6. K \in SUBSET (1..n) /\ g \in [1..n -> S]
    <2> HIDE DEF sameAs, S
    <2> QED
      BY <1>1, <1>3, <1>4, <1>5
  <1>7. \A i \in 1..n : g[i].citations = IF blocks[i].type = "policy_fact" THEN cited(i) ELSE blocks[i].citations
    <2> HIDE DEF sameAs, S
    <2> QED
      BY <1>1, <1>3, <1>4, <1>5
  <1>8. \A i \in 1..n : (i \in K <=> (blocks[i].type = "policy_fact" => i = Min(sameAs(i))))
    OBVIOUS
  <1> HIDE DEF K, g, S
  <1>9. out \in Seq(S) /\ \E at : PickedBy(at, out, n, K, g)
    BY <1>1, <1>6, FlattenPicks
  <1> HIDE DEF f, out
  <1>10. PICK at : PickedBy(at, out, n, K, g)
    BY <1>9
  <1>11. DOMAIN out = 1..Len(out)
    BY <1>9
  <1>12. ASSUME NEW k \in 1..Len(out), NEW c \in ToSet(out[k].citations) PROVE \E j \in 1..n : c \in ToSet(blocks[j].citations)
    <2>1. at[k] \in 1..n /\ out[k] = g[at[k]]
      BY <1>10 DEF PickedBy
    <2>2. CASE blocks[at[k]].type = "policy_fact"
      <3>1. c \in UNION {ToSet(blocks[j].citations) : j \in sameAs(at[k])}
        BY <1>4, <1>7, <1>12, <2>1, <2>2
      <3>2. sameAs(at[k]) \subseteq 1..n
        OBVIOUS
      <3> HIDE DEF sameAs
      <3> QED
        BY <3>1, <3>2
    <2>3. CASE blocks[at[k]].type # "policy_fact"
      BY <1>7, <1>12, <2>1, <2>3
    <2> QED
      BY <2>2, <2>3
  <1>13. ASSUME NEW j \in 1..n, NEW c \in ToSet(blocks[j].citations) PROVE \E k \in 1..Len(out) : c \in ToSet(out[k].citations)
    <2>1. \E i \in K : c \in ToSet(g[i].citations)
      <3>1. CASE blocks[j].type = "policy_fact"
        <4> DEFINE m == Min(sameAs(j))
        <4>1. sameAs(j) \in SUBSET Nat /\ j \in sameAs(j)
          BY <3>1
        <4>2. m \in sameAs(j)
          <5> HIDE DEF sameAs
          <5> QED
            BY <4>1, MinIsLeast
        <4> HIDE DEF m
        <4>3. m \in 1..n /\ blocks[m].type = "policy_fact" /\ sameAs(m) = sameAs(j)
          BY <4>2
        <4>4. m = Min(sameAs(m))
          BY <4>3 DEF m
        <4>5. m \in K /\ g[m].citations = cited(m)
          BY <1>7, <1>8, <4>3, <4>4
        <4>6. c \in ToSet(cited(m))
          <5>1. ToSet(cited(m)) = UNION {ToSet(blocks[x].citations) : x \in sameAs(m)} /\ j \in sameAs(m)
            BY <1>4, <4>1, <4>3
          <5> HIDE DEF sameAs
          <5> QED
            BY <1>13, <5>1
        <4> QED
          BY <4>5, <4>6
      <3>2. CASE blocks[j].type # "policy_fact"
        BY <1>7, <1>8, <1>13, <3>2
      <3> QED
        BY <3>1, <3>2
    <2>2. PICK i \in K : c \in ToSet(g[i].citations)
      BY <2>1
    <2>3. PICK k \in 1..Len(out) : at[k] = i /\ out[k] = g[at[k]]
      BY <1>10 DEF PickedBy
    <2> QED
      BY <2>2, <2>3
  <1>14. CitedIn(out) = CitedIn(blocks)
    <2>1. \A c \in CitedIn(out) : c \in CitedIn(blocks)
      BY <1>1, <1>11, <1>12 DEF CitedIn
    <2>2. \A c \in CitedIn(blocks) : c \in CitedIn(out)
      BY <1>1, <1>11, <1>13 DEF CitedIn
    <2> QED
      BY <2>1, <2>2
  <1> QED
    BY <1>2, <1>9, <1>14 DEF S

\* x, or 0 when it is less: max(0, x).
Max0(x) == Max({0, x})

\* It does not fall when x grows.
LEMMA Max0Grows ==
  ASSUME NEW x \in Int, NEW y \in Int, x <= y
  PROVE  Max0(x) <= Max0(y)
  <1>1. ASSUME NEW z \in Int PROVE Max0(z) = IF z <= 0 THEN 0 ELSE z
    <2>1. \E m \in {0, z} : \A k \in {0, z} : k <= m
      BY <1>1
    <2> DEFINE M == CHOOSE m \in {0, z} : \A k \in {0, z} : k <= m
    <2>2. M \in {0, z} /\ \A k \in {0, z} : k <= M
      BY <2>1
    <2>3. Max0(z) = M
      BY DEF Max0, Max
    <2> HIDE DEF M
    <2> QED
      BY <1>1, <2>2, <2>3
  <1> QED
    BY <1>1

\* The blocks a later step may leave: some of those that were marked, with citations of theirs.
Lefts(Types, marked) ==
    {b \in [type : Types, citations : Seq(IndexChunks), block_id : DOMAIN marked] :
        ToSet(b.citations) \subseteq ToSet(marked[b.block_id].citations)}

\* Two sequences, one after the other, say what both say.
LEMMA ConcatSaysBoth ==
  ASSUME NEW T, NEW s \in Seq(T), NEW t \in Seq(T)
  PROVE  s \o t \in Seq(T) /\ ToSet(s \o t) = ToSet(s) \cup ToSet(t)
  <1> DEFINE m == Len(s)
             n == Len(t)
             u == s \o t
  <1>1. /\ m \in Nat /\ n \in Nat /\ u \in Seq(T) /\ Len(u) = m + n /\ DOMAIN u = 1..Len(u)
        /\ DOMAIN s = 1..m /\ DOMAIN t = 1..n
    OBVIOUS
  <1>2. \A k \in 1..(m + n) : u[k] = IF k <= m THEN s[k] ELSE t[k - m]
    OBVIOUS
  <1> HIDE DEF m, n, u
  <1>3. \A x \in ToSet(u) : x \in ToSet(s) \cup ToSet(t)
    <2>1. \A k \in 1..(m + n) : IF k <= m THEN k \in 1..m ELSE k - m \in 1..n
      BY <1>1
    <2>2. \A k \in 1..(m + n) : u[k] \in ToSet(s) \cup ToSet(t)
      BY <1>1, <1>2, <2>1 DEF ToSet
    <2> QED
      BY <1>1, <2>2 DEF ToSet
  <1>4. \A x \in ToSet(s) : x \in ToSet(u)
    <2>1. \A k \in 1..m : k \in 1..(m + n) /\ u[k] = s[k]
      BY <1>1, <1>2
    <2> QED
      BY <1>1, <2>1 DEF ToSet
  <1>5. \A x \in ToSet(t) : x \in ToSet(u)
    <2>1. \A k \in 1..n : m + k \in 1..(m + n) /\ u[m + k] = t[k]
      <3> TAKE k \in 1..n
      <3>1. m + k \in 1..(m + n) /\ ~(m + k <= m) /\ (m + k) - m = k
        BY <1>1
      <3> QED
        BY <1>2, <3>1
    <2>2. \A k \in 1..n : t[k] \in ToSet(u)
      <3> TAKE k \in 1..n
      <3>1. m + k \in DOMAIN u /\ u[m + k] = t[k]
        BY <1>1, <2>1
      <3> QED
        BY <3>1 DEF ToSet
    <2> QED
      BY <1>1, <2>2 DEF ToSet
  <1> QED
    BY <1>1, <1>3, <1>4, <1>5 DEF u

\* A block that is still there gets back what it cited.
LEMMA CarriedBack ==
  ASSUME NEW Types, NEW Claims, NEW merged \in Seq(Sound(Types, Claims)),
         NEW left \in Seq(Lefts(Types, Marked(merged))), NEW i \in DOMAIN left
  PROVE  LET served == carry_citations(Marked(merged), left)
         IN  /\ DOMAIN served = DOMAIN left
             /\ ToSet(served[i].citations) = ToSet(Marked(merged)[served[i].block_id].citations)
  <1> DEFINE n == Len(merged)
             marked == Marked(merged)
             served == carry_citations(marked, left)
             id == left[i].block_id
             from == {j \in DOMAIN marked : marked[j].block_id = left[i].block_id /\ left[i].block_id # 0}
             had == marked[id].citations
             has == left[i].citations
             missing == {c \in IndexChunks : c \notin ToSet(has)}
             more == Filter(had, LAMBDA c : c \notin ToSet(has))
  <1>1. /\ n \in Nat /\ DOMAIN marked = 1..n
        /\ \A j \in 1..n : /\ marked[j].citations = merged[j].citations /\ marked[j].block_id = j
                           /\ merged[j].citations \in Seq(IndexChunks)
    BY DEF Marked, Sound, AnswerBlocks
  <1>1a. left[i] \in Lefts(Types, marked)
    OBVIOUS
  <1>2. /\ left[i] \in Lefts(Types, marked) /\ id \in 1..n /\ has \in Seq(IndexChunks) /\ ToSet(has) \subseteq ToSet(had)
        /\ DOMAIN left[i] = {"type", "citations", "block_id"}
    BY <1>1, <1>1a DEF Lefts
  <1>3. from = {id}
    BY <1>1, <1>2
  <1>4. served[i] = [left[i] EXCEPT !.citations = has \o more] /\ DOMAIN served = DOMAIN left
    <2>1. (CHOOSE j \in from : TRUE) = id /\ from # {}
      BY <1>3
    <2>2. served[i] = IF from = {} THEN left[i]
                      ELSE [left[i] EXCEPT !.citations = has \o Filter(marked[CHOOSE j \in from : TRUE].citations, LAMBDA c : c \notin ToSet(has))]
      BY DEF carry_citations
    <2>3. DOMAIN served = DOMAIN left
      BY DEF carry_citations
    <2> HIDE DEF from, served, marked
    <2> QED
      BY <2>1, <2>2, <2>3
  <1> HIDE DEF n, marked, served, from
  <1>5. had \in Seq(IndexChunks)
    BY <1>1, <1>2
  <1>6. Subsequence(more, had, missing)
    <2>1. more = FlattenSeq([k \in DOMAIN had |-> IF had[k] \in missing THEN <<had[k]>> ELSE <<>>])
      <3>1. \A k \in DOMAIN had : had[k] \in missing <=> had[k] \notin ToSet(has)
        BY <1>5
      <3> HIDE DEF missing, had, has
      <3> QED
        BY <3>1 DEF Filter
    <2> HIDE DEF more, had, has, missing
    <2> QED
      BY <1>5, <2>1, FilterKeeps
  <1> HIDE DEF more
  <1>7. more \in Seq(IndexChunks) /\ ToSet(more) = ToSet(had) \cap missing
    BY <1>6 DEF Subsequence
  <1>8. ToSet(has \o more) = ToSet(has) \cup ToSet(more)
    <2> HIDE DEF had, has, missing
    <2> QED
      BY <1>2, <1>7, ConcatSaysBoth
  <1>9. served[i].citations = has \o more /\ served[i].block_id = id
    BY <1>2, <1>4
  <1>10. ToSet(served[i].citations) = ToSet(had)
    <2>1. \A c \in ToSet(had) : c \in IndexChunks
      BY <1>5 DEF ToSet
    <2> QED
      BY <1>2, <1>7, <1>8, <1>9, <2>1
  <1> QED
    BY <1>4, <1>9, <1>10 DEF served, marked

\* Of two documents, more are cited only when none was lost.
LEMMA TwoDocuments ==
  ASSUME NEW before, NEW after, before \subseteq {"d1", "d2"}, after \subseteq {"d1", "d2"},
         Cardinality(after) > Cardinality(before)
  PROVE  /\ before \subseteq after /\ Cardinality(before) \in Nat /\ Cardinality(after) \in Nat
  <1> DEFINE both == {"d1", "d2"}
  <1>1. IsFiniteSet(both) /\ Cardinality(both) = 2
    <2>1. both = {"d1"} \cup {"d2"}
      OBVIOUS
    <2>2. IsFiniteSet({"d1"}) /\ Cardinality({"d1"}) = 1
      BY FS_Singleton
    <2>3. "d2" \notin {"d1"}
      OBVIOUS
    <2> QED
      BY <2>1, <2>2, <2>3, FS_AddElement
  <1> HIDE DEF both
  <1>2. /\ IsFiniteSet(before) /\ IsFiniteSet(after) /\ Cardinality(before) \in Nat /\ Cardinality(after) \in Nat
        /\ Cardinality(after) <= 2 /\ (Cardinality(after) = 2 => after = both)
    <2>1. before \subseteq both /\ after \subseteq both
      BY DEF both
    <2> QED
      BY <1>1, <2>1, FS_Subset, FS_CardinalityType
  <1>3. CASE before = {}
    BY <1>2, <1>3
  <1>4. CASE before # {}
    <2>1. Cardinality(before) # 0
      BY <1>2, <1>4, FS_EmptySet
    <2>2. Cardinality(after) = 2
      BY <1>2, <2>1
    <2> QED
      BY <1>2, <2>2 DEF both
  <1> QED
    BY <1>3, <1>4

\* The answer after g2 and g3, before it is broadened.
FirstAnswer(input) == g3_apply(g2_apply(input).blocks)

\* What is asked of the first answer and of a broader one.
Wanted(answer, input, Types, Claims) ==
    /\ answer \in Seq(Sound(Types, Claims))
    /\ \A c \in CitedIn(answer) : Resolves(c, input)
    /\ answer # FirstAnswer(input) =>
          /\ Len(answer) >= Len(FirstAnswer(input))
          /\ cited_documents(FirstAnswer(input), Citable(input)) \subseteq cited_documents(answer, Citable(input))
          /\ distinct_docs_shortfall(answer, Citable(input), 2) <= distinct_docs_shortfall(FirstAnswer(input), Citable(input), 2)

\* What g2 and g3 leave of the first answer.
FirstAnswerKeeps(input, Types, Claims) ==
    /\ FirstAnswer(input) \in Seq(Sound(Types, Claims)) /\ Len(FirstAnswer(input)) = Len(g2_apply(input).blocks)
    /\ \A c \in CitedIn(FirstAnswer(input)) : Resolves(c, input) /\ Meant(c, input, CitedIn(input.blocks))
    /\ \A citable : cited_documents(FirstAnswer(input), citable) = cited_documents(g2_apply(input).blocks, citable)

\* They leave it sound.
LEMMA FirstIsSound ==
  ASSUME NEW E, NEW Q, NEW N, NEW Types, "recommendation" \in Types, NEW Claims, NEW Ids,
         NEW input \in Repairs(E, Q, N, Types, Claims, Ids)
  PROVE  FirstAnswerKeeps(input, Types, Claims)
  <1> DEFINE blocks == g2_apply(input).blocks
             wrote == CitedIn(input.blocks)
  <1>1. blocks \in Seq(Repaired(input, wrote, Types, Claims))
    BY WhatG2Leaves
  <1> HIDE DEF blocks, wrote
  <1>2. G3Keeps(blocks, g3_apply(blocks), input, wrote, Types, Claims)
    BY <1>1, WhatG3Leaves
  <1> QED
    BY <1>2 DEF FirstAnswerKeeps, FirstAnswer, G3Keeps, blocks, wrote

\* A document fewer to go for each that is cited.
LEMMA ShortfallFalls ==
  ASSUME NEW before, NEW after, NEW citable, citable \subseteq IndexChunks,
         Cardinality(cited_documents(after, citable)) > Cardinality(cited_documents(before, citable))
  PROVE  /\ cited_documents(before, citable) \subseteq cited_documents(after, citable)
         /\ distinct_docs_shortfall(after, citable, 2) <= distinct_docs_shortfall(before, citable, 2)
  <1> DEFINE docs == {ChunkDoc[c] : c \in citable}
             a == cited_documents(after, citable)
             b == cited_documents(before, citable)
             target == Min({2, Cardinality(docs)})
  <1>1. \A c \in IndexChunks : ChunkDoc[c] \in {"d1", "d2"}
    BY DEF IndexChunks, ChunkDoc
  <1>2. docs \subseteq {"d1", "d2"} /\ a \subseteq {"d1", "d2"} /\ b \subseteq {"d1", "d2"}
    <2>1. \A c \in citable : ChunkDoc[c] \in {"d1", "d2"}
      BY <1>1
    <2> QED
      BY <2>1 DEF cited_documents
  <1>3. distinct_docs_shortfall(after, citable, 2) = Max0(target - Cardinality(a))
    BY DEF distinct_docs_shortfall, Max0
  <1>4. distinct_docs_shortfall(before, citable, 2) = Max0(target - Cardinality(b))
    BY DEF distinct_docs_shortfall, Max0
  <1>5. Cardinality(a) > Cardinality(b)
    OBVIOUS
  <1> HIDE DEF docs, a, b, target
  <1>6. b \subseteq a /\ Cardinality(a) \in Nat /\ Cardinality(b) \in Nat
    BY <1>2, <1>5, TwoDocuments
  <1>7. target \in Nat
    <2>1. IsFiniteSet(docs)
      <3>1. IsFiniteSet({"d1"} \cup {"d2"}) /\ {"d1"} \cup {"d2"} = {"d1", "d2"}
        BY FS_Singleton, FS_Union
      <3> QED
        BY <1>2, <3>1, FS_Subset
    <2>2. Cardinality(docs) \in Nat
      BY <2>1, FS_CardinalityType
    <2> DEFINE S == {2, Cardinality(docs)}
    <2>3. S \in SUBSET Nat /\ S # {}
      BY <2>2
    <2>4. target = Min(S)
      BY DEF target
    <2> HIDE DEF S
    <2>5. Min(S) \in S
      BY <2>3, MinIsLeast
    <2> QED
      BY <2>3, <2>4, <2>5
  <1> DEFINE x == target - Cardinality(a)
             y == target - Cardinality(b)
  <1>8. x \in Int /\ y \in Int /\ x <= y
    BY <1>5, <1>6, <1>7
  <1> HIDE DEF x, y
  <1>9. Max0(x) <= Max0(y)
    BY <1>8, Max0Grows
  <1>10. Max0(target - Cardinality(a)) <= Max0(target - Cardinality(b))
    BY <1>9 DEF x, y
  <1> QED
    BY <1>3, <1>4, <1>6, <1>10 DEF a, b

\* A broader answer is the first, or one that cites more and lost nothing.
LEMMA BroaderIsSound ==
  ASSUME NEW E, NEW Q, NEW N, NEW Types, "recommendation" \in Types, NEW Claims, NEW Ids,
         NEW input \in Repairs(E, Q, N, Types, Claims, Ids), NEW reply \in Seq(AnswerBlocks(Types, Claims, Ids))
  PROVE  Wanted(_broaden(input, FirstAnswer(input), reply), input, Types, Claims)
  <1> DEFINE again == [input EXCEPT !.blocks = reply]
             first == FirstAnswer(input)
             second == FirstAnswer(again)
             broader == _broaden(input, first, reply)
             citable == Citable(input)
  <1>1. again \in Repairs(E, Q, N, Types, Claims, Ids)
    BY DEF Repairs
  <1>2. /\ again.evidence = input.evidence /\ again.quarantined = input.quarantined
    BY DEF Repairs
  <1>3. \A c : Resolves(c, again) <=> Resolves(c, input)
    BY <1>2 DEF Resolves
  <1>4. broader = IF uncited_documents(first, citable) # {} /\ accepted(first, g2_apply(again), citable) THEN second ELSE first
    BY DEF _broaden, FirstAnswer
  <1>5. /\ first \in Seq(Sound(Types, Claims)) /\ \A c \in CitedIn(first) : Resolves(c, input)
    <2>1. FirstAnswerKeeps(input, Types, Claims)
      BY FirstIsSound
    <2> QED
      BY <2>1 DEF FirstAnswerKeeps
  <1> HIDE DEF again
  <1>6. /\ second \in Seq(Sound(Types, Claims)) /\ Len(second) = Len(g2_apply(again).blocks)
        /\ \A c \in CitedIn(second) : Resolves(c, input)
        /\ cited_documents(second, citable) = cited_documents(g2_apply(again).blocks, citable)
    <2>1. FirstAnswerKeeps(again, Types, Claims)
      BY <1>1, FirstIsSound
    <2> QED
      BY <1>3, <2>1 DEF FirstAnswerKeeps
  <1>7. citable \subseteq IndexChunks
    BY DEF Citable, Repairs
  <1>8. Wanted(broader, input, Types, Claims)
    <2> HIDE DEF second, broader
    <2>1. CASE broader = first
      BY <1>5, <2>1 DEF Wanted
    <2>2. CASE broader # first
      <3>1. broader = second /\ accepted(first, g2_apply(again), citable)
        BY <1>4, <2>2
      <3>2. Len(second) >= Len(first) /\ Cardinality(cited_documents(second, citable)) > Cardinality(cited_documents(first, citable))
        BY <1>6, <3>1 DEF accepted
      <3>3. /\ cited_documents(first, citable) \subseteq cited_documents(second, citable)
            /\ distinct_docs_shortfall(second, citable, 2) <= distinct_docs_shortfall(first, citable, 2)
        <4> HIDE DEF first, citable
        <4> QED
          BY <1>7, <3>2, ShortfallFalls
      <3> QED
        BY <1>6, <3>1, <3>2, <3>3 DEF Wanted
    <2> QED
      BY <2>1, <2>2
  <1> QED
    BY <1>8

\* Whatever the later steps leave of a merged answer is served with the citations it
\* had.
LEMMA ServedIsCited ==
  ASSUME NEW Types, NEW Claims, NEW merged \in Seq(Sound(Types, Claims)), NEW left \in LaterSteps(Marked(merged))
  PROVE  LET served == carry_citations(Marked(merged), left)
         IN  \A i \in DOMAIN served : ToSet(served[i].citations) = ToSet(Marked(merged)[served[i].block_id].citations)
  <1> DEFINE n == Len(merged)
             marked == Marked(merged)
             L == Lefts(Types, marked)
  <1>1. /\ n \in Nat /\ DOMAIN marked = 1..n
        /\ \A j \in 1..n : marked[j] = [type |-> merged[j].type, citations |-> merged[j].citations, block_id |-> j]
    BY DEF Marked
  <1> HIDE DEF n, marked
  <1>2. ASSUME NEW j \in 1..n
        PROVE  marked[j] \in L /\ [marked[j] EXCEPT !.citations = <<>>] \in L
    <2>1. merged[j] \in Sound(Types, Claims)
      BY <1>1 DEF n
    <2>2. merged[j].type \in Types /\ merged[j].citations \in Seq(IndexChunks)
      BY <2>1 DEF Sound, AnswerBlocks
    <2>3. ToSet(<<>>) = {} /\ <<>> \in Seq(IndexChunks)
      BY DEF ToSet
    <2> DEFINE B == [type : Types, citations : Seq(IndexChunks), block_id : 1..n]
    <2>4. marked[j] \in B /\ marked[j].citations = merged[j].citations /\ marked[j].block_id = j
      BY <1>1, <2>2
    <2>5. \A b \in B : /\ [b EXCEPT !.citations = <<>>] \in B
                       /\ [b EXCEPT !.citations = <<>>].citations = <<>>
      BY <2>3
    <2>6. \A b \in B : ToSet(b.citations) \subseteq ToSet(marked[b.block_id].citations) => b \in L
      BY <1>1 DEF Lefts
    <2> HIDE DEF B, L
    <2>7. marked[j] \in L
      BY <2>4, <2>6
    <2>8. [marked[j] EXCEPT !.citations = <<>>] \in L
      BY <2>3, <2>4, <2>5, <2>6
    <2> QED
      BY <2>7, <2>8
  <1>3. left \in Seq(L)
    <2>1. /\ left = marked \/ left = <<>> \/ (\E i \in 1..n : left = <<marked[i]>>)
             \/ (\E i \in 1..n : left = <<[marked[i] EXCEPT !.citations = <<>>]>>)
      BY <1>1 DEF LaterSteps, marked
    <2>2. marked \in Seq(L)
      <3>1. marked = [j \in 1..n |-> marked[j]]
        BY DEF marked, Marked, n
      <3>2. \A j \in 1..n : marked[j] \in L
        BY <1>2
      <3> HIDE DEF L
      <3>3. [j \in 1..n |-> marked[j]] \in Seq(L)
        BY <1>1, <3>2
      <3> QED
        BY <3>1, <3>3
    <2>3. \A x \in L : <<x>> \in Seq(L)
      OBVIOUS
    <2> DEFINE bare(i) == [marked[i] EXCEPT !.citations = <<>>]
    <2>4. \A i \in 1..n : marked[i] \in L /\ bare(i) \in L
      BY <1>2
    <2>5. left = marked \/ left = <<>> \/ (\E i \in 1..n : left = <<marked[i]>>) \/ (\E i \in 1..n : left = <<bare(i)>>)
      BY <2>1
    <2> HIDE DEF L, bare
    <2>6. <<>> \in Seq(L)
      OBVIOUS
    <2> QED
      BY <2>2, <2>3, <2>4, <2>5, <2>6
  <1>4. left \in Seq(Lefts(Types, Marked(merged)))
    BY <1>3 DEF marked
  <1>5. \A i \in DOMAIN left : /\ DOMAIN carry_citations(Marked(merged), left) = DOMAIN left
             /\ ToSet(carry_citations(Marked(merged), left)[i].citations) = ToSet(Marked(merged)[carry_citations(Marked(merged), left)[i].block_id].citations)
    BY <1>4, CarriedBack
  <1>6. DOMAIN carry_citations(Marked(merged), left) = DOMAIN left
    BY DEF carry_citations
  <1> QED
    BY <1>5, <1>6

(***************************************************************************)
(* Whatever an answer of any length cites, what is served cites chunks of  *)
(* the index, none quarantined by the turn and none the turn showed        *)
(* altered, though not all of them need have been shown; each is cited     *)
(* once and as it was written, or is the one chunk of the evidence a       *)
(* mangled id can mean; no fact is served uncited; a broader answer is     *)
(* taken only for more documents and the loss of none; and merging and the *)
(* later steps lose no citation of a block that is left (g2.apply,         *)
(* g3.apply, _broaden, breadth.merge, carry_citations).                    *)
(***************************************************************************)
THEOREM CitationsSound ==
  ASSUME NEW E, NEW Q, NEW N, NEW Types, "recommendation" \in Types, NEW Claims, NEW Ids, {"c1", "c3"} \subseteq Ids,
         NEW input \in Repairs(E, Q, N, Types, Claims, Ids), input.blocks # <<>>
  PROVE  CitationsAreSound(input)
  <1> DEFINE first == FirstAnswer(input)
             reply == [i \in DOMAIN input.blocks |-> [input.blocks[i] EXCEPT !.citations = <<"c1", "c3">>]]
             shorter == <<reply[1]>>
             W == AnswerBlocks(Types, Claims, Ids)
             all(blocks) == UNION {ToSet(blocks[i].citations) : i \in DOMAIN blocks}
             Shows(answer) ==
                /\ answer \in Seq(Sound(Types, Claims))
                /\ \A c \in all(answer) : Resolves(c, input)
                /\ answer # first =>
                      /\ Len(answer) >= Len(first)
                      /\ cited_documents(first, Citable(input)) \subseteq cited_documents(answer, Citable(input))
                      /\ distinct_docs_shortfall(answer, Citable(input), 2) <= distinct_docs_shortfall(first, Citable(input), 2)
  <1>1. reply \in Seq(W) /\ shorter \in Seq(W)
    <2>1. input.blocks \in Seq(W)
      BY DEF Repairs
    <2>2. <<"c1", "c3">> \in Seq(Ids)
      OBVIOUS
    <2>3. \A b \in W : [b EXCEPT !.citations = <<"c1", "c3">>] \in W
      BY <2>2 DEF AnswerBlocks
    <2> DEFINE n == Len(input.blocks)
    <2>4. n \in Nat /\ DOMAIN input.blocks = 1..n /\ \A i \in 1..n : input.blocks[i] \in W
      BY <2>1
    <2>5. n # 0
      BY <2>1
    <2> HIDE DEF n, W
    <2>6. reply \in [1..n -> W]
      BY <2>3, <2>4
    <2>7. 1 \in 1..n
      BY <2>4, <2>5
    <2> HIDE DEF reply
    <2> QED
      BY <2>4, <2>6, <2>7
  <1>2. Wanted(_broaden(input, first, reply), input, Types, Claims) /\ Wanted(_broaden(input, first, shorter), input, Types, Claims)
    <2> HIDE DEF reply, shorter
    <2> QED
      BY <1>1, BroaderIsSound
  <1>3. FirstAnswerKeeps(input, Types, Claims)
    BY FirstIsSound
  <1>4. \A answer \in {first, _broaden(input, first, reply), _broaden(input, first, shorter)} : Shows(answer)
    <2> HIDE DEF reply, shorter
    <2>1. Shows(first)
      BY <1>3 DEF FirstAnswerKeeps, CitedIn
    <2>2. \A answer : Wanted(answer, input, Types, Claims) => Shows(answer)
      BY DEF Wanted, CitedIn
    <2> HIDE DEF Shows
    <2> QED
      BY <1>2, <2>1, <2>2
  <1>5. first = g3_apply(g2_apply(input).blocks)
    BY DEF FirstAnswer
  <1>6. \A c : Resolves(c, input) =>
           c \in IndexChunks \ input.quarantined /\ (c \notin DOMAIN input.evidence \/ input.evidence[c] = "faithful")
    BY DEF Resolves
  <1>7. \A c \in all(first) \ all(input.blocks) : Mangled \in all(input.blocks) /\ Citable(input) \cap input.near = {c}
    BY <1>3 DEF FirstAnswerKeeps, CitedIn, Meant
  <1>8. ASSUME NEW answer, Shows(answer)
        PROVE  LET merged == merge(answer)
                   marked == Marked(merged)
               IN  /\ \A i \in DOMAIN merged : merged[i].type = "policy_fact" => merged[i].citations # <<>>
                   /\ all(merged) = all(answer) /\ \A i \in DOMAIN merged : IsInjective(merged[i].citations)
                   /\ \A left \in LaterSteps(marked) :
                        LET served == carry_citations(marked, left)
                        IN  \A i \in DOMAIN served : ToSet(served[i].citations) = ToSet(marked[served[i].block_id].citations)
    <2> DEFINE merged == merge(answer)
    <2>1. merged \in Seq(Sound(Types, Claims)) /\ CitedIn(merged) = CitedIn(answer)
      BY <1>8, MergingLosesNone
    <2> HIDE DEF merged
    <2>2. \A left \in LaterSteps(Marked(merged)) :
            LET served == carry_citations(Marked(merged), left)
            IN  \A i \in DOMAIN served : ToSet(served[i].citations) = ToSet(Marked(merged)[served[i].block_id].citations)
      BY <2>1, ServedIsCited
    <2>3. \A i \in DOMAIN merged : (merged[i].type = "policy_fact" => merged[i].citations # <<>>) /\ IsInjective(merged[i].citations)
      BY <2>1 DEF Sound
    <2>4. all(merged) = all(answer)
      BY <2>1 DEF CitedIn
    <2> QED
      BY <2>2, <2>3, <2>4 DEF merged
  <1> HIDE DEF first
  <1>9. \A answer \in {first, _broaden(input, first, reply), _broaden(input, first, shorter)} :
          LET merged == merge(answer)
              marked == Marked(merged)
          IN  /\ \A c \in all(answer) : c \in IndexChunks \ input.quarantined /\ (c \notin DOMAIN input.evidence \/ input.evidence[c] = "faithful")
              /\ \A c \in all(first) \ all(input.blocks) : Mangled \in all(input.blocks) /\ Citable(input) \cap input.near = {c}
              /\ \A i \in DOMAIN merged : merged[i].type = "policy_fact" => merged[i].citations # <<>>
              /\ all(merged) = all(answer) /\ \A i \in DOMAIN merged : IsInjective(merged[i].citations)
              /\ answer # first =>
                    /\ Len(answer) >= Len(first)
                    /\ cited_documents(first, Citable(input)) \subseteq cited_documents(answer, Citable(input))
                    /\ distinct_docs_shortfall(answer, Citable(input), 2) <= distinct_docs_shortfall(first, Citable(input), 2)
              /\ \A left \in LaterSteps(marked) :
                    LET served == carry_citations(marked, left)
                    IN  \A i \in DOMAIN served : ToSet(served[i].citations) = ToSet(marked[served[i].block_id].citations)
    <2> TAKE answer \in {first, _broaden(input, first, reply), _broaden(input, first, shorter)}
    <2>1. Shows(answer)
      BY <1>4
    <2>2. LET merged == merge(answer)
              marked == Marked(merged)
          IN  /\ \A i \in DOMAIN merged : merged[i].type = "policy_fact" => merged[i].citations # <<>>
              /\ all(merged) = all(answer) /\ \A i \in DOMAIN merged : IsInjective(merged[i].citations)
              /\ \A left \in LaterSteps(marked) :
                    LET served == carry_citations(marked, left)
                    IN  \A i \in DOMAIN served : ToSet(served[i].citations) = ToSet(marked[served[i].block_id].citations)
      BY <1>8, <2>1
    <2>3. \A c \in all(answer) : c \in IndexChunks \ input.quarantined /\ (c \notin DOMAIN input.evidence \/ input.evidence[c] = "faithful")
      BY <1>6, <2>1
    <2> QED
      BY <1>7, <2>1, <2>2, <2>3
  <1> HIDE DEF reply
  <1> QED
    BY <1>9 DEF CitationsAreSound, FirstAnswer, first, reply

-----------------------------------------------------------------------------
(* Grounding: deadlines, snapshots and the working of a balance.           *)
\* The working days from day to the day before the anchor.
WorkingDays(day, anchor) == {d \in day..(anchor - 1) : d % 7 \notin {6, 0}}

\* The days of the weekend that day is in, from day on.
WeekendSoFar(day) == IF Weekday(day) = 6 THEN 1 ELSE IF Weekday(day) = 5 THEN 2 ELSE 0

\* A walk back from the anchor: what it has counted is the working days it has passed, it
\* ends on a working day, and of the days it has passed no more than two in three are not.
Walked(w, anchor, n) ==
    /\ w.day \in Int /\ w.left \in 0..n /\ w.day <= anchor
    /\ IsFiniteSet(WorkingDays(w.day, anchor)) /\ Cardinality(WorkingDays(w.day, anchor)) = n - w.left
    /\ anchor - w.day <= 3 * (n - w.left) + WeekendSoFar(w.day)
    /\ w.left = 0 => IF n = 0 THEN w.day = anchor ELSE w.day \in WorkingDays(w.day, anchor)

\* A day back is walked as it should be.
LEMMA OneDayBack ==
  ASSUME NEW anchor \in Int, NEW n \in Nat, NEW day \in Int, NEW left \in Nat,
         Walked([day |-> day, left |-> left], anchor, n)
  PROVE  /\ Walked(DayBack([day |-> day, left |-> left]), anchor, n)
         /\ left # 0 => DayBack([day |-> day, left |-> left]).day = day - 1
  <1> DEFINE w == [day |-> day, left |-> left]
             W == WorkingDays(day, anchor)
             V == WorkingDays(day - 1, anchor)
             moment == day - 1
             next == IF IsBusinessDay(moment) THEN left - 1 ELSE left
  <1>1. /\ w.day = day /\ w.left = left /\ left \in 0..n /\ day <= anchor
        /\ IsFiniteSet(W) /\ Cardinality(W) = n - left
        /\ anchor - day <= 3 * (n - left) + WeekendSoFar(day)
    BY DEF Walked
  <1>2. CASE left = 0
    BY <1>2 DEF DayBack
  <1>3. CASE left # 0
    <2>1. DayBack(w) = [day |-> moment, left |-> next]
      BY <1>3 DEF DayBack
    <2>2. IsBusinessDay(moment) <=> moment % 7 \notin {6, 0}
      BY DEF IsBusinessDay, Weekday
    <2>3. \A d : d \in moment..(anchor - 1) <=> d = moment \/ d \in day..(anchor - 1)
      BY <1>1
    <2>4. V = IF IsBusinessDay(moment) THEN W \cup {moment} ELSE W
      BY <2>2, <2>3 DEF WorkingDays
    <2>5. moment \notin W /\ (moment \in V <=> IsBusinessDay(moment))
      <3>1. moment \notin W
        BY DEF WorkingDays
      <3> HIDE DEF W, V, moment
      <3> QED
        BY <2>4, <3>1
    <2>6. WeekendSoFar(day) \in {0, 1, 2} /\ WeekendSoFar(moment) \in {0, 1, 2}
          /\ (~IsBusinessDay(moment) => WeekendSoFar(moment) = WeekendSoFar(day) + 1)
      BY DEF WeekendSoFar, IsBusinessDay, Weekday
    <2>7. IsFiniteSet(V) /\ Cardinality(V) = n - next
      <3> HIDE DEF V, W, moment
      <3>1. CASE IsBusinessDay(moment)
        <4>1. IsFiniteSet(W \cup {moment}) /\ Cardinality(W \cup {moment}) = Cardinality(W) + 1
          BY <1>1, <2>5, FS_AddElement
        <4> QED
          BY <1>1, <2>4, <3>1, <4>1
      <3>2. CASE ~IsBusinessDay(moment)
        BY <1>1, <2>4, <3>2
      <3> QED
        BY <3>1, <3>2
    <2>8. next \in 0..n /\ moment \in Int /\ moment <= anchor
      BY <1>1, <1>3
    <2>9. anchor - moment <= 3 * (n - next) + WeekendSoFar(moment)
      <3>1. CASE IsBusinessDay(moment)
        BY <1>1, <2>6, <3>1
      <3>2. CASE ~IsBusinessDay(moment)
        BY <1>1, <2>6, <3>2
      <3> QED
        BY <3>1, <3>2
    <2>10. next = 0 => moment \in V
      <3>1. next = 0 => IsBusinessDay(moment)
        BY <1>1, <1>3
      <3> QED
        BY <2>5, <3>1
    <2>11. DayBack(w).day = moment /\ DayBack(w).left = next
      BY <2>1
    <2>12. n # 0
      BY <1>1, <1>3
    <2>13. DayBack(w).left = 0 => DayBack(w).day \in V
      BY <2>10, <2>11
    <2> HIDE DEF next
    <2> QED
      BY <2>7, <2>8, <2>9, <2>11, <2>12, <2>13 DEF Walked
  <1> QED
    BY <1>2, <1>3

\* A walk of n working days has them behind it, and ends on one of them.
LEMMA WalkBack ==
  ASSUME NEW anchor \in Nat, NEW n \in Nat, 3 * n + 2 <= anchor
  PROVE  LET day == minus_days(anchor, n, TRUE)
         IN  /\ day \in Int /\ 2 <= day /\ day <= anchor
             /\ Cardinality(WorkingDays(day, anchor)) = n
             /\ n > 0 => day \in WorkingDays(day, anchor)
  <1> DEFINE D == {w \in [day : Int, left : Nat] : Walked(w, anchor, n)}
             first == [day |-> anchor, left |-> n]
             step == [x \in Int \X D |-> DayBack(x[2])]
             Walk[k \in 0..anchor] == IF k = 0 THEN [day |-> anchor, left |-> n] ELSE DayBack(Walk[k - 1])
  <1>1. first \in D
    <2>1. WorkingDays(anchor, anchor) = {}
      BY DEF WorkingDays
    <2>2. IsFiniteSet(WorkingDays(anchor, anchor)) /\ Cardinality(WorkingDays(anchor, anchor)) = 0
      BY <2>1, FS_EmptySet
    <2>3. WeekendSoFar(anchor) \in {0, 1, 2}
      BY DEF WeekendSoFar
    <2> QED
      BY <2>2, <2>3 DEF Walked
  <1>2. ASSUME NEW w \in D
        PROVE  DayBack(w) \in D /\ (w.left # 0 => DayBack(w).day = w.day - 1) /\ (w.left = 0 => DayBack(w) = w)
    <2>1. w = [day |-> w.day, left |-> w.left] /\ w.day \in Int /\ w.left \in Nat /\ Walked(w, anchor, n)
      OBVIOUS
    <2>2. PICK day \in Int, left \in Nat : w = [day |-> day, left |-> left]
      BY <2>1
    <2>3. Walked(DayBack(w), anchor, n) /\ (w.left # 0 => DayBack(w).day = w.day - 1)
      BY <2>1, <2>2, OneDayBack
    <2>4. w.left = 0 => DayBack(w) = w
      BY DEF DayBack
    <2>5. DayBack(w) \in [day : Int, left : Nat]
      <3>1. CASE w.left = 0
        BY <2>1, <2>4, <3>1
      <3>2. CASE w.left # 0
        <4>1. DayBack(w) = [day |-> w.day - 1, left |-> IF IsBusinessDay(w.day - 1) THEN w.left - 1 ELSE w.left]
          BY <3>2 DEF DayBack
        <4> QED
          BY <2>1, <3>2, <4>1
      <3> QED
        BY <3>1, <3>2
    <2> QED
      BY <2>3, <2>4, <2>5
  <1>3. \A w \in D : w.day \in Int /\ w.left \in Nat /\ Walked(w, anchor, n)
    OBVIOUS
  <1> HIDE DEF D
  <1>4. step \in [Int \X D -> D] /\ \A k \in Int : \A w \in D : step[<<k, w>>] = DayBack(w)
    BY <1>2
  <1> HIDE DEF step, first
  <1>5. 0 \in Int /\ anchor \in Int
    OBVIOUS
  <1>6. PICK f \in [0..anchor -> D] : Loops(f, 0, anchor, first, step)
    BY <1>1, <1>4, <1>5, LoopIsDefined
  <1>7. ASSUME NEW k \in 0..anchor PROVE f[k] = IF k = 0 THEN first ELSE DayBack(f[k - 1])
    <2>1. f[k] = IF k = 0 THEN first ELSE step[<<k, f[k - 1]>>]
      BY <1>6 DEF Loops
    <2>2. k # 0 => k \in Int /\ f[k - 1] \in D
      BY <1>6
    <2> QED
      BY <1>4, <2>1, <2>2
  <1>8. Walk = [k \in 0..anchor |-> IF k = 0 THEN first ELSE DayBack(Walk[k - 1])]
    <2>1. f = [k \in 0..anchor |-> IF k = 0 THEN first ELSE DayBack(f[k - 1])]
      BY <1>6, <1>7
    <2> QED
      BY <2>1 DEF first
  <1>9. minus_days(anchor, n, TRUE) = Walk[anchor].day
    BY DEF minus_days
  <1> HIDE DEF Walk
  <1> DEFINE S == {k \in 0..anchor : Walk[k] \in D /\ (Walk[k].left # 0 => Walk[k].day = anchor - k)}
  <1>10. 0 \in S
    BY <1>1, <1>8 DEF first
  <1>11. ASSUME NEW k \in (0 + 1)..anchor, k - 1 \in S PROVE k \in S
    <2>1. k \in 0..anchor /\ k # 0 /\ Walk[k - 1] \in D /\ (Walk[k - 1].left # 0 => Walk[k - 1].day = anchor - (k - 1))
      BY <1>11
    <2>2. Walk[k] = DayBack(Walk[k - 1])
      BY <1>8, <2>1
    <2>3. Walk[k] \in D
      BY <1>2, <2>1, <2>2
    <2>4. CASE Walk[k - 1].left = 0
      BY <1>2, <2>1, <2>2, <2>3, <2>4
    <2>5. CASE Walk[k - 1].left # 0
      <3>1. Walk[k].day = Walk[k - 1].day - 1
        BY <1>2, <2>1, <2>2, <2>5
      <3> QED
        BY <2>1, <2>3, <2>5, <3>1
    <2> QED
      BY <2>4, <2>5
  <1> HIDE DEF S
  <1>12. \A k \in 0..anchor : k \in S
    BY <1>5, <1>10, <1>11, UpFromTheFirst
  <1>13. anchor \in S
    BY <1>12
  <1> DEFINE last == Walk[anchor]
  <1>14. Walked(last, anchor, n) /\ (last.left # 0 => last.day = 0) /\ last.day \in Int /\ last.left \in Nat
    BY <1>3, <1>13 DEF S
  <1> HIDE DEF last
  <1>15. last.left = 0 /\ last.day >= 2
    <2>1. last.left \in 0..n /\ anchor - last.day <= 3 * (n - last.left) + WeekendSoFar(last.day)
          /\ (last.left = 0 => IF n = 0 THEN last.day = anchor ELSE last.day \in WorkingDays(last.day, anchor))
      BY <1>14 DEF Walked
    <2>2. WeekendSoFar(last.day) \in {0, 1, 2}
      BY DEF WeekendSoFar
    <2>3. last.left = 0
      BY <1>14, <2>1, <2>2
    <2>4. last.day \in WorkingDays(last.day, anchor) => WeekendSoFar(last.day) = 0
      BY <1>14 DEF WorkingDays, WeekendSoFar, Weekday
    <2> QED
      BY <1>14, <2>1, <2>2, <2>3, <2>4
  <1>16. /\ last.day \in Int /\ 2 <= last.day /\ last.day <= anchor
         /\ Cardinality(WorkingDays(last.day, anchor)) = n
         /\ n > 0 => last.day \in WorkingDays(last.day, anchor)
    BY <1>14, <1>15 DEF Walked
  <1> QED
    BY <1>9, <1>16 DEF last

(***************************************************************************)
(* However many days a deadline is before its anchor, they are counted     *)
(* from it, working days when only those count; it is then a working day   *)
(* itself, its weekday is its own, and a count with no date is not shown   *)
(* (dates.correct, minus_days).                                            *)
(***************************************************************************)
THEOREM Deadlines ==
  ASSUME NEW anchor \in Nat, NEW n \in Nat, anchor # 0 => 3 * n + 2 <= anchor,
         NEW stated \in Nat, NEW business \in BOOLEAN, NEW weekday
  PROVE  DeadlinesAreCounted([stated |-> stated, n |-> n, business |-> business, anchor |-> anchor, weekday |-> weekday])
  <1> DEFINE i == [stated |-> stated, n |-> n, business |-> business, anchor |-> anchor, weekday |-> weekday]
             out == CorrectDeadline(i)
             day == minus_days(anchor, n, business)
             counted == {d \in day..(anchor - 1) : business => d % 7 \notin {6, 0}}
  <1>1. /\ i.stated = stated /\ i.n = n /\ i.business = business /\ i.anchor = anchor /\ i.weekday = weekday
        /\ out.stated = IF stated # 0 /\ anchor # 0 THEN day ELSE stated
        /\ out.shown = (anchor = 0 \/ stated # 0)
        /\ out.weekday = IF out.stated = 0 THEN weekday ELSE Weekday(out.stated)
    BY DEF CorrectDeadline
  <1>2. CASE anchor = 0
    BY <1>1, <1>2 DEF DeadlinesAreCounted
  <1>3. CASE anchor # 0 /\ stated = 0
    BY <1>1, <1>3 DEF DeadlinesAreCounted
  <1>4. CASE anchor # 0 /\ stated # 0
    <2>1. day \in Int /\ 2 <= day /\ Cardinality(counted) = n /\ (n > 0 => day \in counted)
      <3>1. CASE business
        <4>1. counted = WorkingDays(day, anchor) /\ day = minus_days(anchor, n, TRUE)
          BY <3>1 DEF WorkingDays
        <4> HIDE DEF day, counted
        <4> QED
          BY <1>4, <4>1, WalkBack
      <3>2. CASE ~business
        <4>1. day = anchor - n
          BY <3>2 DEF minus_days
        <4>2. counted = (anchor - n)..(anchor - 1)
          BY <3>2, <4>1
        <4>3. Cardinality((anchor - n)..(anchor - 1)) = n
          <5>1. anchor - n \in Int /\ anchor - 1 \in Int
            OBVIOUS
          <5>2. Cardinality((anchor - n)..(anchor - 1)) = IF anchor - n > anchor - 1 THEN 0 ELSE (anchor - 1) - (anchor - n) + 1
            BY <5>1, FS_Interval
          <5> QED
            BY <5>2
        <4> HIDE DEF day, counted
        <4> QED
          BY <1>4, <4>1, <4>2, <4>3
      <3> QED
        BY <3>1, <3>2
    <2>2. out.stated = day /\ out.shown /\ out.weekday = (day + 6) % 7
      <3>1. Weekday(day) = (day + 6) % 7
        <4> HIDE DEF day
        <4> QED
          BY <2>1 DEF Weekday
      <3>2. day # 0
        <4> HIDE DEF day
        <4> QED
          BY <2>1
      <3> HIDE DEF day, out
      <3>3. out.stated = day
        BY <1>1, <1>4
      <3>4. out.shown
        BY <1>1, <1>4
      <3>5. out.weekday = Weekday(day)
        BY <1>1, <3>2, <3>3
      <3> QED
        BY <3>1, <3>3, <3>4, <3>5
    <2>3. {d \in out.stated..(i.anchor - 1) : i.business => d % 7 \notin {6, 0}} = counted
      <3> HIDE DEF out, i, day
      <3> QED
        BY <1>1, <2>2
    <2> HIDE DEF i, day, counted
    <2>4. out.shown /\ Cardinality(counted) = i.n /\ (i.n > 0 => out.stated \in counted) /\ out.weekday = (out.stated + 6) % 7
      <3> HIDE DEF out
      <3> QED
        BY <1>1, <2>1, <2>2
    <2>5. i.anchor # 0 /\ i.stated # 0
      BY <1>1, <1>4
    <2>6. DeadlinesAreCounted(i)
      BY <2>3, <2>4, <2>5 DEF DeadlinesAreCounted
    <2> QED
      BY <2>6 DEF i
  <1> QED
    BY <1>2, <1>3, <1>4

\* What a text may say of dates and months, before the step.
SnapshotSaid(Days, Spans) ==
    [said : {"as of"}, date : Days, threshold : {FALSE}, months : {0}]
    \cup [said : {"months"}, date : {0}, threshold : BOOLEAN, months : Spans]

(***************************************************************************)
(* In a text of any length, whatever months are reported, only the         *)
(* snapshot's date is taken out and only the reader's own tenure of more   *)
(* than a year is worded anew; another date, a threshold and a tenure      *)
(* nobody reported stay (snapshot.undate, restate_tenure).                 *)
(***************************************************************************)
THEOREM SnapshotOnly ==
  ASSUME NEW Days, 0 \notin Days, NEW Spans \in SUBSET Int, NEW text \in Seq(SnapshotSaid(Days, Spans)),
         NEW as_of, NEW T, NEW reported \in Seq(T), NEW worded \in BOOLEAN
  PROVE  OnlyTheSnapshotIsReworded([bodies |-> <<[as_of |-> as_of, reported |-> reported, worded |-> worded]>>, text |-> text])
  <1> DEFINE body == [as_of |-> as_of, reported |-> reported, worded |-> worded]
             i == [bodies |-> <<body>>, text |-> text]
             dates == {as_of} \ {0}
             how == IF worded THEN "worded" ELSE "years and months"
             pairs == {<<m, how>> : m \in ToSet(reported)}
             words(s) == {p[2] : p \in {q \in pairs : q[1] = s.months}}
             anew(s) == IF s.said = "months" /\ ~s.threshold /\ s.months >= TENURE_FLOOR /\ words(s) # {}
                        THEN [said |-> CHOOSE w \in words(s) : TRUE, date |-> 0, threshold |-> FALSE, months |-> s.months]
                        ELSE s
             P == {s \in SnapshotSaid(Days, Spans) : ~(s.said = "as of" /\ s.date \in dates)}
             left == undate(text, dates)
             out == ApplySnapshot(i)
  <1>1. i.bodies = <<body>> /\ i.bodies[1] = body /\ i.text = text /\ DOMAIN i.bodies = {1}
        /\ body.as_of = as_of /\ body.reported = reported /\ body.worded = worded
    OBVIOUS
  <1> HIDE DEF i, body
  <1>2. snapshot_dates(i.bodies) = dates
    BY <1>1 DEF snapshot_dates
  <1>3. tenures(i.bodies) = pairs
    <2> HIDE DEF pairs
    <2> DEFINE of(k) == {<<m, IF i.bodies[k].worded THEN "worded" ELSE "years and months">> : m \in ToSet(i.bodies[k].reported)}
    <2>1. \A k \in DOMAIN i.bodies : of(k) = pairs
      BY <1>1 DEF pairs
    <2>2. tenures(i.bodies) = UNION {of(k) : k \in DOMAIN i.bodies}
      BY DEF tenures
    <2> HIDE DEF of
    <2>3. DOMAIN i.bodies = {1} /\ of(1) = pairs
      BY <1>1, <2>1
    <2>4. \A x : x \in UNION {of(k) : k \in {1}} <=> x \in of(1)
      OBVIOUS
    <2>5. UNION {of(k) : k \in {1}} = of(1)
      BY <2>4
    <2> QED
      BY <2>2, <2>3, <2>5
  <1>4. \A s \in SnapshotSaid(Days, Spans) :
           /\ s.said \in {"as of", "months"}
           /\ s.said = "as of" => s.date \in Days
           /\ s.said = "months" => s.threshold \in BOOLEAN /\ s.months \in Int
    BY DEF SnapshotSaid
  <1>5. Len(text) \in Nat /\ DOMAIN text = 1..Len(text) /\ \A k \in DOMAIN text : text[k] \in SnapshotSaid(Days, Spans)
    OBVIOUS
  <1>6. Subsequence(left, text, P)
    <2>1. left = FlattenSeq([k \in DOMAIN text |-> IF text[k] \in P THEN <<text[k]>> ELSE <<>>])
      <3>1. \A k \in DOMAIN text : text[k] \in P <=> ~(text[k].said = "as of" /\ text[k].date \in dates)
        BY <1>5
      <3> HIDE DEF P, dates
      <3> QED
        BY <3>1 DEF undate, Filter
    <2> HIDE DEF P, left
    <2> QED
      BY <2>1, FilterKeeps
  <1>7. Len(left) = Len(FlattenSeq([k \in DOMAIN i.text |->
                        IF i.text[k].said = "months" \/ i.text[k].date # i.bodies[1].as_of THEN <<i.text[k]>> ELSE <<>>]))
    <2>1. \A k \in DOMAIN text : (text[k].said = "months" \/ text[k].date # as_of) <=> ~(text[k].said = "as of" /\ text[k].date \in dates)
      BY <1>4, <1>5
    <2>2. [k \in DOMAIN text |-> IF text[k].said = "months" \/ text[k].date # as_of THEN <<text[k]>> ELSE <<>>]
             = [k \in DOMAIN text |-> IF ~(text[k].said = "as of" /\ text[k].date \in dates) THEN <<text[k]>> ELSE <<>>]
      <3> HIDE DEF dates
      <3> QED
        BY <2>1
    <2> QED
      BY <1>1, <2>2 DEF undate, Filter
  <1>8. out = [k \in DOMAIN left |-> anew(left[k])]
    <2>1. out = restate_tenure(left, pairs)
      BY <1>1, <1>2, <1>3 DEF ApplySnapshot
    <2> HIDE DEF left, pairs, out
    <2> QED
      BY <2>1 DEF restate_tenure
  <1> HIDE DEF left, out, P, dates, pairs, anew
  <1>9. left \in Seq(P) /\ ToSet(left) = ToSet(text) \cap P
    BY <1>6 DEF Subsequence
  <1>10. Len(out) = Len(left) /\ ToSet(out) = {anew(s) : s \in ToSet(left)}
    BY <1>8, <1>9 DEF ToSet
  <1>11. \A s \in SnapshotSaid(Days, Spans) :
            \/ anew(s) = s /\ (s.said = "months" => s.threshold \/ s.months < 13 \/ s.months \notin ToSet(reported))
            \/ anew(s).said \in {"worded", "years and months"} /\ s.said = "months" /\ ~s.threshold /\ s.months >= 13
    <2> TAKE s \in SnapshotSaid(Days, Spans)
    <2>1. \A w \in words(s) : w = how
      <3> HIDE DEF how
      <3>1. \A p \in pairs : p[2] = how
        BY DEF pairs
      <3> QED
        BY <3>1
    <2>2. s.months \in ToSet(reported) => how \in words(s)
      <3>1. \A m \in ToSet(reported) : <<m, how>> \in pairs /\ <<m, how>>[1] = m /\ <<m, how>>[2] = how
        BY DEF pairs
      <3> QED
        BY <3>1
    <2>3. how \in {"worded", "years and months"}
      OBVIOUS
    <2> HIDE DEF how, words
    <2>4. CASE s.said = "months" /\ ~s.threshold /\ s.months >= TENURE_FLOOR /\ words(s) # {}
      <3>1. anew(s) = [said |-> CHOOSE w \in words(s) : TRUE, date |-> 0, threshold |-> FALSE, months |-> s.months]
        BY <2>4 DEF anew
      <3>2. (CHOOSE w \in words(s) : TRUE) = how
        BY <2>1, <2>4
      <3>3. anew(s).said = how
        BY <3>1, <3>2
      <3> QED
        BY <2>3, <2>4, <3>3 DEF TENURE_FLOOR
    <2>5. CASE ~(s.said = "months" /\ ~s.threshold /\ s.months >= TENURE_FLOOR /\ words(s) # {})
      <3>1. anew(s) = s
        BY <2>5 DEF anew
      <3>2. s.said = "months" /\ ~s.threshold /\ s.months \in ToSet(reported) => ~(s.months >= 13)
        BY <2>2, <2>5 DEF TENURE_FLOOR
      <3>3. s.said = "months" /\ ~(s.months >= 13) => s.months < 13
        <4>1. s.said = "months" => s.months \in Int
          BY <1>4
        <4> QED
          BY <4>1
      <3> QED
        BY <3>1, <3>2, <3>3
    <2> QED
      BY <2>4, <2>5
  <1>12. \A s \in ToSet(text) : s \in SnapshotSaid(Days, Spans)
    BY <1>5 DEF ToSet
  <1>13. \A s \in ToSet(left) : s \in SnapshotSaid(Days, Spans) /\ ~(s.said = "as of" /\ s.date \in dates)
    BY <1>9, <1>12 DEF P
  <1>14. \A s \in ToSet(out) : s.said = "as of" => s.date # as_of
    <2>1. TAKE q \in ToSet(out)
    <2>2. PICK s \in ToSet(left) : q = anew(s)
      BY <1>10
    <2>3. s.said = "as of" => s.date # as_of
      BY <1>4, <1>13 DEF dates
    <2> QED
      BY <1>11, <1>13, <2>2, <2>3
  <1>15. \A s \in ToSet(out) : s.said = "months" => s.threshold \/ s.months < 13 \/ s.months \notin ToSet(reported)
    <2>1. TAKE q \in ToSet(out)
    <2>2. PICK s \in ToSet(left) : q = anew(s)
      BY <1>10
    <2> QED
      BY <1>11, <1>13, <2>2
  <1>16. \A s \in ToSet(text) : s.said = "months" /\ (s.threshold \/ s.months < 13) => s \in ToSet(out)
    <2> SUFFICES ASSUME NEW s \in ToSet(text), s.said = "months", s.threshold \/ s.months < 13
                 PROVE  s \in ToSet(out)
      OBVIOUS
    <2>1. s \in ToSet(left)
      BY <1>9, <1>12 DEF P
    <2>2. anew(s) = s
      <3>1. s.months \in Int /\ s \in SnapshotSaid(Days, Spans)
        BY <1>4, <1>12
      <3>2. anew(s) = s \/ (~s.threshold /\ s.months >= 13)
        BY <1>11, <3>1
      <3> QED
        BY <3>1, <3>2
    <2> QED
      BY <1>10, <2>1, <2>2
  <1>17. OnlyTheSnapshotIsReworded(i)
    <2>1. {s \in ToSet(i.text) : s.said = "months" /\ (s.threshold \/ s.months < 13)} \subseteq ToSet(out)
      BY <1>1, <1>16
    <2>2. /\ \A s \in ToSet(out) : s.said = "as of" => s.date # i.bodies[1].as_of
          /\ \A s \in ToSet(out) : s.said = "months" => s.threshold \/ s.months < 13 \/ s.months \notin ToSet(i.bodies[1].reported)
      BY <1>1, <1>14, <1>15
    <2>3. Len(out) = Len(left)
      BY <1>10
    <2> QED
      BY <1>7, <2>1, <2>2, <2>3 DEF OnlyTheSnapshotIsReworded, out, Filter
  <1> QED
    BY <1>17 DEF i, body

\* f adds up s from the first entry on.
AddsUp(f, s) == f[0] = 0 /\ \A n \in 1..Len(s) : f[n] = f[n - 1] + s[n]

\* SumOf adds up a sequence from its first entry on.
LEMMA SumIsALoop ==
  ASSUME NEW s \in Seq(Int)
  PROVE  \E f \in [0..Len(s) -> Int] : AddsUp(f, s) /\ SumOf(s) = f[Len(s)]
  <1> DEFINE L == Len(s)
             step == [x \in Int \X Int |-> IF x[1] \in 1..L THEN x[2] + s[x[1]] ELSE x[2]]
             upTo[n \in 0..L] == IF n = 0 THEN 0 ELSE upTo[n - 1] + s[n]
  <1>1. L \in Nat /\ DOMAIN s = 1..L /\ \A n \in 1..L : s[n] \in Int
    OBVIOUS
  <1>2. SumOf(s) = upTo[L]
    BY DEF SumOf
  <1> HIDE DEF L
  <1>3. step \in [Int \X Int -> Int] /\ \A n \in 1..L : \A x \in Int : step[<<n, x>>] = x + s[n]
    BY <1>1
  <1> HIDE DEF step
  <1>4. 0 \in Int /\ L \in Int
    BY <1>1
  <1>5. PICK f \in [0..L -> Int] : Loops(f, 0, L, 0, step)
    BY <1>3, <1>4, LoopIsDefined
  <1>6. ASSUME NEW n \in 0..L PROVE f[n] = IF n = 0 THEN 0 ELSE f[n - 1] + s[n]
    <2>1. f[n] = IF n = 0 THEN 0 ELSE step[<<n, f[n - 1]>>]
      BY <1>5 DEF Loops
    <2>2. n # 0 => n \in 1..L /\ f[n - 1] \in Int
      BY <1>1, <1>5
    <2> QED
      BY <1>3, <2>1, <2>2
  <1>7. upTo = [n \in 0..L |-> IF n = 0 THEN 0 ELSE upTo[n - 1] + s[n]]
    <2>1. f = [n \in 0..L |-> IF n = 0 THEN 0 ELSE f[n - 1] + s[n]]
      BY <1>5, <1>6
    <2> QED
      BY <2>1
  <1> HIDE DEF upTo
  <1> DEFINE S == {n \in 0..L : upTo[n] = f[n]}
  <1>8. 0 \in S
    BY <1>1, <1>6, <1>7
  <1>9. ASSUME NEW n \in (0 + 1)..L, n - 1 \in S PROVE n \in S
    <2>1. n \in 0..L /\ n # 0 /\ upTo[n - 1] = f[n - 1]
      BY <1>1, <1>9
    <2> QED
      BY <1>6, <1>7, <2>1
  <1> HIDE DEF S
  <1>10. \A n \in 0..L : n \in S
    BY <1>4, <1>8, <1>9, UpFromTheFirst
  <1>11. upTo[L] = f[L]
    BY <1>1, <1>10 DEF S
  <1>12. AddsUp(f, s)
    <2>1. 0 \in 0..L /\ \A n \in 1..L : n \in 0..L /\ n # 0
      BY <1>1
    <2> QED
      BY <1>6, <2>1 DEF AddsUp, L
  <1> QED
    BY <1>2, <1>11, <1>12 DEF L

\* One term more adds that term.
LEMMA SumOfOneMore ==
  ASSUME NEW s \in Seq(Int), NEW x \in Int
  PROVE  SumOf(s \o <<x>>) = SumOf(s) + x /\ SumOf(s) \in Int
  <1> DEFINE t == s \o <<x>>
             L == Len(s)
  <1>1. L \in Nat /\ t \in Seq(Int) /\ Len(t) = L + 1 /\ t[L + 1] = x /\ \A n \in 1..L : t[n] = s[n]
    OBVIOUS
  <1> HIDE DEF t, L
  <1>2. PICK f \in [0..L -> Int] : AddsUp(f, s) /\ SumOf(s) = f[L]
    BY SumIsALoop DEF L
  <1>3. PICK g \in [0..Len(t) -> Int] : AddsUp(g, t) /\ SumOf(t) = g[Len(t)]
    BY <1>1, SumIsALoop
  <1> DEFINE S == {n \in 0..L : f[n] = g[n]}
  <1>4. 0 \in S
    BY <1>1, <1>2, <1>3 DEF AddsUp
  <1>5. ASSUME NEW n \in (0 + 1)..L, n - 1 \in S PROVE n \in S
    <2>1. n \in 1..L /\ n \in 0..L /\ f[n - 1] = g[n - 1]
      <3>1. f[n - 1] = g[n - 1]
        BY <1>5
      <3>2. n \in 1..L /\ n \in 0..L
        BY <1>1
      <3> QED
        BY <3>1, <3>2
    <2>1a. n \in 1..Len(t)
      BY <1>1, <2>1
    <2>1b. t[n] = s[n]
      BY <1>1, <2>1
    <2> QED
      BY <1>2, <1>3, <2>1, <2>1a, <2>1b DEF AddsUp, L
  <1> HIDE DEF S
  <1>6. \A n \in 0..L : n \in S
    <2>1. 0 \in Int /\ L \in Int
      BY <1>1
    <2> QED
      BY <1>4, <1>5, <2>1, UpFromTheFirst
  <1>7. f[L] = g[L] /\ f[L] \in Int
    BY <1>1, <1>2, <1>6 DEF S
  <1>8. g[L + 1] = g[(L + 1) - 1] + t[L + 1] /\ (L + 1) - 1 = L
    BY <1>1, <1>3 DEF AddsUp
  <1> QED
    BY <1>1, <1>2, <1>3, <1>7, <1>8 DEF t

\* The sum of nothing is 0.
LEMMA SumOfNone == SumOf(<<>>) = 0
  <1>1. <<>> \in Seq(Int) /\ Len(<<>>) = 0
    OBVIOUS
  <1>2. PICK f \in [0..Len(<<>>) -> Int] : AddsUp(f, <<>>) /\ SumOf(<<>>) = f[Len(<<>>)]
    BY <1>1, SumIsALoop
  <1> QED
    BY <1>1, <1>2 DEF AddsUp

\* The amounts of a working's terms.
Firsts(terms) == [i \in DOMAIN terms |-> terms[i][1]]

\* Leaving out the terms that are zero changes no sum.
LEMMA ZerosAddNothing ==
  ASSUME NEW F, NEW terms \in Seq(Int \X F)
  PROVE  LET shown == Filter(terms, LAMBDA t : t[1] # 0)
         IN  shown \in Seq(Int \X F) /\ SumOf(Firsts(shown)) = SumOf(Firsts(terms))
  <1> DEFINE T == Int \X F
             n == Len(terms)
             f == [i \in 1..n |-> IF terms[i][1] # 0 THEN <<terms[i]>> ELSE <<>>]
             firsts == Firsts(terms)
             shown == FlattenSeq(f)
  <1>1. n \in Nat /\ DOMAIN terms = 1..n /\ \A i \in 1..n : terms[i] \in T /\ terms[i][1] \in Int
    OBVIOUS
  <1>2. shown = Filter(terms, LAMBDA t : t[1] # 0)
    BY <1>1 DEF Filter
  <1>3. firsts \in Seq(Int) /\ Len(firsts) = n /\ \A i \in 1..n : firsts[i] = terms[i][1]
    BY <1>1 DEF Firsts
  <1> HIDE DEF n, firsts, T
  <1>4. f \in [1..n -> Seq(T)] /\ \A i \in 1..n : f[i] = IF terms[i][1] # 0 THEN <<terms[i]>> ELSE <<>>
    BY <1>1
  <1> HIDE DEF f
  <1>5. PICK g \in [0..n -> Seq(T)] : /\ g[0] = <<>>
                                      /\ \A i \in 1..n : g[i] = g[i - 1] \o f[i]
                                      /\ FlattenSeq(f) = g[n]
    BY <1>1, <1>4, FlattenIsALoop
  <1>6. PICK h \in [0..n -> Int] : AddsUp(h, firsts) /\ SumOf(firsts) = h[n]
    BY <1>3, SumIsALoop
  <1> DEFINE S == {m \in 0..n : SumOf(Firsts(g[m])) = h[m]}
  <1>7. 0 \in S
    <2>1. Firsts(<<>>) = <<>>
      BY DEF Firsts
    <2> QED
      BY <1>1, <1>5, <1>6, <2>1, SumOfNone DEF AddsUp
  <1>8. ASSUME NEW s \in Seq(T), NEW t \in T PROVE Firsts(s) \in Seq(Int) /\ Firsts(s \o <<t>>) = Firsts(s) \o <<t[1]>> /\ t[1] \in Int
    <2> DEFINE k == Len(s)
    <2>1. /\ k \in Nat /\ DOMAIN s = 1..k /\ s \o <<t>> \in Seq(T) /\ DOMAIN (s \o <<t>>) = 1..(k + 1)
          /\ \A i \in 1..k : (s \o <<t>>)[i] = s[i] /\ s[i] \in T
          /\ (s \o <<t>>)[k + 1] = t
      BY <1>8
    <2>2. t[1] \in Int /\ \A i \in 1..k : s[i][1] \in Int
      BY <1>8, <2>1 DEF T
    <2> HIDE DEF k, T
    <2> DEFINE a == Firsts(s)
               b == Firsts(s \o <<t>>)
    <2>3. a \in Seq(Int) /\ Len(a) = k /\ \A i \in 1..k : a[i] = s[i][1]
      BY <2>1, <2>2 DEF Firsts
    <2>4. b \in Seq(Int) /\ Len(b) = k + 1 /\ \A i \in 1..(k + 1) : b[i] = IF i = k + 1 THEN t[1] ELSE s[i][1]
      <3> DEFINE u == s \o <<t>>
      <3>1. DOMAIN u = 1..(k + 1) /\ \A i \in 1..(k + 1) : u[i] = IF i = k + 1 THEN t ELSE s[i]
        BY <2>1
      <3> HIDE DEF u
      <3>2. Firsts(u) = [i \in 1..(k + 1) |-> IF i = k + 1 THEN t[1] ELSE s[i][1]]
        BY <3>1 DEF Firsts
      <3>3. \A i \in 1..(k + 1) : (IF i = k + 1 THEN t[1] ELSE s[i][1]) \in Int
        BY <2>1, <2>2
      <3> DEFINE w == [i \in 1..(k + 1) |-> IF i = k + 1 THEN t[1] ELSE s[i][1]]
      <3>4. w \in [1..(k + 1) -> Int]
        BY <3>3
      <3>5. \A i \in 1..(k + 1) : w[i] = IF i = k + 1 THEN t[1] ELSE s[i][1]
        OBVIOUS
      <3> HIDE DEF w
      <3>6. w \in Seq(Int) /\ Len(w) = k + 1
        BY <2>1, <3>4
      <3> QED
        BY <3>2, <3>5, <3>6 DEF u, w
    <2> HIDE DEF a, b
    <2>5. b = a \o <<t[1]>>
      <3> DEFINE x == t[1]
                 c == a \o <<x>>
      <3>1. x \in Int
        BY <2>2
      <3> HIDE DEF x
      <3>2. c \in Seq(Int) /\ Len(c) = k + 1 /\ \A i \in 1..(k + 1) : c[i] = IF i = k + 1 THEN x ELSE a[i]
        BY <2>1, <2>3, <3>1
      <3>3. \A i \in 1..(k + 1) : i # k + 1 => i \in 1..k
        BY <2>1
      <3>4. \A i \in 1..(k + 1) : c[i] = b[i]
        BY <2>3, <2>4, <3>2, <3>3 DEF x
      <3> HIDE DEF c
      <3>5. c = b
        BY <2>4, <3>2, <3>4
      <3> QED
        BY <3>5 DEF c, x
    <2> QED
      BY <2>2, <2>3, <2>5 DEF a, b
  <1>9. ASSUME NEW m \in (0 + 1)..n, m - 1 \in S PROVE m \in S
    <2>1. m \in 1..n /\ m \in 0..n /\ g[m - 1] \in Seq(T) /\ SumOf(Firsts(g[m - 1])) = h[m - 1] /\ terms[m] \in T
      BY <1>1, <1>5, <1>9
    <2>2. g[m] = g[m - 1] \o f[m] /\ h[m] = h[m - 1] + terms[m][1] /\ terms[m][1] \in Int /\ h[m - 1] \in Int
      <3>1. g[m] = g[m - 1] \o f[m]
        BY <1>5, <2>1
      <3>2. h[m] = h[m - 1] + firsts[m] /\ firsts[m] = terms[m][1]
        BY <1>3, <1>6, <2>1 DEF AddsUp
      <3>3. m - 1 \in 0..n
        BY <1>1, <2>1
      <3>4. h[m - 1] \in Int
        BY <1>6, <3>3
      <3> QED
        BY <1>1, <2>1, <3>1, <3>2, <3>4
    <2>3. CASE terms[m][1] # 0
      <3>1. g[m] = g[m - 1] \o <<terms[m]>>
        BY <1>4, <2>1, <2>2, <2>3
      <3>2. Firsts(g[m - 1]) \in Seq(Int) /\ Firsts(g[m]) = Firsts(g[m - 1]) \o <<terms[m][1]>>
        BY <1>8, <2>1, <3>1
      <3>3. SumOf(Firsts(g[m])) = SumOf(Firsts(g[m - 1])) + terms[m][1]
        BY <2>2, <3>2, SumOfOneMore
      <3> QED
        BY <2>1, <2>2, <3>3
    <2>4. CASE terms[m][1] = 0
      <3>1. g[m] = g[m - 1] \o <<>> /\ g[m - 1] \o <<>> = g[m - 1]
        BY <1>4, <2>1, <2>2, <2>4
      <3> QED
        BY <2>1, <2>2, <2>4, <3>1
    <2> QED
      BY <2>3, <2>4
  <1> HIDE DEF S
  <1>10. 0 \in Int /\ n \in Int
    BY <1>1
  <1>11. \A m \in 0..n : m \in S
    BY <1>7, <1>9, <1>10, UpFromTheFirst
  <1>12. SumOf(Firsts(g[n])) = h[n] /\ g[n] \in Seq(T)
    BY <1>1, <1>5, <1>11 DEF S
  <1>13. shown \in Seq(T) /\ SumOf(Firsts(shown)) = SumOf(firsts)
    BY <1>5, <1>6, <1>12
  <1> QED
    BY <1>2, <1>13 DEF T, firsts

\* The sentences of an answer about a balance.
BalanceSaid(F) ==
    [said : {"working"}, total : Int, terms : Seq(Int \X F), reader : BOOLEAN]
    \cup [said : {"expiry"}, told : BOOLEAN, reader : BOOLEAN]

\* A row of the balance tool, whatever the amounts.
BalanceRows == [accrued : Int, used : Int, pending : Int, prior : Int, expires : Int]

\* A sentence that may be shown: its working comes to its total, the balance, and its expiry is the record's.
AsRecorded(s, balance) ==
    /\ s.said \in {"working", "engine"} /\ Len(s.terms) > 1 => s.total = balance /\ SumOf(Firsts(s.terms)) = balance
    /\ s.said = "expiry" /\ s.reader => s.told

\* The balance a record comes to.
BalanceOf(row) == row.accrued - row.used - row.pending + (IF row.expires >= Snapshot THEN row.prior ELSE 0)

\* The fields an engine's working names.
BalanceFields == {"accrued", "used", "pending", "carried over"}

\* The record's own working comes to its balance.
LEMMA RecordAddsUp ==
  ASSUME NEW row \in BalanceRows
  PROVE  LET e == balance_of(row)
         IN  /\ e.remaining = BalanceOf(row) /\ e.remaining \in Int /\ decomposition(e) \in Seq(Int \X BalanceFields)
             /\ SumOf(Firsts(decomposition(e))) = e.remaining
  <1> DEFINE e == balance_of(row)
             carry == unexpired_carryover(row)
             a == row.accrued
             b == -row.used
             c == -row.pending
             terms == <<<<a, "accrued">>, <<b, "used">>, <<c, "pending">>, <<carry, "carried over">>>>
  <1>1. a \in Int /\ b \in Int /\ c \in Int /\ carry \in Int /\ row.used \in Int /\ row.pending \in Int
    BY DEF BalanceRows, unexpired_carryover
  <1>2. e.terms = terms /\ e.remaining = row.accrued - row.used - row.pending + carry
    BY DEF balance_of
  <1>3. e.remaining = BalanceOf(row)
    BY <1>2 DEF BalanceOf, unexpired_carryover
  <1>4. e.remaining = ((a + b) + c) + carry
    BY <1>1, <1>2
  <1>5. decomposition(e) = Filter(e.terms, LAMBDA t : t[1] # 0)
    BY DEF decomposition
  <1> HIDE DEF e, carry, a, b, c
  <1>6. terms \in Seq(Int \X BalanceFields) /\ Len(terms) = 4
    <2> DEFINE p == <<a, "accrued">>
               q == <<b, "used">>
               r == <<c, "pending">>
               u == <<carry, "carried over">>
    <2>1. p \in Int \X BalanceFields /\ q \in Int \X BalanceFields /\ r \in Int \X BalanceFields /\ u \in Int \X BalanceFields
      BY <1>1 DEF BalanceFields
    <2> HIDE DEF p, q, r, u
    <2>2. <<p, q, r, u>> \in Seq(Int \X BalanceFields) /\ Len(<<p, q, r, u>>) = 4
      BY <2>1
    <2> QED
      BY <2>2 DEF p, q, r, u
  <1>7. /\ DOMAIN terms = 1..4
        /\ terms[1][1] = a /\ terms[2][1] = b /\ terms[3][1] = c /\ terms[4][1] = carry
    <2>1. /\ terms[1] = <<a, "accrued">> /\ terms[2] = <<b, "used">> /\ terms[3] = <<c, "pending">>
          /\ terms[4] = <<carry, "carried over">>
      OBVIOUS
    <2>2. DOMAIN terms = 1..4
      <3> HIDE DEF terms
      <3> QED
        BY <1>6
    <2>3. <<a, "accrued">>[1] = a /\ <<b, "used">>[1] = b /\ <<c, "pending">>[1] = c /\ <<carry, "carried over">>[1] = carry
      OBVIOUS
    <2> HIDE DEF terms
    <2>4. terms[1][1] = a /\ terms[2][1] = b /\ terms[3][1] = c /\ terms[4][1] = carry
      BY <2>1, <2>3, Zenon
    <2> QED
      BY <2>2, <2>4
  <1> HIDE DEF terms
  <1>8. decomposition(e) \in Seq(Int \X BalanceFields) /\ SumOf(Firsts(decomposition(e))) = SumOf(Firsts(terms))
    BY <1>2, <1>5, <1>6, ZerosAddNothing
  <1> DEFINE firsts == Firsts(terms)
  <1>9. firsts \in Seq(Int) /\ Len(firsts) = 4 /\ firsts[1] = a /\ firsts[2] = b /\ firsts[3] = c /\ firsts[4] = carry
    <2>1. \A i \in 1..4 : terms[i][1] \in Int
      BY <1>1, <1>7
    <2>2. firsts = [i \in 1..4 |-> terms[i][1]]
      BY <1>7 DEF Firsts
    <2> HIDE DEF firsts
    <2> QED
      BY <1>7, <2>1, <2>2
  <1> HIDE DEF firsts
  <1>10. PICK f \in [0..Len(firsts) -> Int] : AddsUp(f, firsts) /\ SumOf(firsts) = f[Len(firsts)]
    BY <1>9, SumIsALoop
  <1>11. f[0] = 0 /\ \A n \in 1..4 : f[n] = f[n - 1] + firsts[n]
    BY <1>9, <1>10 DEF AddsUp
  <1>12. f[1] = 0 + a /\ f[2] = f[1] + b /\ f[3] = f[2] + c /\ f[4] = f[3] + carry
    <2>1. f[1] = f[1 - 1] + firsts[1] /\ f[2] = f[2 - 1] + firsts[2] /\ f[3] = f[3 - 1] + firsts[3] /\ f[4] = f[4 - 1] + firsts[4]
      BY <1>11
    <2> QED
      BY <1>9, <1>11, <2>1
  <1>13. SumOf(firsts) = e.remaining
    BY <1>1, <1>4, <1>9, <1>10, <1>12
  <1>14. e.remaining \in Int
    BY <1>1, <1>4
  <1> QED
    BY <1>3, <1>8, <1>13, <1>14 DEF e, firsts

\* The sentences a restated answer may have: those it had, the engine's, and its note.
RestatedOf(F, e) == BalanceSaid(F) \cup {Statement(e), ExpiredNote}

\* A working that is not wrong comes, corrected, to the record's balance.
LEMMA CorrectedIsRight ==
  ASSUME NEW F, BalanceFields \subseteq F, NEW row \in BalanceRows, NEW s \in BalanceSaid(F)
  PROVE  LET e == balance_of(row)
             c == CorrectWorking(s, e)
         IN  /\ c \in BalanceSaid(F)
             /\ ~(IsWorking(c) /\ c.total # e.remaining) /\ ~(c.said = "expiry" /\ c.reader /\ ~c.told) => AsRecorded(c, BalanceOf(row))
  <1> DEFINE e == balance_of(row)
             d == decomposition(e)
             balance == BalanceOf(row)
  <1>1. e.remaining = balance /\ balance \in Int /\ d \in Seq(Int \X BalanceFields) /\ SumOf(Firsts(d)) = balance
    BY RecordAddsUp
  <1>2. d \in Seq(Int \X F)
    <2>1. Int \X BalanceFields \subseteq Int \X F
      OBVIOUS
    <2> HIDE DEF d
    <2> QED
      BY <1>1, <2>1
  <1> HIDE DEF e, d, balance
  <1> DEFINE c == CorrectWorking(s, e)
             wrong == IsWorking(c) /\ c.total # e.remaining
             invented == c.said = "expiry" /\ c.reader /\ ~c.told
  <1>3. CASE s.said = "working"
    <2>1. s \in [said : {"working"}, total : Int, terms : Seq(Int \X F), reader : BOOLEAN]
      BY <1>3 DEF BalanceSaid
    <2>2. CASE IsWorking(s) /\ ~_sound(s, e)
      <3>1. c = [s EXCEPT !.terms = d]
        BY <2>2 DEF CorrectWorking, d
      <3>2. c \in [said : {"working"}, total : Int, terms : Seq(Int \X F), reader : BOOLEAN] /\ c.terms = d
        BY <1>2, <2>1, <3>1
      <3> HIDE DEF c
      <3>3. c.said = "working" /\ c \in BalanceSaid(F)
        BY <3>2 DEF BalanceSaid
      <3>4. ~wrong => AsRecorded(c, balance)
        BY <1>1, <3>2, <3>3 DEF AsRecorded, IsWorking
      <3> QED
        BY <3>3, <3>4 DEF c, e, balance
    <2>3. CASE ~(IsWorking(s) /\ ~_sound(s, e))
      <3>1. c = s
        BY <2>3 DEF CorrectWorking
      <3> HIDE DEF c
      <3>2. IsWorking(s) => SumOf(Firsts(s.terms)) = s.total
        BY <2>3 DEF _sound, Firsts
      <3>3. ~wrong => AsRecorded(c, balance)
        BY <1>1, <1>3, <3>1, <3>2 DEF AsRecorded, IsWorking
      <3> QED
        BY <3>1, <3>3 DEF c, e, balance
    <2> QED
      BY <2>2, <2>3
  <1>4. CASE s.said = "expiry"
    <2>1. c = s
      BY <1>4 DEF CorrectWorking, IsWorking
    <2> HIDE DEF c
    <2>2. ~invented => AsRecorded(c, balance)
      BY <1>4, <2>1 DEF AsRecorded, BalanceSaid
    <2> QED
      BY <2>1, <2>2 DEF c, e, balance
  <1>5. s.said = "working" \/ s.said = "expiry"
    BY DEF BalanceSaid
  <1> QED
    BY <1>3, <1>4, <1>5

\* The engine's own sentences are as the record has them.
LEMMA EngineIsRight ==
  ASSUME NEW row \in BalanceRows
  PROVE  LET e == balance_of(row)
         IN  AsRecorded(Statement(e), BalanceOf(row)) /\ AsRecorded(ExpiredNote, BalanceOf(row))
             /\ Statement(e).said = "engine" /\ ExpiredNote.said = "expired note"
  <1> DEFINE e == balance_of(row)
  <1>1. e.remaining = BalanceOf(row) /\ SumOf(Firsts(decomposition(e))) = BalanceOf(row)
    BY RecordAddsUp
  <1> HIDE DEF e
  <1>2. AsRecorded(Statement(e), BalanceOf(row)) /\ Statement(e).said = "engine"
    BY <1>1 DEF AsRecorded, Statement
  <1>3. AsRecorded(ExpiredNote, BalanceOf(row)) /\ ExpiredNote.said = "expired note"
    BY DEF AsRecorded, ExpiredNote
  <1> QED
    BY <1>2, <1>3 DEF e

\* The sentences that may be shown beside a row's balance, and answers that quote the engine once.
Showable(F, row) == {s \in RestatedOf(F, balance_of(row)) : AsRecorded(s, BalanceOf(row))}

OneEngine(text) == \A i, j \in DOMAIN text : text[i].said = "engine" /\ text[j].said = "engine" => i = j

ShownAnswers(F, row) == {text \in Seq(Showable(F, row)) : OneEngine(text)}

\* A sequence of one entry is that entry.
LEMMA OneLong ==
  ASSUME NEW X, NEW q \in Seq(X), Len(q) = 1
  PROVE  q[1] \in X /\ q = <<q[1]>>
  <1>1. DOMAIN q = 1..1 /\ 1 \in 1..1
    OBVIOUS
  <1>2. \A i \in DOMAIN q : q[i] \in X
    OBVIOUS
  <1>3. q[1] \in X
    BY <1>1, <1>2
  <1>4. <<q[1]>> \in Seq(X) /\ Len(<<q[1]>>) = 1 /\ <<q[1]>>[1] = q[1]
    BY <1>3
  <1>5. \A i \in 1..1 : i = 1
    OBVIOUS
  <1> QED
    BY <1>1, <1>3, <1>4, <1>5

\* One sentence more that may be shown.
LEMMA OneMoreShown ==
  ASSUME NEW F, NEW row, NEW text \in ShownAnswers(F, row), NEW x \in Showable(F, row), x.said = "engine" => x \notin ToSet(text)
  PROVE  Append(text, x) \in ShownAnswers(F, row)
  <1> DEFINE O == Showable(F, row)
             n == Len(text)
             more == Append(text, x)
  <1>1. text \in Seq(O) /\ OneEngine(text)
    BY DEF ShownAnswers
  <1>2. \A s \in O : s.said = "engine" => s = Statement(balance_of(row))
    <2>1. \A s \in BalanceSaid(F) : s.said # "engine"
      BY DEF BalanceSaid
    <2>2. ExpiredNote.said # "engine"
      BY DEF ExpiredNote
    <2>3. \A s \in O : s \in BalanceSaid(F) \/ s = Statement(balance_of(row)) \/ s = ExpiredNote
      BY DEF Showable, RestatedOf
    <2> HIDE DEF O
    <2> QED
      BY <2>1, <2>2, <2>3
  <1> HIDE DEF O
  <1>3. n \in Nat /\ DOMAIN text = 1..n /\ \A i \in 1..n : text[i] \in O /\ text[i] \in ToSet(text)
    BY <1>1 DEF ToSet
  <1>4. more \in Seq(O) /\ DOMAIN more = 1..(n + 1) /\ more[n + 1] = x /\ \A i \in 1..n : more[i] = text[i]
    BY <1>1 DEF O
  <1> HIDE DEF more, n
  <1>5. \A i \in 1..(n + 1) : i = n + 1 \/ i \in 1..n
    BY <1>3
  <1>6. x.said = "engine" => \A i \in 1..n : text[i].said # "engine"
    <2>1. x \in O
      BY DEF O
    <2> QED
      BY <1>2, <1>3, <2>1
  <1>7. OneEngine(more)
    <2>1. \A i, j \in 1..n : text[i].said = "engine" /\ text[j].said = "engine" => i = j
      BY <1>1, <1>3 DEF OneEngine
    <2>2. \A i, j \in 1..(n + 1) : more[i].said = "engine" /\ more[j].said = "engine" => i = j
      BY <1>4, <1>5, <1>6, <2>1
    <2> QED
      BY <1>4, <2>2 DEF OneEngine
  <1> QED
    BY <1>4, <1>7 DEF ShownAnswers, O, more

\* A restated answer is one that may be shown.
LEMMA RestateShows ==
  ASSUME NEW F, NEW row \in BalanceRows, NEW text \in Seq(BalanceSaid(F)),
         \A i \in DOMAIN text :
            ~(IsWorking(text[i]) /\ text[i].total # balance_of(row).remaining) /\ ~(text[i].said = "expiry" /\ text[i].reader /\ ~text[i].told)
               => AsRecorded(text[i], BalanceOf(row))
  PROVE  restate(text, balance_of(row)) \in ShownAnswers(F, row)
  <1> DEFINE e == balance_of(row)
             D == ShownAnswers(F, row)
             O == Showable(F, row)
             L == Len(text)
             wrong(s) == IsWorking(s) /\ s.total # e.remaining
             invented(s) == s.said = "expiry" /\ s.reader /\ ~s.told
             good(s) == ~wrong(s) /\ ~invented(s)
             instead(s) == IF wrong(s) THEN {Statement(e)} ELSE IF e.expired THEN {ExpiredNote} ELSE {}
             after(n, k) == IF good(text[n]) THEN Append(k, text[n])
                            ELSE k \o SetToSeq(instead(text[n]) \ ToSet(k))
             step == [x \in Int \X D |-> IF x[1] \in 1..L THEN after(x[1], x[2]) ELSE x[2]]
             kept[i \in 0..L] == IF i = 0 THEN <<>> ELSE after(i, kept[i - 1])
             again(s) == s # Statement(e) /\ s.reader /\ Numbers(s) = {e.remaining}
             all == kept[L]
  <1>1. restate(text, e) = IF \A i \in DOMAIN text : good(text[i]) THEN text
                           ELSE IF Statement(e) \in ToSet(all) THEN Filter(all, LAMBDA s : ~again(s))
                           ELSE all
    <2>1. restate(text, e) =
             LET keeps[i \in 0..L] ==
                    IF i = 0 THEN <<>>
                    ELSE IF ~wrong(text[i]) /\ ~invented(text[i]) THEN Append(keeps[i - 1], text[i])
                    ELSE keeps[i - 1] \o SetToSeq(instead(text[i]) \ ToSet(keeps[i - 1]))
             IN  IF \A i \in DOMAIN text : ~wrong(text[i]) /\ ~invented(text[i]) THEN text
                 ELSE IF Statement(e) \in ToSet(keeps[L]) THEN Filter(keeps[L], LAMBDA s : ~again(s))
                 ELSE keeps[L]
      BY DEF restate
    <2> HIDE DEF wrong, invented, instead, again, e, L
    <2> QED
      BY <2>1
  <1>2. L \in Nat /\ DOMAIN text = 1..L /\ \A n \in 1..L : text[n] \in BalanceSaid(F) /\ text[n].said # "engine"
    <2>1. \A s \in BalanceSaid(F) : s.said # "engine"
      BY DEF BalanceSaid
    <2> QED
      BY <2>1
  <1>3. \A n \in 1..L : good(text[n]) => text[n] \in O
    BY <1>2 DEF Showable, RestatedOf
  <1>4. Statement(e) \in O /\ ExpiredNote \in O /\ ExpiredNote.said # "engine"
    BY EngineIsRight DEF Showable, RestatedOf
  <1>5. \A n \in 1..L : instead(text[n]) \subseteq {} \/ \E x \in O : instead(text[n]) = {x}
    BY <1>4
  <1>6. <<>> \in D
    BY DEF ShownAnswers, OneEngine
  <1> HIDE DEF good, instead, e, O, L
  <1>7. ASSUME NEW n \in 1..L, NEW k \in D PROVE after(n, k) \in D
    <2>1. CASE good(text[n])
      <3>1. text[n] \in O /\ text[n].said # "engine"
        BY <1>2, <1>3, <2>1
      <3>2. Append(k, text[n]) \in D
        BY <3>1, OneMoreShown DEF O
      <3> QED
        BY <2>1, <3>2
    <2>2. CASE ~good(text[n])
      <3> DEFINE X == instead(text[n]) \ ToSet(k)
                 q == SetToSeq(X)
      <3>1. after(n, k) = k \o q
        BY <2>2
      <3>2. X = {} \/ \E x \in O : X = {x} /\ x \notin ToSet(k)
        BY <1>5
      <3> HIDE DEF X
      <3>3. CASE X = {}
        <4>1. q \in Seq(X) /\ Len(q) = 0
          BY <3>3, FS_EmptySet, SetToSeqIsIt
        <4> HIDE DEF q
        <4>2. q = <<>>
          BY <4>1
        <4>3. k \in Seq(O)
          BY DEF ShownAnswers, O
        <4>4. k \o <<>> = k
          BY <4>3
        <4> QED
          BY <3>1, <4>2, <4>4
      <3>4. CASE \E x \in O : X = {x} /\ x \notin ToSet(k)
        <4>1. PICK x \in O : X = {x} /\ x \notin ToSet(k)
          BY <3>4
        <4>2. IsFiniteSet(X) /\ Cardinality(X) = 1
          BY <4>1, FS_Singleton
        <4>3. q \in Seq(X) /\ Len(q) = 1
          BY <4>2, SetToSeqIsIt
        <4> HIDE DEF q
        <4>4. q = <<x>>
          <5>1. q[1] \in X /\ q = <<q[1]>>
            BY <4>3, OneLong
          <5>2. q[1] = x
            BY <4>1, <5>1
          <5> QED
            BY <5>1, <5>2
        <4>5. k \in Seq(O)
          BY DEF ShownAnswers, O
        <4>6. k \o <<x>> = Append(k, x)
          BY <4>1, <4>5
        <4>7. Append(k, x) \in D
          BY <4>1, OneMoreShown DEF O
        <4> HIDE DEF D
        <4> QED
          BY <3>1, <4>4, <4>6, <4>7
      <3> QED
        BY <3>2, <3>3, <3>4
    <2> QED
      BY <2>1, <2>2
  <1> HIDE DEF after, D
  <1>8. step \in [Int \X D -> D] /\ \A n \in 1..L : \A k \in D : step[<<n, k>>] = after(n, k)
    BY <1>2, <1>7
  <1> HIDE DEF step
  <1>9. 0 \in Int /\ L \in Int
    BY <1>2
  <1>10. PICK f \in [0..L -> D] : Loops(f, 0, L, <<>>, step)
    BY <1>6, <1>8, <1>9, LoopIsDefined
  <1>11. ASSUME NEW n \in 0..L PROVE f[n] = IF n = 0 THEN <<>> ELSE after(n, f[n - 1])
    <2>1. f[n] = IF n = 0 THEN <<>> ELSE step[<<n, f[n - 1]>>]
      BY <1>10 DEF Loops
    <2>2. n # 0 => n \in 1..L /\ f[n - 1] \in D
      BY <1>2, <1>10
    <2> QED
      BY <1>8, <2>1, <2>2
  <1>12. kept = [n \in 0..L |-> IF n = 0 THEN <<>> ELSE after(n, kept[n - 1])]
    <2>1. f = [n \in 0..L |-> IF n = 0 THEN <<>> ELSE after(n, f[n - 1])]
      BY <1>10, <1>11
    <2> QED
      BY <2>1
  <1> HIDE DEF kept
  <1> DEFINE S == {n \in 0..L : kept[n] \in D}
  <1>13. 0 \in S
    BY <1>2, <1>6, <1>12
  <1>14. ASSUME NEW n \in (0 + 1)..L, n - 1 \in S PROVE n \in S
    <2>1. n \in 1..L /\ n \in 0..L /\ n # 0 /\ kept[n - 1] \in D
      BY <1>2, <1>14
    <2> QED
      BY <1>7, <1>12, <2>1
  <1> HIDE DEF S
  <1>15. \A n \in 0..L : n \in S
    BY <1>9, <1>13, <1>14, UpFromTheFirst
  <1>16. all \in D
    BY <1>2, <1>15 DEF S
  <1> HIDE DEF all
  <1>17. ASSUME \A i \in DOMAIN text : good(text[i]) PROVE text \in D
    <2>1. text \in Seq(O)
      <3>1. \A n \in 1..L : text[n] \in O
        BY <1>2, <1>3, <1>17
      <3>2. text = [n \in 1..L |-> text[n]]
        BY DEF L
      <3> QED
        BY <1>2, <3>1, <3>2
    <2> QED
      BY <1>2, <2>1 DEF D, ShownAnswers, OneEngine, O
  <1>18. Filter(all, LAMBDA s : ~again(s)) \in D
    <2> DEFINE P == {s \in O : ~again(s)}
               out == Filter(all, LAMBDA s : ~again(s))
    <2>1. all \in Seq(O) /\ OneEngine(all)
      BY <1>16 DEF D, ShownAnswers, O
    <2> HIDE DEF again
    <2>2. Subsequence(out, all, P)
      <3>1. out = FlattenSeq([i \in DOMAIN all |-> IF all[i] \in P THEN <<all[i]>> ELSE <<>>])
        <4>1. \A i \in DOMAIN all : all[i] \in P <=> ~again(all[i])
          BY <2>1
        <4> HIDE DEF P
        <4> QED
          BY <4>1 DEF Filter
      <3> HIDE DEF out, P
      <3> QED
        BY <2>1, <3>1, FilterKeeps
    <2> HIDE DEF out
    <2>3. out \in Seq(O)
      <3>1. P \subseteq O /\ out \in Seq(P)
        BY <2>2 DEF Subsequence
      <3> HIDE DEF P
      <3> QED
        BY <3>1
    <2>4. PICK at \in [1..Len(out) -> 1..Len(all)] :
             /\ \A k \in 1..Len(out) : out[k] = all[at[k]]
             /\ \A j, k \in 1..Len(out) : j < k => at[j] < at[k]
      BY <2>2 DEF Subsequence
    <2>5. DOMAIN out = 1..Len(out) /\ Len(out) \in Nat /\ DOMAIN all = 1..Len(all) /\ Len(all) \in Nat
      BY <2>1, <2>3
    <2>6. \A j, k \in 1..Len(out) : out[j].said = "engine" /\ out[k].said = "engine" => at[j] = at[k]
      BY <2>1, <2>4, <2>5 DEF OneEngine
    <2>7. \A j, k \in 1..Len(out) : at[j] = at[k] => j = k
      <3> TAKE j, k \in 1..Len(out)
      <3>1. at[j] \in Int /\ at[k] \in Int /\ (j < k => at[j] < at[k]) /\ (k < j => at[k] < at[j])
        <4>1. at[j] \in 1..Len(all) /\ at[k] \in 1..Len(all)
          BY <2>4
        <4>2. at[j] \in Int /\ at[k] \in Int
          BY <2>5, <4>1
        <4> QED
          BY <2>4, <4>2
      <3> QED
        BY <2>5, <3>1
    <2>8. OneEngine(out)
      BY <2>5, <2>6, <2>7 DEF OneEngine
    <2> QED
      BY <2>3, <2>8 DEF D, ShownAnswers, O, out
  <1>19. restate(text, e) \in D
    <2> HIDE DEF again
    <2> QED
      BY <1>1, <1>16, <1>17, <1>18
  <1> QED
    BY <1>19 DEF D, e

(***************************************************************************)
(* Of an answer of any length about any row of the balance table no        *)
(* working is shown, outside a cited fact, that does not come to its total *)
(* and to the balance, no expiry is told the reader that the record does   *)
(* not have, and the engine is quoted once at most (check_pto_balance,     *)
(* arithmetic.apply).                                                      *)
(***************************************************************************)
THEOREM WorkingsHold ==
  ASSUME NEW F, BalanceFields \subseteq F, NEW C, NEW input \in [row : BalanceRows, text : Seq(BalanceSaid(F)), cited : C]
  PROVE  WorkingsAreTheRecords(input)
  <1> DEFINE row == input.row
             e == balance_of(row)
             balance == BalanceOf(row)
             text == input.text
             corrected == [i \in DOMAIN text |-> CorrectWorking(text[i], e)]
             out == ApplyArithmetic(input)
             quoted == {i \in DOMAIN out : out[i].said = "engine"}
  <1>1. row \in BalanceRows /\ text \in Seq(BalanceSaid(F))
    OBVIOUS
  <1>2. out = IF input.cited THEN corrected ELSE restate(corrected, e)
    BY DEF ApplyArithmetic
  <1> HIDE DEF row, text, out
  <1>3. /\ corrected \in Seq(BalanceSaid(F))
        /\ \A i \in DOMAIN corrected :
              ~(IsWorking(corrected[i]) /\ corrected[i].total # e.remaining) /\ ~(corrected[i].said = "expiry" /\ corrected[i].reader /\ ~corrected[i].told)
                 => AsRecorded(corrected[i], balance)
    <2> DEFINE n == Len(text)
               right(c) == ~(IsWorking(c) /\ c.total # e.remaining) /\ ~(c.said = "expiry" /\ c.reader /\ ~c.told) => AsRecorded(c, balance)
    <2>1. n \in Nat /\ DOMAIN text = 1..n /\ \A i \in 1..n : text[i] \in BalanceSaid(F)
      BY <1>1
    <2> HIDE DEF n
    <2>2. \A s \in BalanceSaid(F) : CorrectWorking(s, e) \in BalanceSaid(F) /\ right(CorrectWorking(s, e))
      BY <1>1, CorrectedIsRight
    <2> HIDE DEF e, right
    <2>3. corrected = [i \in 1..n |-> CorrectWorking(text[i], e)]
      BY <2>1
    <2> HIDE DEF corrected
    <2>4. corrected \in Seq(BalanceSaid(F)) /\ DOMAIN corrected = 1..n
      BY <2>1, <2>2, <2>3
    <2>5. \A i \in 1..n : right(corrected[i])
      BY <2>1, <2>2, <2>3
    <2> QED
      BY <2>4, <2>5 DEF right
  <1> HIDE DEF corrected
  <1>4. CASE input.cited
    BY <1>4 DEF WorkingsAreTheRecords
  <1>5. CASE ~input.cited
    <2>1. out \in ShownAnswers(F, row)
      <3>1. restate(corrected, balance_of(row)) \in ShownAnswers(F, row)
        BY <1>1, <1>3, RestateShows DEF e, balance
      <3> QED
        BY <1>2, <1>5, <3>1 DEF e
    <2>2. out \in Seq(Showable(F, row)) /\ OneEngine(out)
      BY <2>1 DEF ShownAnswers
    <2>3. \A i \in DOMAIN out : AsRecorded(out[i], balance)
      BY <2>2 DEF Showable
    <2>4. Cardinality(quoted) <= 1
      <3> HIDE DEF quoted
      <3>1. CASE quoted = {}
        <4>1. Cardinality(quoted) = 0
          BY <3>1, FS_EmptySet
        <4> QED
          BY <4>1
      <3>2. CASE quoted # {}
        <4>1. PICK i \in quoted : TRUE
          BY <3>2
        <4>2. quoted = {i}
          BY <2>2, <4>1 DEF OneEngine, quoted
        <4>3. Cardinality(quoted) = 1
          BY <4>2, FS_Singleton
        <4> QED
          BY <4>3
      <3> QED
        BY <3>1, <3>2
    <2> QED
      BY <2>3, <2>4 DEF WorkingsAreTheRecords, AsRecorded, Firsts, BalanceOf, balance, out, row
  <1> QED
    BY <1>4, <1>5

-----------------------------------------------------------------------------
(* Served: what is redacted, what capability and entailment leave, and the *)
(* names of approvers.                                                     *)
(***************************************************************************)
(* However deep a leaf of a payload is, it is shown neither as a secret    *)
(* nor under a key that is denied, a digest only under its own key;        *)
(* counters and texts under no such key are left, redacting twice is       *)
(* redacting once, and g6 says whether anything changed (redact,           *)
(* g6.check).                                                              *)
(***************************************************************************)
THEOREM NoSecret ==
  ASSUME NEW leaf \in [keys : Seq(Keys), value : {"secret", "digest", "number", "text", "redacted"}]
  PROVE  NoSecretIsShown(leaf)
  <1> DEFINE out == redact(leaf).value
             denied == \E i \in DOMAIN leaf.keys : leaf.keys[i] = "denied"
             innermost == leaf.keys[Len(leaf.keys)]
  <1>1. /\ leaf = [keys |-> leaf.keys, value |-> leaf.value] /\ leaf.keys \in Seq(Keys)
        /\ leaf.value \in {"secret", "digest", "number", "text", "redacted"}
    OBVIOUS
  <1>2. redact(leaf) = [keys |-> leaf.keys, value |-> redact_leaf(leaf)] /\ out = redact_leaf(leaf)
    BY <1>1 DEF redact
  <1>3. out = IF denied THEN "redacted"
              ELSE IF leaf.value = "digest" /\ leaf.keys # <<>> /\ innermost = "digest" THEN leaf.value
              ELSE IF leaf.value \in {"secret", "digest"} THEN "redacted" ELSE leaf.value
    BY <1>2 DEF redact_leaf
  <1>4. redact(redact(leaf)) = redact(leaf)
    <2> DEFINE again == redact(leaf)
    <2>1. again.keys = leaf.keys /\ again.value = out /\ again = [keys |-> leaf.keys, value |-> out]
      BY <1>2
    <2>2. redact_leaf(again) = out
      <3>1. redact_leaf(again) = IF denied THEN "redacted"
              ELSE IF out = "digest" /\ leaf.keys # <<>> /\ innermost = "digest" THEN out
              ELSE IF out \in {"secret", "digest"} THEN "redacted" ELSE out
        BY <2>1 DEF redact_leaf
      <3> HIDE DEF denied, innermost, again, out
      <3> QED
        BY <1>1, <1>3, <3>1
    <2> QED
      BY <2>1, <2>2 DEF redact
  <1>5. redact(leaf) # leaf <=> out # leaf.value
    BY <1>1, <1>2
  <1>6. g6_verdict(leaf) = "allow" <=> out = leaf.value
    BY <1>5 DEF g6_verdict
  <1>7. out # "secret" /\ (denied => out = "redacted") /\ (out = "digest" => innermost = "digest")
        /\ ((leaf.value \in {"number", "text"} /\ ~denied) => out = leaf.value)
    <2> HIDE DEF denied, innermost, out
    <2> QED
      BY <1>1, <1>3
  <1> QED
    BY <1>4, <1>6, <1>7 DEF NoSecretIsShown

(***************************************************************************)
(* Whatever blocks an answer has, no refusal hides a write that was made,  *)
(* failed, blocked or declined, a verdict against the reader or a fact     *)
(* that was found, and a turn that ran out is partial exactly when it says *)
(* so (the end of _answer, _unsupported, _verdict_lede).                   *)
(***************************************************************************)
THEOREM NothingHidden ==
  ASSUME NEW i, i.blocks \subseteq BlockKinds, i.stopped \in BOOLEAN, i.complete \in BOOLEAN,
         i.write \in {"none", "failed", "blocked", "declined", "made"}
  PROVE  NothingDoneIsHidden(i)
  <1> DEFINE served == Ledes(i) \cup i.blocks \cup (IF i.write = "made" THEN {"performed"} ELSE {})
             ran_out == i.stopped /\ ~_complete(i)
  <1>1. /\ "budget" \in served <=> ran_out
        /\ "write failed" \in served <=> i.write = "failed"
        /\ i.write = "declined" => "cancelled" \in served
        /\ i.write = "made" => "performed" \in served
        /\ _verdict_lede(i) => "record" \in served
        /\ i.blocks \subseteq served
    BY DEF Ledes, BlockKinds
  <1>2. Serve(i) = IF _unsupported(i, served) THEN [outcome |-> "refused", blocks |-> {}]
                   ELSE [outcome |-> IF "budget" \in served \/ i.write = "failed" THEN "partial" ELSE "answered",
                         blocks |-> served]
    BY DEF Serve
  <1> DEFINE out == Serve(i)
  <1> HIDE DEF served
  <1>3. _unsupported(i, served) => /\ i.write = "none" /\ ~i.stopped
                                   /\ served \cap {"policy_fact", "record", "performed"} = {}
    BY <1>1 DEF _unsupported
  <1>4. CASE _unsupported(i, served)
    <2>1. out = [outcome |-> "refused", blocks |-> {}]
      BY <1>2, <1>4
    <2>2. ~_verdict_lede(i) /\ i.blocks \cap {"policy_fact", "record"} = {} /\ i.write = "none"
      BY <1>1, <1>3, <1>4
    <2> QED
      BY <2>1, <2>2 DEF NothingDoneIsHidden, _verdict_lede
  <1>5. CASE ~_unsupported(i, served)
    <2>1. out = [outcome |-> IF "budget" \in served \/ i.write = "failed" THEN "partial" ELSE "answered", blocks |-> served]
      BY <1>2, <1>5
    <2>2. /\ out.outcome = "partial" \/ out.outcome = "answered"
          /\ out.outcome = "partial" <=> ran_out \/ i.write = "failed"
          /\ out.blocks = served
      <3>1. out.outcome = (IF "budget" \in served \/ i.write = "failed" THEN "partial" ELSE "answered") /\ out.blocks = served
        BY <2>1
      <3> HIDE DEF out, ran_out
      <3> QED
        BY <1>1, <3>1
    <2>3. (out.outcome = "partial") = ({"budget", "write failed"} \cap out.blocks # {})
      <3> HIDE DEF out, ran_out
      <3> QED
        BY <1>1, <2>2
    <2>4. out.outcome = "answered" /\ i.stopped => i.complete
      <3> HIDE DEF out
      <3> QED
        BY <2>2 DEF _complete
    <2>5. out.outcome # "refused"
      BY <2>2
    <2>6. i.write = "none" /\ i.verdict = "non_compliant" => "record" \in out.blocks
      BY <1>1, <2>2 DEF _verdict_lede
    <2>7. i.write = "declined" => "cancelled" \in out.blocks
      BY <1>1, <2>2
    <2> QED
      BY <2>3, <2>4, <2>5, <2>6, <2>7 DEF NothingDoneIsHidden
  <1> QED
    BY <1>4, <1>5

\* Capability strikes exactly the sentences it should, and leaves no empty block.
LEMMA WhatCapabilityLeaves ==
  ASSUME NEW S, NEW input, input.blocks \in Seq(Seq(S))
  PROVE  LET out == ApplyCapability(input)
             sentences == UNION {ToSet(b) : b \in ToSet(input.blocks)}
         IN  /\ UNION {ToSet(b) : b \in ToSet(out)} = {s \in sentences : ~Struck(s, input)}
             /\ \A b \in ToSet(out) : b # <<>>
  <1> DEFINE P == {s \in S : ~Struck(s, input)}
             blocks == input.blocks
             kept(b) == Filter(b, LAMBDA s : ~Struck(s, input))
             left == [i \in DOMAIN blocks |-> kept(blocks[i])]
             full == Seq(S) \ {<<>>}
             out == ApplyCapability(input)
  <1>1. ASSUME NEW b \in Seq(S) PROVE kept(b) \in Seq(S) /\ ToSet(kept(b)) = ToSet(b) \cap P
    <2> DEFINE f == [i \in DOMAIN b |-> IF b[i] \in P THEN <<b[i]>> ELSE <<>>]
    <2>1. \A i \in DOMAIN b : b[i] \in P <=> ~Struck(b[i], input)
      OBVIOUS
    <2>2. kept(b) = FlattenSeq(f)
      BY <2>1 DEF Filter
    <2> HIDE DEF P
    <2>3. Subsequence(FlattenSeq(f), b, P)
      BY FilterKeeps
    <2>4. kept(b) \in Seq(P) /\ ToSet(kept(b)) = ToSet(b) \cap P
      BY <2>2, <2>3 DEF Subsequence
    <2> HIDE DEF kept
    <2> QED
      BY <2>4 DEF P
  <1> HIDE DEF kept, P
  <1>2. left \in Seq(Seq(S)) /\ DOMAIN left = DOMAIN blocks /\ DOMAIN blocks = 1..Len(blocks)
    <2>1. Len(blocks) \in Nat /\ DOMAIN blocks = 1..Len(blocks) /\ \A i \in 1..Len(blocks) : blocks[i] \in Seq(S)
      OBVIOUS
    <2>2. \A i \in 1..Len(blocks) : kept(blocks[i]) \in Seq(S)
      BY <1>1, <2>1
    <2> QED
      BY <2>1, <2>2
  <1>3. out = Filter(left, LAMBDA b : b # <<>>)
    BY DEF ApplyCapability, kept
  <1>4. \A i \in DOMAIN left : left[i] \in full <=> left[i] # <<>>
    BY <1>2
  <1>5. out = FlattenSeq([i \in DOMAIN left |-> IF left[i] \in full THEN <<left[i]>> ELSE <<>>])
    BY <1>3, <1>4 DEF Filter
  <1> HIDE DEF left, full, out
  <1>6. Subsequence(out, left, full)
    BY <1>2, <1>5, FilterKeeps
  <1>7. ToSet(out) = ToSet(left) \cap full
    BY <1>6 DEF Subsequence
  <1>8. ToSet(left) = {kept(blocks[i]) : i \in DOMAIN blocks} /\ ToSet(blocks) = {blocks[i] : i \in DOMAIN blocks}
    BY <1>2 DEF left, ToSet
  <1>9. UNION {ToSet(b) : b \in ToSet(out)} = UNION {ToSet(b) : b \in ToSet(left)}
    <2>1. \A b \in ToSet(left) \ full : ToSet(b) = {}
      BY <1>2 DEF full, ToSet
    <2> QED
      BY <1>7, <2>1
  <1>10. UNION {ToSet(b) : b \in ToSet(left)} = (UNION {ToSet(b) : b \in ToSet(blocks)}) \cap P
    <2>1. \A i \in DOMAIN blocks : ToSet(kept(blocks[i])) = ToSet(blocks[i]) \cap P
      BY <1>1, <1>2
    <2> QED
      BY <1>8, <2>1
  <1>11. \A s \in UNION {ToSet(b) : b \in ToSet(blocks)} : s \in S
    BY <1>2 DEF ToSet
  <1>12. \A b \in ToSet(out) : b # <<>>
    BY <1>7 DEF full
  <1>13. UNION {ToSet(b) : b \in ToSet(out)} = {s \in UNION {ToSet(b) : b \in ToSet(blocks)} : ~Struck(s, input)}
    BY <1>9, <1>10, <1>11 DEF P
  <1> QED
    BY <1>12, <1>13 DEF out

(***************************************************************************)
(* Of an answer of any length nothing is struck but the denial of a        *)
(* permitted tool and the contradiction of a profile that was read, no     *)
(* block is left empty, and a next step that is kept names nothing but     *)
(* what is still said or a tool returned, and repeats no sentence that is  *)
(* (capability.apply, entailment.apply).                                   *)
(***************************************************************************)
THEOREM StepsStand ==
  ASSUME NEW F,
         NEW input \in [blocks : Seq(Seq([denies : {"none", "permitted", "disabled"}, contradicts : BOOLEAN, facts : SUBSET F])),
                        envelope : SUBSET F, profile : BOOLEAN, step : [facts : SUBSET F, repeats : BOOLEAN]]
  PROVE  StepsStandOnTheAnswer(input)
  <1> DEFINE S == [denies : {"none", "permitted", "disabled"}, contradicts : BOOLEAN, facts : SUBSET F]
             out == ApplyCapability(input)
             sentences == UNION {ToSet(b) : b \in ToSet(input.blocks)}
             shown == {s \in sentences : s.denies # "permitted" /\ (s.contradicts => ~input.profile)}
             step == input.step
  <1>1. input.blocks \in Seq(Seq(S)) /\ input.profile \in BOOLEAN /\ step \in [facts : SUBSET F, repeats : BOOLEAN]
    OBVIOUS
  <1>2. {s \in sentences : ~Struck(s, input)} = shown
    BY DEF Struck
  <1>3. UNION {ToSet(b) : b \in ToSet(out)} = shown /\ \A b \in ToSet(out) : b # <<>>
    <2> HIDE DEF S
    <2> QED
      BY <1>1, <1>2, WhatCapabilityLeaves
  <1> HIDE DEF out, shown
  <1>4. Grounds(out, input) = input.envelope \cup UNION {s.facts : s \in shown}
    BY <1>3 DEF Grounds
  <1>5. said_in_a_block(step, out) <=> step.repeats /\ \E s \in shown : s.denies = "none" /\ s.facts = step.facts
    BY <1>3 DEF said_in_a_block
  <1>6. StepIsKept(input) <=> ~said_in_a_block(step, out) /\ step.facts \subseteq Grounds(out, input)
    BY DEF StepIsKept, out
  <1>7. StepIsKept(input) =>
              /\ \A f \in step.facts : f \in input.envelope \/ \E s \in shown : f \in s.facts
              /\ step.repeats => \A s \in shown : s.denies # "none" \/ s.facts # step.facts
    BY <1>4, <1>5, <1>6
  <1>8. step.facts = {} /\ ~step.repeats => StepIsKept(input)
    BY <1>5, <1>6
  <1> QED
    BY <1>3, <1>7, <1>8 DEF StepsStandOnTheAnswer, out, shown

\* The place i of the list is where its role is mentioned first.
FirstMention(listed, i) == \A j \in 1..(i - 1) : listed[j].role # listed[i].role

\* Every role that is listed is resolved once, by the entry it is first listed with.
LEMMA FirstMentionCounts ==
  ASSUME NEW T, NEW listed \in Seq(T)
  PROVE  /\ approvers(listed) \in Seq(T) /\ ToSet(approvers(listed)) \subseteq ToSet(listed)
         /\ \A i \in DOMAIN listed : FirstMention(listed, i) => listed[i] \in ToSet(approvers(listed))
         /\ \A i \in DOMAIN listed : \E e \in ToSet(approvers(listed)) : e.role = listed[i].role
         /\ \A e \in ToSet(approvers(listed)) : \E i \in DOMAIN listed : listed[i] = e
  <1> DEFINE first(e) == CHOOSE i \in DOMAIN listed :
                              listed[i].role = e.role /\ \A j \in 1..(i - 1) : listed[j].role # e.role
             P == {e \in T : e = listed[first(e)]}
             out == approvers(listed)
  <1>1. Len(listed) \in Nat /\ DOMAIN listed = 1..Len(listed) /\ \A i \in DOMAIN listed : listed[i] \in T
    OBVIOUS
  <1>2. out = FlattenSeq([i \in DOMAIN listed |-> IF listed[i] \in P THEN <<listed[i]>> ELSE <<>>])
    <2>1. \A i \in DOMAIN listed : listed[i] \in P <=> listed[i] = listed[first(listed[i])]
      BY <1>1
    <2>2. out = FlattenSeq([i \in DOMAIN listed |-> IF listed[i] = listed[first(listed[i])] THEN <<listed[i]>> ELSE <<>>])
      BY DEF approvers, Filter
    <2> HIDE DEF P, first
    <2> QED
      BY <2>1, <2>2
  <1>3. ASSUME NEW i \in DOMAIN listed, FirstMention(listed, i) PROVE first(listed[i]) = i
    <2>1. listed[i].role = listed[i].role /\ \A j \in 1..(i - 1) : listed[j].role # listed[i].role
      BY <1>3 DEF FirstMention
    <2>2. \A k \in DOMAIN listed : (listed[k].role = listed[i].role /\ \A j \in 1..(k - 1) : listed[j].role # listed[i].role) => k = i
      <3> SUFFICES ASSUME NEW k \in DOMAIN listed, listed[k].role = listed[i].role,
                          \A j \in 1..(k - 1) : listed[j].role # listed[i].role
                   PROVE  k = i
        OBVIOUS
      <3>1. ~(i \in 1..(k - 1)) /\ ~(k \in 1..(i - 1))
        BY <2>1
      <3> QED
        BY <1>1, <3>1
    <2> QED
      BY <2>1, <2>2
  <1> HIDE DEF first
  <1>4. Subsequence(out, listed, P)
    <2> HIDE DEF P
    <2> QED
      BY <1>2, FilterKeeps
  <1>5. out \in Seq(P) /\ ToSet(out) = ToSet(listed) \cap P
    BY <1>4 DEF Subsequence
  <1>6. out \in Seq(T)
    BY <1>5
  <1> HIDE DEF out
  <1>7. \A i \in DOMAIN listed : FirstMention(listed, i) => listed[i] \in ToSet(out)
    BY <1>1, <1>3, <1>5 DEF ToSet
  <1>8. ASSUME NEW i \in DOMAIN listed PROVE \E e \in ToSet(out) : e.role = listed[i].role
    <2> DEFINE same == {j \in DOMAIN listed : listed[j].role = listed[i].role}
               m == Min(same)
    <2>1. same \in SUBSET Nat /\ same # {}
      BY <1>1
    <2> HIDE DEF same
    <2>2. m \in same /\ \A j \in same : m <= j
      BY <2>1, MinIsLeast
    <2> HIDE DEF m
    <2>3. m \in DOMAIN listed /\ listed[m].role = listed[i].role
      BY <2>2 DEF same
    <2>4. \A j \in 1..(m - 1) : listed[j].role # listed[i].role
      BY <1>1, <2>2, <2>3 DEF same
    <2>5. FirstMention(listed, m)
      BY <2>3, <2>4 DEF FirstMention
    <2> QED
      BY <1>7, <2>3, <2>5
  <1>9. \A e \in ToSet(out) : \E i \in DOMAIN listed : listed[i] = e
    BY <1>5 DEF ToSet
  <1> QED
    BY <1>5, <1>6, <1>7, <1>8, <1>9 DEF out

\* Nobody a request is approved by is the reader, and everybody has a name.
PeopleOf(N) == N \ {Reader, "none"}

\* Entries of an approver list.
Entries(R, N) == [role : R, name : PeopleOf(N), routed : BOOLEAN]

\* What a text may say of approvers.
ApprovalSayings(R, N) == [said : {"role", "person", "approved by", "other"}, role : R \cup {"none"}, name : N \cup {"none", Reader}]

\* The one above is somebody who is resolved, and there is one when anybody is routed
\* or is the manager.
LEMMA OneAbove ==
  ASSUME NEW R, NEW N, NEW resolved \in Seq(Entries(R, N))
  PROVE  /\ Higher(resolved) \subseteq ToSet(resolved)
         /\ \A e \in ToSet(resolved) : e.routed \/ e.role = "manager" => Higher(resolved) # {}
         /\ \A e \in ToSet(resolved) : e.name \in PeopleOf(N) /\ e.name # "none" /\ e.name # Reader
  <1> DEFINE E == Entries(R, N)
             P == {x \in E : x.routed}
             routed == Filter(resolved, LAMBDA x : x.routed)
  <1>1. ToSet(resolved) \subseteq E /\ \A i \in DOMAIN resolved : resolved[i] \in E
    BY RangeIsFinite
  <1>2. \A e \in ToSet(resolved) : e.name \in PeopleOf(N) /\ e.name # "none" /\ e.name # Reader
    BY <1>1 DEF PeopleOf, Entries
  <1>3. routed = FlattenSeq([i \in DOMAIN resolved |-> IF resolved[i] \in P THEN <<resolved[i]>> ELSE <<>>])
    <2>1. \A i \in DOMAIN resolved : resolved[i] \in P <=> resolved[i].routed
      BY <1>1 DEF Entries
    <2> HIDE DEF P
    <2> QED
      BY <2>1 DEF Filter
  <1>4. Subsequence(routed, resolved, P)
    <2> HIDE DEF P, routed
    <2> QED
      BY <1>3, FilterKeeps
  <1>5. Higher(resolved) = {x \in IF routed # <<>> THEN {Head(routed)} ELSE For(resolved, "manager") : x.name # Reader}
    BY DEF Higher
  <1> HIDE DEF routed
  <1>6. routed \in Seq(P) /\ ToSet(routed) = ToSet(resolved) \cap P
    BY <1>4 DEF Subsequence
  <1>7. routed # <<>> => Head(routed) \in ToSet(resolved)
    <2> HIDE DEF P
    <2>1. routed # <<>> => Head(routed) \in ToSet(routed)
      BY <1>6 DEF ToSet
    <2> QED
      BY <1>6, <2>1
  <1>8. ASSUME NEW e \in ToSet(resolved), e.routed \/ e.role = "manager" PROVE Higher(resolved) # {}
    <2>1. CASE routed # <<>>
      BY <1>2, <1>5, <1>7, <2>1
    <2>2. CASE routed = <<>>
      <3>1. ToSet(routed) = {}
        BY <2>2 DEF ToSet
      <3>2. ~e.routed
        BY <1>1, <1>6, <3>1
      <3> QED
        BY <1>2, <1>5, <1>8, <2>2, <3>2 DEF For
    <2> QED
      BY <2>1, <2>2
  <1> QED
    BY <1>2, <1>5, <1>7, <1>8 DEF For

\* What is right of the phrase q that stands where p stood.
PhraseIsRight(q, p, listed) ==
    /\ q.said = "role" /\ (\E i \in DOMAIN listed : listed[i].role = q.role) => q.name # "none"
    /\ q.said = "approved by" /\ (\E i \in DOMAIN listed :
          (listed[i].routed \/ listed[i].role = "manager") /\ FirstMention(listed, i)) => q.name # Reader
    /\ q.name = p.name \/ \E i \in DOMAIN listed : q.name = listed[i].name

\* Every phrase is put right.
LEMMA PhraseByPhrase ==
  ASSUME NEW R, NEW N,
         NEW listed \in Seq(Entries(R, N)),
         NEW p \in ApprovalSayings(R, N)
  PROVE  PhraseIsRight(NameApprover(p, approvers(listed)), p, listed)
  <1> DEFINE resolved == approvers(listed)
             q == NameApprover(p, resolved)
             entry == For(resolved, p.role)
             e == CHOOSE x \in entry : TRUE
             h == CHOOSE x \in Higher(resolved) : TRUE
  <1>1. /\ resolved \in Seq(Entries(R, N)) /\ ToSet(resolved) \subseteq ToSet(listed)
        /\ \A i \in DOMAIN listed : FirstMention(listed, i) => listed[i] \in ToSet(resolved)
        /\ \A i \in DOMAIN listed : \E x \in ToSet(resolved) : x.role = listed[i].role
        /\ \A x \in ToSet(resolved) : \E i \in DOMAIN listed : listed[i] = x
    BY FirstMentionCounts
  <1>2. SUFFICES PhraseIsRight(q, p, listed)
    OBVIOUS
  <1> HIDE DEF resolved
  <1>3. /\ Higher(resolved) \subseteq ToSet(resolved)
        /\ \A x \in ToSet(resolved) : x.routed \/ x.role = "manager" => Higher(resolved) # {}
        /\ \A x \in ToSet(resolved) : x.name # "none" /\ x.name # Reader
    BY <1>1, OneAbove
  <1>4. entry # {} => e \in ToSet(resolved)
    BY DEF For
  <1>5. Higher(resolved) # {} => h \in ToSet(resolved)
    BY <1>3
  <1>6. ASSUME NEW i \in DOMAIN listed, listed[i].role = p.role PROVE entry # {}
    BY <1>1, <1>6 DEF For
  <1>7. ASSUME NEW i \in DOMAIN listed, listed[i].routed \/ listed[i].role = "manager", FirstMention(listed, i)
        PROVE  Higher(resolved) # {}
    BY <1>1, <1>3, <1>7
  <1>8. CASE p.said = "role" /\ p.name = "none" /\ entry # {}
    <2>1. q = [p EXCEPT !.name = e.name, !.said = IF e.routed THEN "person" ELSE "role"]
      BY <1>8 DEF NameApprover
    <2>2. q.name = e.name /\ q.said \in {"person", "role"}
      BY <2>1 DEF ApprovalSayings
    <2>3. q.name # "none" /\ \E i \in DOMAIN listed : q.name = listed[i].name
      <3>1. e \in ToSet(resolved)
        BY <1>4, <1>8
      <3> HIDE DEF q, e, entry
      <3> QED
        BY <1>1, <1>3, <2>2, <3>1
    <2> HIDE DEF q, e, entry
    <2> QED
      BY <2>2, <2>3 DEF PhraseIsRight
  <1>9. CASE ~(p.said = "role" /\ p.name = "none" /\ entry # {}) /\ p.said = "approved by" /\ p.name = Reader /\ Higher(resolved) # {}
    <2>1. q = [p EXCEPT !.name = h.name]
      BY <1>9 DEF NameApprover
    <2>2. q.name = h.name /\ q.said = "approved by"
      BY <1>9, <2>1 DEF ApprovalSayings
    <2>3. q.name # Reader /\ \E i \in DOMAIN listed : q.name = listed[i].name
      <3>1. h \in ToSet(resolved)
        BY <1>5, <1>9
      <3> HIDE DEF q, h, e, entry
      <3> QED
        BY <1>1, <1>3, <2>2, <3>1
    <2> HIDE DEF q, h, e, entry
    <2> QED
      BY <2>2, <2>3 DEF PhraseIsRight
  <1>10. CASE ~(p.said = "role" /\ p.name = "none" /\ entry # {}) /\ ~(p.said = "approved by" /\ p.name = Reader /\ Higher(resolved) # {})
    <2>1. q = p
      BY <1>10 DEF NameApprover
    <2> HIDE DEF q, entry, e, h
    <2> QED
      BY <1>6, <1>7, <1>10, <2>1 DEF PhraseIsRight
  <1> QED
    BY <1>8, <1>9, <1>10

\* The line that is added names the people who are resolved, each once.
LEMMA LineOfThePeople ==
  ASSUME NEW T, NEW resolved \in Seq(T)
  PROVE  LET line == RecordLine(resolved)
         IN  /\ {p.name : p \in ToSet(line)} = {e.name : e \in ToSet(resolved)}
  <1> DEFINE names == {e.name : e \in ToSet(resolved)}
             line == RecordLine(resolved)
             n == Cardinality(names)
             s == SetToSeq(names)
  <1>1. IsFiniteSet(names)
    <2>1. IsFiniteSet(ToSet(resolved))
      BY RangeIsFinite
    <2> DEFINE f == [e \in ToSet(resolved) |-> e.name]
    <2>2. f \in Surjection(ToSet(resolved), names)
      BY DEF Surjection
    <2> QED
      BY <2>1, <2>2, FS_Surjection
  <1>2. line = [i \in 1..n |-> [said |-> "person", role |-> "none", name |-> s[i]]]
    BY DEF RecordLine
  <1> HIDE DEF names
  <1>3. n \in Nat /\ s \in Seq(names) /\ Len(s) = n /\ ToSet(s) = names
    BY <1>1, SetToSeqIsIt
  <1> HIDE DEF n, s, line
  <1>4. ToSet(s) = {s[i] : i \in 1..n}
    BY <1>3 DEF ToSet
  <1>5. ToSet(line) = {[said |-> "person", role |-> "none", name |-> s[i]] : i \in 1..n}
    BY <1>2, <1>3 DEF ToSet
  <1>6. {p.name : p \in ToSet(line)} = {s[i] : i \in 1..n}
    <2>1. \A i \in 1..n : [said |-> "person", role |-> "none", name |-> s[i]].name = s[i]
      OBVIOUS
    <2>2. \A p \in ToSet(line) : \E i \in 1..n : p.name = s[i]
      BY <1>5, <2>1
    <2>3. \A i \in 1..n : \E p \in ToSet(line) : p.name = s[i]
      BY <1>5, <2>1
    <2> QED
      BY <2>2, <2>3
  <1> QED
    BY <1>3, <1>4, <1>6 DEF line, names

\* Corrected, a text names only people it named or who are listed.
LEMMA TextByText ==
  ASSUME NEW R, NEW N,
         NEW listed \in Seq(Entries(R, N)),
         NEW text \in Seq(ApprovalSayings(R, N))
  PROVE  \A q \in ToSet(CorrectApprovers(text, approvers(listed))) :
            \E p \in ToSet(text) : PhraseIsRight(q, p, listed)
  <1> DEFINE after == CorrectApprovers(text, approvers(listed))
  <1>1. DOMAIN text = 1..Len(text) /\ \A k \in DOMAIN text : text[k] \in ApprovalSayings(R, N) /\ text[k] \in ToSet(text)
    BY DEF ToSet
  <1>2. after = [k \in DOMAIN text |-> NameApprover(text[k], approvers(listed))]
    BY DEF CorrectApprovers
  <1>3. \A k \in DOMAIN text : PhraseIsRight(after[k], text[k], listed)
    BY <1>1, <1>2, PhraseByPhrase
  <1> HIDE DEF after
  <1>4. ToSet(after) = {after[k] : k \in DOMAIN text}
    BY <1>2 DEF ToSet
  <1> QED
    BY <1>1, <1>3, <1>4 DEF after

\* The names that texts name.
NamesIn(texts) == {p.name : p \in UNION {ToSet(t) : t \in texts}}

\* Which names these are.
LEMMA NamesInSaysAll ==
  ASSUME NEW T
  PROVE  /\ \A n : n \in NamesIn(T) <=> \E t \in T : \E p \in ToSet(t) : n = p.name
         /\ \A S : (\A n : n \in S => n \in NamesIn(T)) => S \subseteq NamesIn(T)
         /\ \A S : (\A n : n \in NamesIn(T) => n \in S) => NamesIn(T) \subseteq S
  BY DEF NamesIn

\* What the empty sequence and sequences of one and two entries say.
LEMMA ShortSequences ==
  /\ ToSet(<<>>) = {}
  /\ \A x : ToSet(<<x>>) = {x} /\ <<x>>[1] = x
  /\ \A x, y : ToSet(<<x, y>>) = {x, y} /\ <<x, y>>[1] = x
  BY DEF ToSet

(***************************************************************************)
(* However many approvers are resolved, an answer of any length names one  *)
(* of them; outside a cited fact no role that is resolved is left without  *)
(* its person and the reader approves nothing of their own when somebody   *)
(* above is known; and no name is written that was neither resolved nor    *)
(* said (approvers.correct, apply).                                        *)
(***************************************************************************)
THEOREM ApproversNamed ==
  ASSUME NEW R, NEW N,
         NEW listed \in Seq(Entries(R, N)),
         NEW text \in Seq(ApprovalSayings(R, N)),
         NEW step \in Seq(ApprovalSayings(R, N)),
         NEW cited \in BOOLEAN
  PROVE  ApproversAreNamed([listed |-> listed, text |-> text, cited |-> cited, step |-> step])
  <1> DEFINE i == [listed |-> listed, text |-> text, cited |-> cited, step |-> step]
             resolved == approvers(listed)
             out == ApplyApprovers(i)
             said == IF cited THEN text ELSE CorrectApprovers(text, resolved)
             instead == CorrectApprovers(step, resolved)
             known == {listed[k].name : k \in DOMAIN listed}
             called == {e.name : e \in ToSet(resolved)}
             line == RecordLine(resolved)
             named == names_an_approver(said, resolved)
             some == resolved # <<>>
  <1>1. /\ \E T : resolved \in Seq(T)
        /\ \A k \in DOMAIN listed : \E e \in ToSet(resolved) : e.role = listed[k].role
        /\ \A x \in ToSet(resolved) : \E k \in DOMAIN listed : listed[k] = x
    BY FirstMentionCounts
  <1>2. \A q \in ToSet(instead) : \E p \in ToSet(step) : PhraseIsRight(q, p, listed)
    BY TextByText
  <1>3. ~cited => \A q \in ToSet(said) : \E p \in ToSet(text) : PhraseIsRight(q, p, listed)
    BY TextByText
  <1>4. cited => said = text
    OBVIOUS
  <1> HIDE DEF resolved
  <1>5. {p.name : p \in ToSet(line)} = called
    BY <1>1, LineOfThePeople
  <1>6. named <=> \E p \in ToSet(said) : p.name \in called
    BY DEF names_an_approver
  <1>7. out = [blocks |-> IF some /\ ~named THEN <<said, line>> ELSE <<said>>, step |-> instead]
    BY DEF ApplyApprovers, resolved
  <1>8. some \in BOOLEAN /\ named \in BOOLEAN
    BY DEF names_an_approver
  <1>9. i.listed = listed /\ i.text = text /\ i.cited = cited /\ i.step = step
    OBVIOUS
  <1> HIDE DEF line, said, instead, out, named, i
  <1>10. /\ out.step = instead /\ out.blocks[1] = said
         /\ ToSet(out.blocks) = IF some /\ ~named THEN {said, line} ELSE {said}
    <2>1. out.blocks = (IF some /\ ~named THEN <<said, line>> ELSE <<said>>) /\ out.step = instead
      BY <1>7
    <2> QED
      BY <2>1, ShortSequences
  <1>11. \A x, y : PhraseIsRight(x, y, listed) => x.name = y.name \/ x.name \in known
    BY DEF PhraseIsRight
  <1>12. \A n \in called : n \in known
    BY <1>1
  <1>13. known # {} => some /\ \E n : n \in called
    <2> SUFFICES ASSUME known # {} PROVE some /\ \E n : n \in called
      OBVIOUS
    <2>1. PICK k \in DOMAIN listed : TRUE
      OBVIOUS
    <2>2. PICK e \in ToSet(resolved) : e.role = listed[k].role
      BY <1>1, <2>1
    <2>3. e.name \in called
      BY <2>2
    <2> QED
      BY <2>2, <2>3, ShortSequences
  <1>14. (\A n \in called : \E p \in ToSet(line) : p.name = n) /\ \A p \in ToSet(line) : p.name \in called
    <2>1. \A n \in {p.name : p \in ToSet(line)} : \E p \in ToSet(line) : p.name = n
      OBVIOUS
    <2>2. \A p \in ToSet(line) : p.name \in {q.name : q \in ToSet(line)}
      OBVIOUS
    <2> HIDE DEF called
    <2> QED
      BY <1>5, <2>1, <2>2
  <1> HIDE DEF known, called, some
  <1>15. /\ \A q \in ToSet(said) : (\E p \in ToSet(text) : q.name = p.name) \/ q.name \in known
         /\ \A q \in ToSet(instead) : (\E p \in ToSet(step) : q.name = p.name) \/ q.name \in known
    BY <1>2, <1>3, <1>4, <1>11
  <1>16. /\ known # {} => NamesIn(ToSet(out.blocks)) \cap known # {}
         /\ NamesIn(ToSet(out.blocks) \cup {instead}) \subseteq known \cup {"none"} \cup NamesIn({text, step})
    <2> DEFINE blocks == ToSet(out.blocks)
    <2>1. blocks = IF some /\ ~named THEN {said, line} ELSE {said}
      BY <1>10
    <2>2. named => \E p \in ToSet(said) : p.name \in called
      BY <1>6
    <2> HIDE DEF blocks
    <2> DEFINE all == blocks \cup {instead}
               given == {text, step}
               allowed == known \cup {"none"} \cup NamesIn(given)
    <2>3. \A n : n \in NamesIn(blocks) <=> \E t \in blocks : \E p \in ToSet(t) : n = p.name
      BY NamesInSaysAll
    <2>4. /\ text \in given /\ step \in given /\ \A t \in all : t = said \/ t = line \/ t = instead
          /\ said \in blocks /\ (some /\ ~named => line \in blocks)
      BY <2>1
    <2> HIDE DEF given
    <2>5. \A n : n \in NamesIn(given) <=> \E t \in given : \E p \in ToSet(t) : n = p.name
      BY NamesInSaysAll
    <2>6. \A t \in all : \A p \in ToSet(t) : p.name \in allowed
      BY <1>12, <1>14, <1>15, <2>4, <2>5
    <2> HIDE DEF all, allowed
    <2>7. \A n : n \in NamesIn(all) <=> \E t \in all : \E p \in ToSet(t) : n = p.name
      BY NamesInSaysAll
    <2>8. \A n : n \in NamesIn(all) => n \in allowed
      BY <2>6, <2>7
    <2>9. NamesIn(all) \subseteq allowed
      BY <2>8, NamesInSaysAll
    <2>10. known # {} => \E n \in known : n \in NamesIn(blocks)
      BY <1>12, <1>13, <1>14, <2>2, <2>3, <2>4
    <2> QED
      BY <2>9, <2>10 DEF all, allowed, given, blocks
  <1>17. ASSUME NEW t \in (IF cited THEN {out.step} ELSE {out.step, out.blocks[1]}), NEW p \in ToSet(t)
         PROVE  /\ p.said = "role" /\ (\E k \in DOMAIN listed : listed[k].role = p.role) => p.name # "none"
                /\ p.said = "approved by" /\ (\E k \in DOMAIN listed :
                      /\ listed[k].routed \/ listed[k].role = "manager"
                      /\ \A j \in 1..(k - 1) : listed[j].role # listed[k].role) => p.name # Reader
    <2>1. t = instead \/ (~cited /\ t = said)
      BY <1>10
    <2>2. PICK x : PhraseIsRight(p, x, listed)
      BY <1>2, <1>3, <2>1
    <2> QED
      BY <2>2 DEF PhraseIsRight, FirstMention
  <1>18. /\ known # {} => NamesIn(ToSet(out.blocks)) \cap known # {}
         /\ NamesIn(ToSet(out.blocks) \cup {out.step}) \subseteq known \cup {"none"} \cup NamesIn({i.text, i.step})
    BY <1>9, <1>10, <1>16
  <1>19. ApproversAreNamed(i)
    BY <1>9, <1>17, <1>18 DEF ApproversAreNamed, out, NamesIn, known
  <1> QED
    BY <1>19 DEF i

-----------------------------------------------------------------------------
(* What the questions of Answers are asked of is among these inputs.       *)
\* The answers that are put are repaired.
LEMMA AskedToCite ==
  ASSUME NEW i \in CitationInputs
  PROVE  CitationsAreSound(i)
  <1> DEFINE Q == {{}, {"c1"}, {"c3"}}
             N == {{"c1"}, {"c1", "c2"}}
             Types == {"policy_fact", "recommendation"}
             Claims == {1}
             B == AnswerBlocks(Types, Claims, CitedIds)
  <1>1. IndexChunks = {"c1", "c2", "c3"}
    BY DEF IndexChunks, ChunkDoc
  <1>2. \A e \in Evidences : DOMAIN e \subseteq IndexChunks
    <2>1. \A x \in SUBSET {"c1", "c3"} : \A e \in [x -> Shown] : DOMAIN e \subseteq IndexChunks
      BY <1>1
    <2>2. \A x \in {{"c2"}, {"c1", "c2"}, IndexChunks} : DOMAIN [c \in x |-> "faithful"] \subseteq IndexChunks
      BY <1>1
    <2> SUFFICES ASSUME NEW e \in Evidences PROVE DOMAIN e \subseteq IndexChunks
      OBVIOUS
    <2>3. CASE \E x \in SUBSET {"c1", "c3"} : e \in [x -> Shown]
      BY <2>1, <2>3
    <2>4. CASE \E x \in {{"c2"}, {"c1", "c2"}, IndexChunks} : e = [c \in x |-> "faithful"]
      BY <2>2, <2>4
    <2> QED
      BY <2>3, <2>4 DEF Evidences
  <1>3. CiteLists \subseteq Seq(CitedIds)
    <2>1. IndexChunks \subseteq CitedIds /\ "x" \in CitedIds /\ "short" \in CitedIds /\ "c3" \in CitedIds /\ "c1" \in CitedIds
      BY <1>1 DEF CitedIds, Mangled, Fragment
    <2> SUFFICES ASSUME NEW l \in CiteLists PROVE l \in Seq(CitedIds)
      OBVIOUS
    <2>2. CASE \E c \in IndexChunks : l = <<c>>
      BY <2>1, <2>2, ShortLists
    <2>3. CASE l \in {<<>>, <<"x">>, <<"short", "c3">>, <<"x", "c1">>}
      BY <2>1, <2>3, ShortLists
    <2> QED
      BY <2>2, <2>3 DEF CiteLists
  <1>4. \A t \in Types, c \in CiteLists : Cites(t, c) \in B
    BY <1>3 DEF Cites, AnswerBlocks
  <1>5. PICK e \in Evidences, q \in Q, n \in N, s \in Types, t \in Types, a \in CiteLists, b \in CiteLists :
           i = [evidence |-> e, quarantined |-> q, near |-> n, blocks |-> <<Cites(s, a), Cites(t, b)>>]
    BY DEF CitationInputs
  <1>6. <<Cites(s, a), Cites(t, b)>> \in Seq(B) /\ <<Cites(s, a), Cites(t, b)>> # <<>>
    <2> DEFINE x == Cites(s, a)
               y == Cites(t, b)
    <2>1. x \in B /\ y \in B
      BY <1>4
    <2> HIDE DEF x, y, B
    <2>2. <<x, y>> \in Seq(B) /\ <<x, y>> # <<>>
      BY <2>1, ShortLists
    <2> QED
      BY <2>2 DEF x, y
  <1>7. i \in Repairs(Evidences, Q, N, Types, Claims, CitedIds)
    BY <1>2, <1>5, <1>6 DEF Repairs
  <1>8. i.blocks # <<>> /\ {"c1", "c3"} \subseteq CitedIds
    BY <1>1, <1>5, <1>6 DEF CitedIds
  <1> QED
    BY <1>7, <1>8, CitationsSound

\* So are the scores.
LEMMA AskedToPass ==
  ASSUME NEW i \in G1Inputs
  PROVE  EvidenceGate(i)
  <1>1. PICK s \in SeqOf({4, 5, 6}, 3), w \in BOOLEAN : i = [scores |-> s, grounded_by_write |-> w]
    BY DEF G1Inputs, SeqOf
  <1>2. s \in Seq({4, 5, 6})
    BY ListsAreSequences
  <1>3. s \in Seq(0..6) /\ 6 \in Nat
    BY <1>2
  <1> QED
    BY <1>1, <1>3, TheGate

\* The results that are gathered.
LEMMA AskedToGather ==
  ASSUME NEW i \in GatherInputs
  PROVE  EvidenceComesBack(i)
  <1> DEFINE C == {"c1", "c2", Fragment}
             S == [tool : {"search"}, chunk : {"c1", "c2", Fragment}, snippet_orders : BOOLEAN]
                     \cup [tool : {"engine"}, chunk : {"c1", "c2", Fragment}, snippet_orders : {FALSE}]
  <1>1. PICK o \in SUBSET {"c1", "c2"}, d \in SUBSET {"c1", "c2"}, r \in SeqOf(S, 3) : i = [orders |-> o, scored |-> d, results |-> r]
    BY DEF GatherInputs
  <1>2. S \subseteq ToolResults(C)
    BY DEF ToolResults
  <1>3. r \in Seq(S)
    BY ListsAreSequences
  <1>4. r \in Seq(ToolResults(C))
    <2> HIDE DEF S, C
    <2> QED
      BY <1>2, <1>3
  <1> QED
    BY <1>1, <1>4, ComesBack

\* The balances and what is said of them.
LEMMA AskedForWorking ==
  ASSUME NEW i \in BalanceInputs
  PROVE  WorkingsAreTheRecords(i)
  <1> DEFINE F == {"accrued", "used", "pending", "carried over", "other"}
             S == BalanceSaid(F)
             P == BalanceTerms
  <1>1. P \subseteq Seq(Int \X F)
    <2> DEFINE T == Int \X F
    <2>1. \A n \in Int, f \in F : <<n, f>> \in T
      OBVIOUS
    <2>2. 3 \in Int /\ -1 \in Int /\ 1 \in Int /\ 2 \in Int
      OBVIOUS
    <2>3. /\ <<3, "accrued">> \in T /\ <<-1, "used">> \in T /\ <<1, "accrued">> \in T
          /\ <<2, "carried over">> \in T /\ <<1, "other">> \in T /\ <<2, "other">> \in T
      <3> HIDE DEF T
      <3> QED
        BY <2>1, <2>2
    <2> HIDE DEF T
    <2>4. P \subseteq Seq(T)
      BY <2>3, ShortLists DEF BalanceTerms
    <2> QED
      BY <2>4 DEF T
  <1>2. \A total \in 2..4, terms \in P, reader \in BOOLEAN : Working(total, terms, reader) \in S
    <2>1. \A total \in Int, reader \in BOOLEAN, terms \in Seq(Int \X F) : Working(total, terms, reader) \in S
      BY DEF Working, BalanceSaid
    <2> HIDE DEF S, P, F
    <2> QED
      BY <1>1, <2>1
  <1>3. \A told \in BOOLEAN, reader \in BOOLEAN : Expiry(told, reader) \in S
    BY DEF Expiry, BalanceSaid
  <1>4. BalanceSentences \subseteq S
    <2> HIDE DEF S
    <2> SUFFICES ASSUME NEW s \in BalanceSentences PROVE s \in S
      OBVIOUS
    <2>1. CASE \E total \in 2..4, reader \in BOOLEAN, terms \in P : s = Working(total, terms, reader)
      BY <1>2, <2>1
    <2>2. CASE \E told \in BOOLEAN, reader \in BOOLEAN : s = Expiry(told, reader)
      BY <1>3, <2>2
    <2> QED
      BY <2>1, <2>2 DEF BalanceSentences
  <1>5. PICK row \in Balances, x \in BalanceSentences, y \in BalanceSentences, c \in BOOLEAN : i = [row |-> row, text |-> <<x, y>>, cited |-> c]
    BY DEF BalanceInputs
  <1>6. row \in BalanceRows
    BY DEF Balances, BalanceRows
  <1>7. <<x, y>> \in Seq(S)
    <2> HIDE DEF S
    <2> QED
      BY <1>4, ShortLists
  <1>8. i \in [row : BalanceRows, text : Seq(S), cited : BOOLEAN]
    <2> HIDE DEF S
    <2> QED
      BY <1>5, <1>6, <1>7
  <1>9. BalanceFields \subseteq F
    BY DEF BalanceFields
  <1> QED
    BY <1>8, <1>9, WorkingsHold

\* The counts.
LEMMA AskedForDay ==
  ASSUME NEW i \in DeadlineInputs
  PROVE  DeadlinesAreCounted(i)
  <1>1. PICK stated \in 0..18, n \in 0..6, business \in BOOLEAN, anchor \in {0} \cup (20..26), weekday \in {0, 5} :
           i = [stated |-> stated, n |-> n, business |-> business, anchor |-> anchor, weekday |-> weekday]
    BY DEF DeadlineInputs
  <1>2. stated \in Nat /\ n \in Nat /\ anchor \in Nat /\ (anchor # 0 => 3 * n + 2 <= anchor)
    OBVIOUS
  <1> QED
    BY <1>1, <1>2, Deadlines

\* The texts.
LEMMA AskedToReword ==
  ASSUME NEW i \in SnapshotInputs
  PROVE  OnlyTheSnapshotIsReworded(i)
  <1> DEFINE D == {1, 2}
             M == {6, 12, 26}
             S == SnapshotSaid(D, M)
  <1>1. SnapshotPhrases \subseteq S
    <2>1. AsOf(1) \in S /\ AsOf(2) \in S
      BY DEF SnapshotSaid, AsOf
    <2>2. \A m \in M, t \in BOOLEAN : Months(m, t) \in S
      BY DEF SnapshotSaid, Months
    <2> HIDE DEF S
    <2> QED
      BY <2>1, <2>2 DEF SnapshotPhrases
  <1>2. PICK b \in SnapshotBodies, s \in SnapshotPhrases, t \in SnapshotPhrases : i = [bodies |-> <<b>>, text |-> <<s, t>>]
    BY DEF SnapshotInputs
  <1>3. PICK as_of \in 0..1, reported \in {<<>>, <<6>>, <<26>>, <<12, 26>>}, worded \in BOOLEAN :
           b = [as_of |-> as_of, reported |-> reported, worded |-> worded]
    BY DEF SnapshotBodies
  <1>4. reported \in Seq(Int)
    <2>1. 6 \in Int /\ 26 \in Int /\ 12 \in Int
      OBVIOUS
    <2>2. <<>> \in Seq(Int) /\ <<6>> \in Seq(Int) /\ <<26>> \in Seq(Int) /\ <<12, 26>> \in Seq(Int)
      BY <2>1, ShortLists
    <2> QED
      BY <2>2
  <1>5. <<s, t>> \in Seq(S)
    <2> HIDE DEF S
    <2> QED
      BY <1>1, ShortLists
  <1>6. 0 \notin D /\ M \in SUBSET Int
    OBVIOUS
  <1> QED
    BY <1>2, <1>3, <1>4, <1>5, <1>6, SnapshotOnly

\* The lists of approvers.
LEMMA AskedToName ==
  ASSUME NEW i \in ApprovalInputs
  PROVE  ApproversAreNamed(i)
  <1> DEFINE R == {"director", "manager"}
             N == {"lee", "kim"}
             E == Entries(R, N)
             S == ApprovalSayings(R, N)
             L == {Manager, Entry("director", "kim", FALSE), Entry("director", "lee", TRUE), Entry("manager", "kim", FALSE)}
  <1>1. "lee" \in PeopleOf(N) /\ "kim" \in PeopleOf(N)
    BY DEF PeopleOf, Reader
  <1>2. L \subseteq E
    BY <1>1 DEF Entries, Manager, Entry
  <1>3. Listed \subseteq Seq(E)
    <2>1. Manager \in E /\ Entry("director", "kim", FALSE) \in E /\ Entry("director", "lee", TRUE) \in E /\ Entry("manager", "kim", FALSE) \in E
      BY <1>2
    <2> HIDE DEF E
    <2> QED
      BY <2>1, ShortLists DEF Listed
  <1>4. Phrases \subseteq S
    BY DEF Phrases, Mention, ApprovedBy, ApprovalSayings, Reader
  <1>5. PICK listed \in Listed, x \in Phrases, y \in Phrases, c \in BOOLEAN, z \in Phrases :
           i = [listed |-> listed, text |-> <<x, y>>, cited |-> c, step |-> <<z>>]
    BY DEF ApprovalInputs, ApproverTexts
  <1>6. <<x, y>> \in Seq(S) /\ <<z>> \in Seq(S)
    <2> HIDE DEF S
    <2> QED
      BY <1>4, ShortLists
  <1> QED
    BY <1>3, <1>5, <1>6, ApproversNamed

\* The steps.
LEMMA AskedToKeep ==
  ASSUME NEW i \in StepInputs
  PROVE  StepsStandOnTheAnswer(i)
  <1> DEFINE F == Facts
             S == [denies : {"none", "permitted", "disabled"}, contradicts : BOOLEAN, facts : SUBSET F]
  <1>1. F = {1, 2, 3}
    BY DEF Facts
  <1>2. ServedSentences \subseteq S
    <2>1. Deny("permitted") \in S /\ Deny("disabled") \in S
      BY DEF Deny
    <2>2. [denies |-> "none", contradicts |-> TRUE, facts |-> {1}] \in S
      BY <1>1
    <2>3. \A f \in {{}, {2}, {1, 3}} : [denies |-> "none", contradicts |-> FALSE, facts |-> f] \in S
      BY <1>1
    <2> HIDE DEF S
    <2> QED
      BY <2>1, <2>2, <2>3 DEF ServedSentences
  <1>3. PICK r \in ServedSentences, s \in ServedSentences, t \in ServedSentences : i.blocks = <<<<r, s>>, <<t>>>>
    BY DEF StepInputs
  <1>4. i = [blocks |-> i.blocks, envelope |-> i.envelope, profile |-> i.profile, step |-> i.step]
        /\ i.envelope \in SUBSET {2, 3} /\ i.profile \in BOOLEAN
        /\ i.step \in {[facts |-> f, repeats |-> q] : f \in SUBSET F, q \in {FALSE}} \cup {[facts |-> f, repeats |-> TRUE] : f \in {{}, {2}}}
    BY DEF StepInputs
  <1>5. i.step \in [facts : SUBSET F, repeats : BOOLEAN] /\ i.envelope \in SUBSET F
    <2>1. CASE \E f \in SUBSET F, q \in {FALSE} : i.step = [facts |-> f, repeats |-> q]
      BY <1>1, <1>4, <2>1
    <2>2. CASE \E f \in {{}, {2}} : i.step = [facts |-> f, repeats |-> TRUE]
      BY <1>1, <1>4, <2>2
    <2> QED
      BY <1>4, <2>1, <2>2
  <1>6. i.blocks \in Seq(Seq(S))
    <2> HIDE DEF S
    <2>1. <<r, s>> \in Seq(S) /\ <<t>> \in Seq(S)
      BY <1>2, ShortLists
    <2> DEFINE x == <<r, s>>
               y == <<t>>
    <2> HIDE DEF x, y
    <2>2. <<x, y>> \in Seq(Seq(S))
      BY <2>1, ShortLists DEF x, y
    <2> QED
      BY <1>3, <2>2 DEF x, y
  <1>7. i \in [blocks : Seq(Seq(S)), envelope : SUBSET F, profile : BOOLEAN, step : [facts : SUBSET F, repeats : BOOLEAN]]
    <2> HIDE DEF S, F
    <2> QED
      BY <1>4, <1>5, <1>6
  <1> QED
    BY <1>7, StepsStand

\* The endings of a turn.
LEMMA AskedToServe ==
  ASSUME NEW i \in ServeInputs
  PROVE  NothingDoneIsHidden(i)
  <1>1. /\ i.blocks \subseteq BlockKinds /\ i.stopped \in BOOLEAN /\ i.complete \in BOOLEAN
        /\ i.write \in {"none", "failed", "blocked", "declined", "made"}
    BY DEF ServeInputs
  <1> QED
    BY <1>1, NothingHidden

\* The leaves of a payload.
LEMMA AskedToRedact ==
  ASSUME NEW i \in RedactInputs
  PROVE  NoSecretIsShown(i)
  <1>1. PICK k \in SeqOf(Keys, 3), v \in {"secret", "digest", "number", "text", "redacted"} : i = [keys |-> k, value |-> v]
    BY DEF RedactInputs, SeqOf
  <1>2. k \in Seq(Keys)
    BY ListsAreSequences
  <1>3. i \in [keys : Seq(Keys), value : {"secret", "digest", "number", "text", "redacted"}]
    BY <1>1, <1>2
  <1> QED
    BY <1>3, NoSecret

-----------------------------------------------------------------------------
(* Turns: what a session remembers, what a message is taken to ask, and    *)
(* the answer read off a stream.                                           *)

\* Slots, whatever they are called and hold.
SlotsOf(K, V) == UNION {[k -> V] : k \in SUBSET K}

\* A turn of a session and a call of one, of any slots.
TurnsOf(K, V, W) == [slots : SlotsOf(K, V), finished : BOOLEAN, workflow : W, wrote : BOOLEAN]

\* f is what the first n turns say of each slot, the last word of any of them.
SaidSoFar(f, turns, n) ==
    /\ \A k \in DOMAIN f : \E i \in 1..n : /\ k \in DOMAIN turns[i].slots /\ f[k] = turns[i].slots[k]
                                           /\ \A j \in (i + 1)..n : k \notin DOMAIN turns[j].slots
    /\ \A i \in 1..n : DOMAIN turns[i].slots \subseteq DOMAIN f

\* One turn's slots over those before.
LEMMA SlotsOver ==
  ASSUME NEW K, NEW V, NEW f \in SlotsOf(K, V), NEW g \in SlotsOf(K, V)
  PROVE  /\ Overlay(f, g) \in SlotsOf(K, V) /\ \A k : k \in DOMAIN Overlay(f, g) <=> k \in DOMAIN f \/ k \in DOMAIN g
         /\ \A k \in DOMAIN g : Overlay(f, g)[k] = g[k]
         /\ \A k \in DOMAIN f \ DOMAIN g : Overlay(f, g)[k] = f[k]
  <1>1. /\ DOMAIN f \in SUBSET K /\ DOMAIN g \in SUBSET K
        /\ (\A k \in DOMAIN f : f[k] \in V) /\ (\A k \in DOMAIN g : g[k] \in V)
    BY DEF SlotsOf
  <1>2. Overlay(f, g) \in [DOMAIN f \cup DOMAIN g -> V]
    BY <1>1 DEF Overlay
  <1>3. DOMAIN f \cup DOMAIN g \in SUBSET K
    BY <1>1
  <1> QED
    BY <1>2, <1>3 DEF Overlay, SlotsOf

\* What a session remembers of its turns, however many, is the last word of any of them.
LEMMA LastWordCounts ==
  ASSUME NEW K, NEW V, NEW W, NEW turns \in Seq(TurnsOf(K, V, W))
  PROVE  inherited_slots(turns) \in SlotsOf(K, V) /\ SaidSoFar(inherited_slots(turns), turns, Len(turns))
  <1> DEFINE N == Len(turns)
             D == SlotsOf(K, V)
             UpTo[i \in 0..N] == IF i = 0 THEN NoSlots ELSE Overlay(UpTo[i - 1], turns[i].slots)
             step == [x \in Int \X D |-> IF x[1] \in 1..N THEN Overlay(x[2], turns[x[1]].slots) ELSE x[2]]
  <1>1. N \in Nat /\ 0 \in Int /\ N \in Int /\ DOMAIN turns = 1..N /\ \A i \in 1..N : turns[i].slots \in D
    <2>1. \A i \in 1..N : turns[i] \in TurnsOf(K, V, W)
      OBVIOUS
    <2>2. \A t \in TurnsOf(K, V, W) : t.slots \in D
      BY DEF TurnsOf
    <2> QED
      BY <2>1, <2>2
  <1>2. NoSlots \in D /\ DOMAIN NoSlots = {}
    <2>1. {} \in SUBSET K /\ NoSlots \in [{} -> V] /\ DOMAIN NoSlots = {}
      BY DEF NoSlots
    <2> QED
      BY <2>1 DEF SlotsOf
  <1> HIDE DEF N
  <1>3. step \in [Int \X D -> D]
    <2>1. ASSUME NEW x \in Int \X D, x[1] \in 1..N PROVE Overlay(x[2], turns[x[1]].slots) \in D
      <3>1. x[2] \in D /\ turns[x[1]].slots \in D
        BY <1>1, <2>1
      <3> QED
        BY <3>1, SlotsOver
    <2> QED
      BY <2>1
  <1>4. \A n \in 1..N : \A x \in D : step[<<n, x>>] = Overlay(x, turns[n].slots)
    OBVIOUS
  <1> HIDE DEF step, D
  <1>5. PICK f \in [0..N -> D] : Loops(f, 0, N, NoSlots, step)
    BY <1>1, <1>2, <1>3, LoopIsDefined
  <1>6. ASSUME NEW n \in 0..N PROVE f[n] = IF n = 0 THEN NoSlots ELSE Overlay(f[n - 1], turns[n].slots)
    <2>1. f[n] = IF n = 0 THEN NoSlots ELSE step[<<n, f[n - 1]>>]
      BY <1>5 DEF Loops
    <2>2. n # 0 => n \in 1..N /\ f[n - 1] \in D
      BY <1>1, <1>5
    <2> QED
      BY <1>4, <2>1, <2>2
  <1>7. UpTo = [n \in 0..N |-> IF n = 0 THEN NoSlots ELSE Overlay(UpTo[n - 1], turns[n].slots)]
    <2>1. f = [n \in 0..N |-> IF n = 0 THEN NoSlots ELSE Overlay(f[n - 1], turns[n].slots)]
      BY <1>5, <1>6
    <2> QED
      BY <2>1
  <1>8. inherited_slots(turns) = UpTo[N]
    BY DEF inherited_slots, N
  <1> HIDE DEF UpTo
  <1>9. UpTo[0] = NoSlots /\ \A n \in 1..N : UpTo[n] = Overlay(UpTo[n - 1], turns[n].slots)
    BY <1>1, <1>7
  <1> DEFINE S == {n \in 0..N : UpTo[n] \in D /\ SaidSoFar(UpTo[n], turns, n)}
  <1>10. 0 \in S
    BY <1>1, <1>2, <1>9 DEF SaidSoFar
  <1>11. ASSUME NEW n \in (0 + 1)..N, n - 1 \in S PROVE n \in S
    <2> DEFINE before == UpTo[n - 1]
               said == turns[n].slots
               now == UpTo[n]
    <2>1. before \in D /\ SaidSoFar(before, turns, n - 1) /\ said \in D /\ now = Overlay(before, said) /\ n \in 0..N /\ n \in Int
      BY <1>1, <1>9, <1>11
    <2> HIDE DEF S, before, now, said
    <2>2. /\ now \in D /\ DOMAIN now = DOMAIN before \cup DOMAIN said
          /\ \A k \in DOMAIN said : now[k] = said[k]
          /\ \A k \in DOMAIN before \ DOMAIN said : now[k] = before[k]
      <3>1. before \in SlotsOf(K, V) /\ said \in SlotsOf(K, V)
        BY <2>1 DEF D
      <3>2. /\ Overlay(before, said) \in SlotsOf(K, V)
            /\ \A k : k \in DOMAIN Overlay(before, said) <=> k \in DOMAIN before \/ k \in DOMAIN said
            /\ \A k \in DOMAIN said : Overlay(before, said)[k] = said[k]
            /\ \A k \in DOMAIN before \ DOMAIN said : Overlay(before, said)[k] = before[k]
        BY <3>1, SlotsOver
      <3> QED
        BY <2>1, <3>2 DEF D
    <2>3. ASSUME NEW k \in DOMAIN now
          PROVE  \E i \in 1..n : /\ k \in DOMAIN turns[i].slots /\ now[k] = turns[i].slots[k]
                                 /\ \A j \in (i + 1)..n : k \notin DOMAIN turns[j].slots
      <3>1. CASE k \in DOMAIN said
        <4>1. n \in 1..n /\ ~(\E j \in (n + 1)..n : TRUE)
          BY <2>1
        <4> QED
          BY <2>2, <3>1, <4>1 DEF said
      <3>2. CASE k \notin DOMAIN said
        <4>1. k \in DOMAIN before /\ now[k] = before[k]
          BY <2>2, <3>2
        <4>2. PICK i \in 1..(n - 1) : /\ k \in DOMAIN turns[i].slots /\ before[k] = turns[i].slots[k]
                                      /\ \A j \in (i + 1)..(n - 1) : k \notin DOMAIN turns[j].slots
          BY <2>1, <4>1 DEF SaidSoFar
        <4>3. i \in 1..n /\ \A j \in (i + 1)..n : j = n \/ j \in (i + 1)..(n - 1)
          BY <2>1
        <4>4. \A j \in (i + 1)..n : k \notin DOMAIN turns[j].slots
          BY <3>2, <4>2, <4>3 DEF said
        <4> QED
          BY <4>1, <4>2, <4>3, <4>4
      <3> QED
        BY <3>1, <3>2
    <2>4. ASSUME NEW i \in 1..n PROVE DOMAIN turns[i].slots \subseteq DOMAIN now
      <3>1. i = n \/ i \in 1..(n - 1)
        BY <2>1
      <3> QED
        BY <2>1, <2>2, <3>1 DEF SaidSoFar, said
    <2> QED
      BY <2>1, <2>2, <2>3, <2>4 DEF SaidSoFar, S, now, said
  <1> HIDE DEF S
  <1>12. \A n \in 0..N : n \in S
    BY <1>1, <1>10, <1>11, UpFromTheFirst
  <1>13. N \in S
    BY <1>1, <1>12
  <1> QED
    BY <1>8, <1>13 DEF S, N, D

\* What a call is sent with.
LEMMA SentWith ==
  ASSUME NEW K, NEW V, NEW T, NEW call \in [tool : T, parameters : SlotsOf(K, V)], NEW remembered \in SlotsOf(K, V)
  PROVE  LET sent == _inherit_slots(call, remembered).parameters
             said == call.parameters
             blocked == IF {"days", "end_date"} \cap DOMAIN said # {} THEN {"days", "end_date"} ELSE {}
         IN  /\ call.tool # "compliance" => sent = said
             /\ call.tool = "compliance" => DOMAIN sent = DOMAIN said \cup (DOMAIN remembered \ blocked)
             /\ \A k \in DOMAIN said : sent[k] = said[k]
             /\ \A k \in DOMAIN sent \ DOMAIN said : k \in DOMAIN remembered /\ sent[k] = remembered[k]
             /\ DOMAIN remembered = {} => sent = said
  <1> DEFINE said == call.parameters
             B == UNION {family \in SLOT_FAMILIES : family \cap DOMAIN said # {}}
             added == DOMAIN remembered \ (DOMAIN said \cup B)
             f == [k \in added |-> remembered[k]]
             sent == _inherit_slots(call, remembered).parameters
  <1>1. B = IF {"days", "end_date"} \cap DOMAIN said # {} THEN {"days", "end_date"} ELSE {}
    BY DEF SLOT_FAMILIES
  <1>2. said \in SlotsOf(K, V) /\ call = [tool |-> call.tool, parameters |-> said]
    OBVIOUS
  <1>3. f \in SlotsOf(K, V) /\ DOMAIN f = added
    <2>1. DOMAIN remembered \in SUBSET K /\ \A k \in DOMAIN remembered : remembered[k] \in V
      BY DEF SlotsOf
    <2>2. added \in SUBSET K /\ f \in [added -> V]
      BY <2>1
    <2>3. DOMAIN f = added
      OBVIOUS
    <2> HIDE DEF f, added
    <2> QED
      BY <2>2, <2>3 DEF SlotsOf
  <1>4. sent = IF call.tool = "compliance" THEN Overlay(f, said) ELSE said
    BY <1>2 DEF _inherit_slots
  <1> HIDE DEF sent, said
  <1>5. /\ DOMAIN Overlay(f, said) = added \cup DOMAIN said
        /\ \A k \in DOMAIN said : Overlay(f, said)[k] = said[k]
        /\ \A k \in added \ DOMAIN said : Overlay(f, said)[k] = remembered[k]
    <2>1. \A k \in added : f[k] = remembered[k]
      OBVIOUS
    <2> HIDE DEF f, added
    <2>2. /\ \A k : k \in DOMAIN Overlay(f, said) <=> k \in DOMAIN f \/ k \in DOMAIN said
          /\ \A k \in DOMAIN said : Overlay(f, said)[k] = said[k]
          /\ \A k \in DOMAIN f \ DOMAIN said : Overlay(f, said)[k] = f[k]
      BY <1>2, <1>3, SlotsOver
    <2> QED
      BY <1>3, <2>1, <2>2
  <1>6. added \cup DOMAIN said = DOMAIN said \cup (DOMAIN remembered \ B)
    OBVIOUS
  <1>7. added \subseteq DOMAIN remembered
    OBVIOUS
  <1>8. DOMAIN remembered = {} => Overlay(f, said) = said
    <2>1. DOMAIN said \in SUBSET K /\ said = [k \in DOMAIN said |-> said[k]]
      BY <1>2 DEF SlotsOf
    <2>2. DOMAIN remembered = {} => added \cup DOMAIN said = DOMAIN said
      BY <1>7
    <2>3. Overlay(f, said) = [k \in DOMAIN Overlay(f, said) |-> Overlay(f, said)[k]]
      BY DEF Overlay
    <2> QED
      BY <1>5, <2>1, <2>2, <2>3
  <1> HIDE DEF added, B, f
  <1> QED
    BY <1>1, <1>4, <1>5, <1>6, <1>7, <1>8 DEF sent, said

(***************************************************************************)
(* However many turns a session has and whatever slots they name, a        *)
(* follow-up's own words stand, a new span is not put beside an old one,   *)
(* what is left out is what the session last said of it, and an earlier    *)
(* write is told only of this request (session.recent, inherited_slots,    *)
(* relates_to, _inherit_slots).                                            *)
(***************************************************************************)
THEOREM SubjectIsKept ==
  ASSUME NEW K, NEW V, NEW W, NEW T, NEW workflow,
         NEW turns \in Seq(TurnsOf(K, V, W)), NEW call \in [tool : T, parameters : SlotsOf(K, V)]
  PROVE  FollowUpsKeepTheirSubject([turns |-> turns, call |-> call, workflow |-> workflow])
  <1> DEFINE input == [turns |-> turns, call |-> call, workflow |-> workflow]
             last == recent(turns)
             remembered == inherited_slots(last)
             sent == _inherit_slots(call, remembered).parameters
             said == call.parameters
             lastSaid(k) == {i \in DOMAIN last : k \in DOMAIN last[i].slots
                                /\ \A j \in (i + 1)..Len(last) : k \notin DOMAIN last[j].slots}
  <1>1. input.turns = turns /\ input.call = call /\ input.workflow = workflow
    OBVIOUS
  <1>2. last \in Seq(TurnsOf(K, V, W)) /\ ((\A i \in DOMAIN turns : ~turns[i].finished) => last = <<>>)
    <2> DEFINE P == {t \in TurnsOf(K, V, W) : t.finished}
               f == [i \in DOMAIN turns |-> IF turns[i] \in P THEN <<turns[i]>> ELSE <<>>]
               finished == Filter(turns, LAMBDA t : t.finished)
    <2>1. \A i \in DOMAIN turns : turns[i] \in TurnsOf(K, V, W)
      OBVIOUS
    <2>2. \A i \in DOMAIN turns : turns[i].finished <=> turns[i] \in P
      BY <2>1 DEF TurnsOf
    <2>3. [i \in DOMAIN turns |-> IF turns[i].finished THEN <<turns[i]>> ELSE <<>>] = f
      BY <2>2
    <2>4. finished = FlattenSeq(f)
      BY <2>3 DEF Filter
    <2> HIDE DEF finished, f
    <2>5. Subsequence(finished, turns, P)
      BY <2>4, FilterKeeps DEF f
    <2>6. finished \in Seq(TurnsOf(K, V, W)) /\ Len(finished) \in Nat
      BY <2>5 DEF Subsequence
    <2>7. last = SubSeq(finished, IF Len(finished) > MAX_TURNS THEN Len(finished) - MAX_TURNS + 1 ELSE 1, Len(finished))
      BY DEF recent, finished
    <2>8. last \in Seq(TurnsOf(K, V, W))
      BY <2>6, <2>7 DEF MAX_TURNS
    <2>9. ASSUME \A i \in DOMAIN turns : ~turns[i].finished PROVE last = <<>>
      <3>1. ToSet(finished) = {}
        BY <2>5, <2>9 DEF Subsequence, ToSet
      <3>2. finished = <<>>
        <4>1. \A i \in 1..Len(finished) : finished[i] \in ToSet(finished)
          BY <2>6 DEF ToSet
        <4>2. Len(finished) = 0
          BY <2>6, <3>1, <4>1
        <4> QED
          BY <2>6, <4>2
      <3> QED
        BY <2>7, <3>2 DEF MAX_TURNS
    <2> QED
      BY <2>8, <2>9
  <1> HIDE DEF last
  <1>3. remembered \in SlotsOf(K, V) /\ SaidSoFar(remembered, last, Len(last)) /\ DOMAIN last = 1..Len(last)
    BY <1>2, LastWordCounts
  <1> HIDE DEF remembered
  <1> DEFINE blocked == IF {"days", "end_date"} \cap DOMAIN said # {} THEN {"days", "end_date"} ELSE {}
  <1>4. /\ call.tool # "compliance" => sent = said
        /\ call.tool = "compliance" => DOMAIN sent = DOMAIN said \cup (DOMAIN remembered \ blocked)
        /\ \A k \in DOMAIN said : sent[k] = said[k]
        /\ \A k \in DOMAIN sent \ DOMAIN said : k \in DOMAIN remembered /\ sent[k] = remembered[k]
        /\ DOMAIN remembered = {} => sent = said
    BY <1>3, SentWith
  <1> HIDE DEF sent, said
  <1>5. ({"days", "end_date"} \cap DOMAIN said # {}) => {"days", "end_date"} \cap DOMAIN sent \subseteq DOMAIN said
    <2>1. CASE call.tool # "compliance"
      BY <1>4, <2>1
    <2>2. CASE call.tool = "compliance"
      BY <1>4, <2>2
    <2> QED
      BY <2>1, <2>2
  <1>6. ASSUME NEW k \in DOMAIN sent \ DOMAIN said PROVE \E i \in lastSaid(k) : sent[k] = last[i].slots[k]
    <2>1. k \in DOMAIN remembered /\ sent[k] = remembered[k]
      BY <1>4
    <2>2. PICK i \in 1..Len(last) : /\ k \in DOMAIN last[i].slots /\ remembered[k] = last[i].slots[k]
                                    /\ \A j \in (i + 1)..Len(last) : k \notin DOMAIN last[j].slots
      BY <1>3, <2>1 DEF SaidSoFar
    <2>3. i \in lastSaid(k)
      BY <1>3, <2>2
    <2> QED
      BY <2>1, <2>2, <2>3
  <1>7. call.tool = "compliance" /\ lastSaid("start_date") # {} => "start_date" \in DOMAIN sent
    <2>1. lastSaid("start_date") # {} => "start_date" \in DOMAIN remembered
      BY <1>3 DEF SaidSoFar
    <2>2. "start_date" \notin blocked
      OBVIOUS
    <2> HIDE DEF lastSaid, blocked
    <2> QED
      BY <1>4, <2>1, <2>2
  <1>8. _prior_write(last, workflow) =>
            \E i \in DOMAIN last : last[i].wrote /\ (last[i].workflow = workflow \/ DOMAIN last[i].slots # {})
    <2>1. ASSUME NEW i \in prior_writes(last), relates_to(last[i], workflow, remembered)
          PROVE  i \in DOMAIN last /\ last[i].wrote /\ (last[i].workflow = workflow \/ DOMAIN last[i].slots # {})
      BY <2>1 DEF prior_writes, relates_to
    <2> QED
      BY <2>1 DEF _prior_write, remembered
  <1>9. (turns # <<>> /\ \A i \in DOMAIN turns : ~turns[i].finished) => sent = said
    <2>1. last = <<>> => Len(last) = 0
      OBVIOUS
    <2>2. Len(last) = 0 => DOMAIN remembered = {}
      BY <1>3 DEF SaidSoFar
    <2> QED
      BY <1>2, <1>4, <2>1, <2>2
  <1> HIDE DEF lastSaid
  <1>10. \A k \in DOMAIN said : sent[k] = said[k]
    BY <1>4
  <1> QED
    BY <1>1, <1>5, <1>6, <1>7, <1>8, <1>9, <1>10 DEF FollowUpsKeepTheirSubject, sent, said, remembered, last, lastSaid

\* Where a scanner may be.
Scanners == [depth : Int, inString : BOOLEAN, escaped : BOOLEAN, blocks : Nat, done : BOOLEAN]

\* t is a scanner, and it has closed the block c ends or none since it was s.
Closed(s, c, t) == t \in Scanners /\ (t.blocks = s.blocks \/ (c = "}" /\ t.blocks = s.blocks + 1))

\* One character more closes one block at most, and none but a brace does.
LEMMA OneCharacter ==
  ASSUME NEW s \in Scanners, NEW c
  PROVE  Closed(s, c, ScanChar(s, c))
  <1>1. /\ s.depth \in Int /\ s.inString \in BOOLEAN /\ s.escaped \in BOOLEAN /\ s.blocks \in Nat /\ s.done \in BOOLEAN
        /\ s = [depth |-> s.depth, inString |-> s.inString, escaped |-> s.escaped, blocks |-> s.blocks, done |-> s.done]
    BY DEF Scanners
  <1>2. CASE s.done
    BY <1>1, <1>2 DEF ScanChar, Closed
  <1>3. CASE ~s.done /\ s.inString /\ s.escaped
    BY <1>1, <1>3 DEF ScanChar, Scanners, Closed
  <1>4. CASE ~s.done /\ s.inString /\ ~s.escaped
    BY <1>1, <1>4 DEF ScanChar, Scanners, Closed
  <1>5. CASE ~s.done /\ ~s.inString /\ c = "q"
    <2>1. ScanChar(s, c) = [s EXCEPT !.inString = TRUE]
      BY <1>5 DEF ScanChar
    <2> QED
      BY <1>1, <2>1 DEF Scanners, Closed
  <1>6. CASE ~s.done /\ ~s.inString /\ c = "{"
    <2>1. ScanChar(s, c) = [s EXCEPT !.depth = s.depth + 1]
      BY <1>6 DEF ScanChar
    <2> QED
      BY <1>1, <2>1 DEF Scanners, Closed
  <1>7. CASE ~s.done /\ ~s.inString /\ c = "}"
    <2>1. ScanChar(s, c) = [s EXCEPT !.depth = s.depth - 1, !.blocks = IF s.depth = 1 THEN s.blocks + 1 ELSE s.blocks]
      BY <1>7 DEF ScanChar
    <2> DEFINE more == IF s.depth = 1 THEN s.blocks + 1 ELSE s.blocks
    <2>2. more \in Nat /\ (more = s.blocks \/ more = s.blocks + 1) /\ s.depth - 1 \in Int
      BY <1>1
    <2>3. ScanChar(s, c) = [depth |-> s.depth - 1, inString |-> s.inString, escaped |-> s.escaped, blocks |-> more, done |-> s.done]
      BY <1>1, <2>1
    <2> HIDE DEF more
    <2>4. ScanChar(s, c) \in Scanners /\ ScanChar(s, c).blocks = more
      BY <1>1, <2>2, <2>3 DEF Scanners
    <2> QED
      BY <1>7, <2>2, <2>4 DEF Closed
  <1>8. CASE ~s.done /\ ~s.inString /\ c = "]"
    <2>1. ScanChar(s, c) = [s EXCEPT !.done = (s.depth = 0)]
      BY <1>8 DEF ScanChar
    <2> QED
      BY <1>1, <2>1 DEF Scanners, Closed
  <1>9. CASE ~s.done /\ ~s.inString /\ c \notin {"q", "{", "}", "]"}
    BY <1>1, <1>9 DEF ScanChar, Scanners, Closed
  <1> QED
    BY <1>1, <1>2, <1>3, <1>4, <1>5, <1>6, <1>7, <1>8, <1>9

\* f is where the scanner is after each of the characters.
Scans(f, s, text) == f[0] = s /\ \A n \in 1..Len(text) : f[n] = ScanChar(f[n - 1], text[n])

Follows(f, n, t) == \A k \in 1..n : f[k] = ScanChar(f[k - 1], t[k])

\* Advance goes on character by character.
LEMMA AdvanceIsALoop ==
  ASSUME NEW C, NEW s \in Scanners, NEW text \in Seq(C)
  PROVE  \E f \in [0..Len(text) -> Scanners] : Scans(f, s, text) /\ Advance(s, text) = f[Len(text)]
  <1> DEFINE N == Len(text)
             After[n \in 0..N] == IF n = 0 THEN Carried(s) ELSE ScanChar(After[n - 1], text[n])
             step == [x \in Int \X Scanners |-> IF x[1] \in 1..N THEN ScanChar(x[2], text[x[1]]) ELSE x[2]]
  <1>1. N \in Nat /\ 0 \in Int /\ N \in Int
    OBVIOUS
  <1> HIDE DEF N
  <1>2. step \in [Int \X Scanners -> Scanners]
    <2>1. ASSUME NEW x \in Int \X Scanners, x[1] \in 1..N PROVE ScanChar(x[2], text[x[1]]) \in Scanners
      BY OneCharacter DEF Closed
    <2> QED
      BY <2>1
  <1>3. \A n \in 1..N : \A x \in Scanners : step[<<n, x>>] = ScanChar(x, text[n])
    OBVIOUS
  <1> HIDE DEF step
  <1>4. PICK f \in [0..N -> Scanners] : Loops(f, 0, N, s, step)
    BY <1>1, <1>2, LoopIsDefined
  <1>5. ASSUME NEW n \in 0..N PROVE f[n] = IF n = 0 THEN s ELSE ScanChar(f[n - 1], text[n])
    <2>1. f[n] = IF n = 0 THEN s ELSE step[<<n, f[n - 1]>>]
      BY <1>4 DEF Loops
    <2>2. n # 0 => n \in 1..N /\ f[n - 1] \in Scanners
      BY <1>1, <1>4
    <2> QED
      BY <1>3, <2>1, <2>2
  <1>6. After = [n \in 0..N |-> IF n = 0 THEN Carried(s) ELSE ScanChar(After[n - 1], text[n])]
    <2>1. f = [n \in 0..N |-> IF n = 0 THEN Carried(s) ELSE ScanChar(f[n - 1], text[n])]
      BY <1>4, <1>5 DEF Carried
    <2> QED
      BY <2>1
  <1>7. Advance(s, text) = After[N]
    BY DEF Advance, N
  <1> HIDE DEF After
  <1>8. After \in [0..N -> Scanners] /\ Scans(After, s, text)
    <2>1. ASSUME NEW n \in 0..N PROVE After[n] = IF n = 0 THEN s ELSE ScanChar(After[n - 1], text[n])
      BY <1>6 DEF Carried
    <2>2. After[0] = s /\ \A n \in 1..N : After[n] = ScanChar(After[n - 1], text[n])
      BY <1>1, <2>1
    <2> DEFINE S == {n \in 0..N : After[n] \in Scanners}
    <2>3. 0 \in S
      BY <1>1, <2>2
    <2>4. ASSUME NEW n \in (0 + 1)..N, n - 1 \in S PROVE n \in S
      <3>1. n \in 1..N /\ n \in 0..N /\ After[n - 1] \in Scanners
        BY <1>1, <2>4
      <3>2. Closed(After[n - 1], text[n], ScanChar(After[n - 1], text[n]))
        BY <3>1, OneCharacter
      <3>3. ScanChar(After[n - 1], text[n]) \in Scanners
        BY <3>2 DEF Closed
      <3> QED
        BY <2>2, <3>1, <3>3
    <2> HIDE DEF S
    <2>5. \A n \in 0..N : n \in S
      BY <1>1, <2>3, <2>4, UpFromTheFirst
    <2> QED
      BY <1>6, <2>2, <2>5 DEF Scans, S, N
  <1> QED
    BY <1>7, <1>8 DEF N

\* Two scans of the same characters from the same place are one.
LEMMA ScansAgree ==
  ASSUME NEW f, NEW g, NEW N \in Nat, NEW t,
         f[0] = g[0], Follows(f, N, t), Follows(g, N, t)
  PROVE  f[N] = g[N]
  <1> DEFINE S == {n \in 0..N : f[n] = g[n]}
  <1>1. 0 \in S
    OBVIOUS
  <1>2. ASSUME NEW n \in (0 + 1)..N, n - 1 \in S PROVE n \in S
    BY <1>2 DEF Follows
  <1>3. 0 \in Int /\ N \in Int
    OBVIOUS
  <1> HIDE DEF S
  <1>4. \A n \in 0..N : n \in S
    BY <1>1, <1>2, <1>3, UpFromTheFirst
  <1>5. N \in S
    BY <1>4
  <1> QED
    BY <1>5 DEF S

\* What grows by one at most stays below what grows by one.
LEMMA NoFaster ==
  ASSUME NEW a \in Nat, NEW b \in Nat, NEW x \in Nat, NEW y, a <= x, b = a \/ b = a + 1, y = x + 1
  PROVE  b <= y /\ y \in Nat
  OBVIOUS

\* Blocks are counted up, each at a brace.
LEMMA BlocksAreBraces ==
  ASSUME NEW C, NEW text \in Seq(C), NEW f \in [0..Len(text) -> Scanners], Scans(f, Scanner, text)
  PROVE  /\ \A m, n \in 0..Len(text) : m <= n => f[m].blocks <= f[n].blocks
         /\ f[Len(text)].blocks <= Cardinality({i \in DOMAIN text : text[i] = "}"})
  <1> DEFINE N == Len(text)
             braces(n) == {i \in 1..n : text[i] = "}"}
  <1>1. N \in Nat /\ DOMAIN text = 1..N /\ 0 \in Int /\ N \in Int
    OBVIOUS
  <1>2. f \in [0..N -> Scanners] /\ f[0] = Scanner /\ \A n \in 1..N : f[n] = ScanChar(f[n - 1], text[n])
    BY DEF Scans
  <1> HIDE DEF N
  <1>3. \A n \in 0..N : f[n] \in Scanners /\ f[n].blocks \in Nat
    BY <1>2 DEF Scanners
  <1>4. \A n \in 1..N : n - 1 \in 0..N /\ Closed(f[n - 1], text[n], f[n])
    <2> TAKE n \in 1..N
    <2>1. n - 1 \in 0..N /\ f[n - 1] \in Scanners /\ f[n] = ScanChar(f[n - 1], text[n])
      BY <1>1, <1>2
    <2> QED
      BY <2>1, OneCharacter
  <1>5. ASSUME NEW m \in 0..N PROVE \A n \in m..N : f[m].blocks <= f[n].blocks
    <2> DEFINE S == {n \in m..N : f[m].blocks <= f[n].blocks}
    <2>1. m \in S
      BY <1>1, <1>3
    <2>2. ASSUME NEW n \in (m + 1)..N, n - 1 \in S PROVE n \in S
      <3>1. n \in 1..N /\ n \in m..N /\ n \in 0..N /\ n - 1 \in 0..N /\ m \in 0..N
        BY <1>1
      <3>2. f[n].blocks = f[n - 1].blocks \/ f[n].blocks = f[n - 1].blocks + 1
        BY <1>4, <3>1 DEF Closed
      <3>3. f[m].blocks \in Nat /\ f[n - 1].blocks \in Nat /\ f[n].blocks \in Nat
        BY <1>3, <3>1
      <3>4. f[m].blocks <= f[n - 1].blocks
        BY <2>2
      <3>5. f[m].blocks <= f[n].blocks
        BY <3>2, <3>3, <3>4
      <3> QED
        BY <3>1, <3>5
    <2>3. m \in Int
      BY <1>1
    <2> HIDE DEF S
    <2>4. \A n \in m..N : n \in S
      BY <1>1, <2>1, <2>2, <2>3, UpFromTheFirst
    <2> QED
      BY <2>4 DEF S
  <1>6. \A n \in 0..N : IsFiniteSet(braces(n)) /\ f[n].blocks <= Cardinality(braces(n)) /\ Cardinality(braces(n)) \in Nat
    <2> DEFINE S == {n \in 0..N : IsFiniteSet(braces(n)) /\ f[n].blocks <= Cardinality(braces(n)) /\ Cardinality(braces(n)) \in Nat}
    <2>1. 0 \in S
      <3>1. braces(0) = {}
        OBVIOUS
      <3>2. f[0].blocks = 0
        BY <1>2 DEF Scanner
      <3> QED
        BY <1>1, <3>1, <3>2, FS_EmptySet
    <2>2. ASSUME NEW n \in (0 + 1)..N, n - 1 \in S PROVE n \in S
      <3>1. n \in 1..N /\ n \in 0..N /\ n \in Int
        BY <1>1
      <3>2. IsFiniteSet(braces(n - 1)) /\ f[n - 1].blocks <= Cardinality(braces(n - 1)) /\ Cardinality(braces(n - 1)) \in Nat
        BY <2>2
      <3>3. f[n].blocks = f[n - 1].blocks \/ (text[n] = "}" /\ f[n].blocks = f[n - 1].blocks + 1)
        BY <1>4, <3>1 DEF Closed
      <3>4. f[n - 1].blocks \in Nat /\ f[n].blocks \in Nat
        BY <1>1, <1>3, <3>1
      <3>5. CASE text[n] = "}"
        <4>1. braces(n) = braces(n - 1) \cup {n} /\ n \notin braces(n - 1)
          <5>1. \A k : k \in 1..n <=> (k \in 1..(n - 1) \/ k = n)
            BY <3>1
          <5>2. n \notin 1..(n - 1)
            BY <3>1
          <5> QED
            BY <3>5, <5>1, <5>2
        <4> HIDE DEF braces
        <4>2. IsFiniteSet(braces(n - 1)) /\ Cardinality(braces(n - 1)) \in Nat
          BY <3>2 DEF braces
        <4>3. IsFiniteSet(braces(n)) /\ Cardinality(braces(n)) = Cardinality(braces(n - 1)) + 1
          BY <4>1, <4>2, FS_AddElement
        <4>4. f[n - 1].blocks <= Cardinality(braces(n - 1))
          BY <3>2 DEF braces
        <4>5. f[n].blocks = f[n - 1].blocks \/ f[n].blocks = f[n - 1].blocks + 1
          BY <3>3
        <4>6. f[n].blocks <= Cardinality(braces(n)) /\ Cardinality(braces(n)) \in Nat
          BY <3>4, <4>3, <4>2, <4>4, <4>5, NoFaster
        <4> QED
          BY <3>1, <4>3, <4>6
      <3>6. CASE text[n] # "}"
        <4>1. braces(n) = braces(n - 1)
          <5>1. \A k : k \in 1..n <=> (k \in 1..(n - 1) \/ k = n)
            BY <3>1
          <5> QED
            BY <3>6, <5>1
        <4> HIDE DEF braces
        <4>2. f[n].blocks = f[n - 1].blocks
          BY <3>3, <3>6
        <4> QED
          BY <3>1, <3>2, <4>1, <4>2
      <3> QED
        BY <3>5, <3>6
    <2> HIDE DEF S
    <2>3. \A n \in 0..N : n \in S
      BY <1>1, <2>1, <2>2, UpFromTheFirst
    <2> QED
      BY <2>3 DEF S
  <1>7. N \in 0..N
    BY <1>1
  <1>8. f[N].blocks <= Cardinality(braces(N))
    BY <1>6, <1>7
  <1>9. \A m, n \in 0..N : m <= n => f[m].blocks <= f[n].blocks
    BY <1>1, <1>5
  <1> QED
    BY <1>1, <1>8, <1>9 DEF N

(***************************************************************************)
(* However long the answer is and wherever the stream is cut, the blocks   *)
(* shown are those of the whole text, none of them before it is there, and *)
(* no more than the braces that close one (answer_stream.py).              *)
(***************************************************************************)
THEOREM StreamIsWhole ==
  \A C : \A i \in [text : Seq(C), cut : Nat] : StreamIsTheAnswer(i)
  <1> SUFFICES ASSUME NEW C, NEW i \in [text : Seq(C), cut : Nat]
               PROVE  StreamIsTheAnswer(i)
    OBVIOUS
  <1> DEFINE text == i.text
             cut == i.cut
  <1>1. text \in Seq(C) /\ cut \in Nat
    OBVIOUS
  <1> DEFINE N == Len(text)
             c == IF cut > N THEN N ELSE cut
             head == SubSeq(text, 1, c)
             tail == SubSeq(text, c + 1, N)
             first == Advance(Scanner, head)
             second == Advance(first, tail)
  <1>2. StreamedBlocks(i) = <<first.blocks, second.blocks>>
    BY DEF StreamedBlocks
  <1> HIDE DEF text, cut
  <1>3. /\ N \in Nat /\ c \in 0..N
        /\ head \in Seq(C) /\ Len(head) = c /\ (\A n \in 1..c : head[n] = text[n])
        /\ tail \in Seq(C) /\ Len(tail) = N - c /\ (\A n \in 1..(N - c) : tail[n] = text[c + n])
    <2>1. N \in Nat /\ c \in 0..N
      BY <1>1
    <2> HIDE DEF c
    <2>2. head \in Seq(C) /\ Len(head) = c /\ (\A n \in 1..c : head[n] = text[n])
      BY <1>1, <2>1
    <2>3. tail \in Seq(C) /\ Len(tail) = N - c
      BY <1>1, <2>1
    <2>4. ASSUME NEW n \in 1..(N - c) PROVE tail[n] = text[c + n]
      BY <1>1, <2>1
    <2> QED
      BY <2>1, <2>2, <2>3, <2>4
  <1> HIDE DEF c, head, tail
  <1>4. Scanner \in Scanners
    BY DEF Scanner, Scanners
  <1>5. PICK f \in [0..N -> Scanners] : Scans(f, Scanner, text) /\ Advance(Scanner, text) = f[N]
    BY <1>1, <1>4, AdvanceIsALoop
  <1>6. PICK g \in [0..c -> Scanners] : Scans(g, Scanner, head) /\ first = g[c]
    BY <1>3, <1>4, AdvanceIsALoop
  <1>7. first = f[c] /\ first \in Scanners
    <2>1. f[0] = g[0]
      BY <1>5, <1>6 DEF Scans
    <2>2. ASSUME NEW n \in 1..c PROVE f[n] = ScanChar(f[n - 1], text[n])
      <3>1. n \in 1..Len(text)
        BY <1>3
      <3> QED
        BY <1>5, <3>1 DEF Scans
    <2>3. ASSUME NEW n \in 1..c PROVE g[n] = ScanChar(g[n - 1], text[n])
      <3>1. n \in 1..Len(head) /\ head[n] = text[n]
        BY <1>3
      <3> QED
        BY <1>6, <3>1 DEF Scans
    <2>4. c \in Nat /\ Follows(f, c, text) /\ Follows(g, c, text)
      BY <1>3, <2>2, <2>3 DEF Follows
    <2>5. f[c] = g[c]
      BY <2>1, <2>4, ScansAgree
    <2> QED
      BY <1>3, <1>6, <2>5
  <1> HIDE DEF first
  <1>8. PICK h \in [0..(N - c) -> Scanners] : Scans(h, first, tail) /\ second = h[N - c]
    <2>1. \E h \in [0..Len(tail) -> Scanners] : Scans(h, first, tail) /\ Advance(first, tail) = h[Len(tail)]
      BY <1>3, <1>7, AdvanceIsALoop
    <2> QED
      BY <1>3, <2>1
  <1>9. second = f[N]
    <2> DEFINE rest == [n \in 0..(N - c) |-> f[c + n]]
               chars == [n \in 1..(N - c) |-> text[c + n]]
    <2>1. rest[0] = h[0]
      BY <1>3, <1>7, <1>8 DEF Scans
    <2>2. ASSUME NEW n \in 1..(N - c) PROVE rest[n] = ScanChar(rest[n - 1], chars[n])
      <3>1. c + n \in 1..N /\ (c + n) - 1 = c + (n - 1) /\ n \in 0..(N - c) /\ n - 1 \in 0..(N - c)
        BY <1>3
      <3>2. f[c + n] = ScanChar(f[(c + n) - 1], text[c + n])
        BY <1>5, <3>1 DEF Scans
      <3> QED
        BY <3>1, <3>2
    <2>3. ASSUME NEW n \in 1..(N - c) PROVE h[n] = ScanChar(h[n - 1], chars[n])
      <3>1. n \in 1..Len(tail) /\ tail[n] = chars[n]
        BY <1>3
      <3> QED
        BY <1>8, <3>1 DEF Scans
    <2>4. N - c \in Nat /\ N - c \in 0..(N - c) /\ c + (N - c) = N
      BY <1>3
    <2>5. rest[N - c] = f[N]
      BY <2>4
    <2> HIDE DEF rest, chars
    <2>6. Follows(rest, N - c, chars) /\ Follows(h, N - c, chars)
      BY <2>2, <2>3 DEF Follows
    <2>7. rest[N - c] = h[N - c]
      BY <2>1, <2>4, <2>6, ScansAgree
    <2> QED
      BY <1>8, <2>5, <2>7
  <1>10. /\ f[c].blocks <= f[N].blocks
         /\ f[N].blocks <= Cardinality({n \in DOMAIN text : text[n] = "}"})
    <2>1. c \in 0..N /\ N \in 0..N /\ c <= N
      BY <1>3
    <2>2. \A m, n \in 0..N : m <= n => f[m].blocks <= f[n].blocks
      BY <1>1, <1>5, BlocksAreBraces
    <2>3. f[N].blocks <= Cardinality({n \in DOMAIN text : text[n] = "}"})
      BY <1>1, <1>5, BlocksAreBraces
    <2> QED
      BY <2>1, <2>2, <2>3
  <1>11. StreamedBlocks(i)[1] = f[c].blocks /\ StreamedBlocks(i)[2] = f[N].blocks
    BY <1>2, <1>7, <1>9
  <1>12. Advance(Scanner, i.text).blocks = f[N].blocks
    BY <1>5 DEF text
  <1>13. Cardinality({n \in DOMAIN i.text : i.text[n] = "}"}) = Cardinality({n \in DOMAIN text : text[n] = "}"})
    BY DEF text
  <1> HIDE DEF N
  <1> QED
    BY <1>10, <1>11, <1>12, <1>13 DEF StreamIsTheAnswer

-----------------------------------------------------------------------------
(* Routes, clarifications, debts and writes (Turns, Tools).                *)
\* A route to the tools of the catalog, whatever else the model selected and whatever
\* write is disabled.
Routes(T) == [intent : {"policy_qa", "employee_data", "workflow", "action"}, workflow : Workflows \cup {"none"},
              needs_employee_data : BOOLEAN, selected : SUBSET T, target : {"none", "valid", "invalid"}, named : BOOLEAN,
              money : BOOLEAN, approval : BOOLEAN, disabled : SUBSET (Catalog \ {"compliance"}), reopened : BOOLEAN]

(***************************************************************************)
(* Whatever the model selected, a claim with an amount is scored as one,   *)
(* no disabled or unknown tool is offered and no id that is none is read   *)
(* (router.normalise, allowed_tools).                                      *)
(***************************************************************************)
LEMMA RoutesSafe ==
  ASSUME NEW T, NEW r \in Routes(T)
  PROVE  RoutesAreSafe(r)
  <1> DEFINE out == normalise(r)
             monetary == r.money /\ r.approval
             expense == monetary /\ r.workflow = "none" /\ r.intent # "action"
  <1>1. /\ r.intent \in {"policy_qa", "employee_data", "workflow", "action"} /\ r.workflow \in Workflows \cup {"none"}
        /\ r.target \in {"none", "valid", "invalid"} /\ r.disabled \subseteq Catalog \ {"compliance"}
        /\ r.needs_employee_data \in BOOLEAN /\ r.money \in BOOLEAN /\ r.approval \in BOOLEAN /\ r.named \in BOOLEAN
        /\ r.reopened \in BOOLEAN
    BY DEF Routes
  <1>2. /\ out.intent = (IF expense THEN "workflow" ELSE r.intent) /\ out.workflow = (IF expense THEN "expense" ELSE r.workflow)
        /\ out.selected = r.selected \cap Catalog /\ out.disabled = r.disabled /\ out.money = r.money
        /\ out.approval = r.approval /\ out.named = r.named /\ out.reopened = r.reopened
        /\ out.target = IF r.target = "valid" THEN r.target ELSE IF r.named THEN "valid" ELSE "none"
    BY DEF Routes, normalise
  <1>3. out.needs_employee_data = (r.needs_employee_data \/ monetary)
    BY DEF Routes, normalise
  <1>4. out \in Routes(T)
    <2>1. out \in [intent : {"policy_qa", "employee_data", "workflow", "action"}, workflow : Workflows \cup {"none"},
                   needs_employee_data : {r.needs_employee_data \/ monetary}, selected : SUBSET T,
                   target : {"none", "valid", "invalid"}, named : BOOLEAN, money : BOOLEAN, approval : BOOLEAN,
                   disabled : SUBSET (Catalog \ {"compliance"}), reopened : BOOLEAN]
      BY DEF Routes, normalise, Workflows
    <2>2. {r.needs_employee_data \/ monetary} \subseteq BOOLEAN
      BY <1>1
    <2> QED
      BY <2>1, <2>2 DEF Routes
  <1>5. normalise(out) = out
    <2> HIDE DEF out
    <2>1. ~(out.money /\ out.approval /\ out.workflow = "none" /\ out.intent # "action")
      BY <1>1, <1>2 DEF Workflows
    <2>2. out.selected \cap Catalog = out.selected
      BY <1>2
    <2>3. out.target = IF out.target = "valid" THEN out.target ELSE IF out.named THEN "valid" ELSE "none"
      BY <1>1, <1>2
    <2>4. out.needs_employee_data = (out.needs_employee_data \/ (out.money /\ out.approval)) /\ out.needs_employee_data \in BOOLEAN
      BY <1>1, <1>2, <1>3
    <2>5. normalise(out) = [out EXCEPT !.selected = out.selected, !.target = out.target, !.workflow = out.workflow,
                                       !.intent = out.intent, !.needs_employee_data = out.needs_employee_data]
      BY <2>1, <2>2, <2>3, <2>4 DEF normalise
    <2>6. [out EXCEPT !.selected = out.selected, !.target = out.target, !.workflow = out.workflow,
                      !.intent = out.intent, !.needs_employee_data = out.needs_employee_data] = out
      BY <1>4 DEF Routes
    <2> QED
      BY <2>5, <2>6
  <1> HIDE DEF out
  <1>6. allowed_tools(out) = (IF out.intent = "policy_qa" /\ ~out.reopened THEN Catalog \cap RAG_TOOLS ELSE Catalog) \ r.disabled
    BY <1>2 DEF allowed_tools
  <1>7. "compliance" \in allowed_tools(out) \/ out.intent = "policy_qa"
    BY <1>1, <1>6 DEF Catalog
  <1>8. allowed_tools(out) \cap r.disabled = {}
    BY <1>6
  <1> QED
    BY <1>1, <1>2, <1>3, <1>5, <1>7, <1>8 DEF RoutesAreSafe, out, Workflows

\* What a workflow owes.
LEMMA DebtsComplete ==
  ASSUME NEW d, d.workflow \in Workflows
  PROVE  DebtsAreWhatCompletes(d)
  BY DEF DebtsAreWhatCompletes, debts, is_complete, decided, evidence_met, REQUIRES, Workflows

\* A proposal to write, whatever it is about, whomever it is to and whatever it holds.
Proposals(A, P, H) == [tool : {"ticket", "email"}, about : A, to : P, hidden : H]

LEMMA FiledAsShown ==
  ASSUME NEW A, NEW P, NEW H,
         NEW i \in [proposed : Proposals(A, P, H), called : Proposals(A, P, H), token : BOOLEAN, manager : BOOLEAN]
  PROVE  FiledIsWhatWasShown(i)
  <1>1. /\ i.called.tool \in {"ticket", "email"} /\ i.proposed.tool \in {"ticket", "email"} /\ i.token \in BOOLEAN
    BY DEF Proposals
  <1> DEFINE first == [i EXCEPT !.token = FALSE, !.called = i.proposed]
             shown(args) == preview(args, IF args.tool = "ticket" THEN FALSE ELSE i.manager)
  <1>2. first.token = FALSE /\ first.called = i.proposed /\ first.manager = i.manager /\ first.proposed = i.proposed
    OBVIOUS
  <1>3. _write(first).card = {shown(i.proposed)}
    BY <1>1, <1>2 DEF _write, _ticket, _draft
  <1>4. CASE i.token /\ i.called = i.proposed
    <2>1. _write(i).filed = {[shown |-> shown(i.proposed), hidden |-> i.proposed.hidden]} /\ _write(i).card = {}
      BY <1>1, <1>4 DEF _write, _ticket, _draft
    <2> DEFINE w == [shown |-> shown(i.proposed), hidden |-> i.proposed.hidden]
    <2>2. w.shown = shown(i.proposed) /\ w.hidden = i.proposed.hidden
      OBVIOUS
    <2> HIDE DEF w, shown
    <2>3. _write(i).filed = {w}
      BY <2>1 DEF w
    <2>4. w.shown \in _write(first).card
      BY <1>3, <2>2
    <2> HIDE DEF first
    <2> QED
      BY <1>4, <2>1, <2>2, <2>3, <2>4 DEF FiledIsWhatWasShown, first
  <1>5. CASE ~(i.token /\ i.called = i.proposed)
    <2>1. _write(i).filed = {} /\ _write(i).card = {shown(i.called)}
      BY <1>1, <1>5 DEF _write, _ticket, _draft
    <2>2. shown(i.called).about = i.called.about /\ shown(i.called).tool = i.called.tool
      BY DEF preview
    <2> QED
      BY <2>1, <2>2 DEF FiledIsWhatWasShown
  <1> QED
    BY <1>4, <1>5

\* What a clarification may be of.
Unclear(K) == [workflow : Workflows \cup {"none"}, known : SUBSET K, has_record : BOOLEAN, intent : {"employee_data", "workflow"},
               topic : {"none", "pto", "remote"}, rationale : {"none", "identity", "days"}]

\* The slots of an order that are asked for.
LEMMA UnfilledOf ==
  ASSUME NEW K, NEW i \in Unclear(K), NEW S, NEW order \in Seq(S), "identity" \notin K
  PROVE  /\ unfilled_slots(order, i) \in Seq(S)
         /\ \A s : s \in ToSet(unfilled_slots(order, i)) <=>
                   s \in ToSet(order) /\ IF s = "identity" THEN ~i.has_record ELSE s \notin i.known
  <1> DEFINE P == {s \in S : IF s = "identity" THEN ~i.has_record ELSE s \notin i.known}
             f == [n \in DOMAIN order |-> IF order[n] \in P THEN <<order[n]>> ELSE <<>>]
             out == unfilled_slots(order, i)
  <1>1. out = FlattenSeq(f)
    <2>1. [n \in DOMAIN order |-> IF (IF order[n] = "identity" THEN ~i.has_record ELSE order[n] \notin i.known) THEN <<order[n]>> ELSE <<>>] = f
      OBVIOUS
    <2> QED
      BY <2>1 DEF unfilled_slots, Filter
  <1>2. Subsequence(out, order, P)
    <2> HIDE DEF P, out
    <2> QED
      BY <1>1, FilterKeeps
  <1> HIDE DEF f, out
  <1>3. \A s : s \in ToSet(out) <=> s \in ToSet(order) /\ s \in P
    BY <1>2 DEF Subsequence, ToSet
  <1>4. \A s \in ToSet(order) : s \in S
    BY DEF ToSet
  <1>5. ASSUME NEW s PROVE s \in ToSet(out) <=> s \in ToSet(order) /\ IF s = "identity" THEN ~i.has_record ELSE s \notin i.known
    BY <1>3, <1>4
  <1>6. out \in Seq(S)
    <2>1. out \in Seq(P) /\ P \subseteq S
      BY <1>2 DEF Subsequence
    <2> HIDE DEF P
    <2> QED
      BY <2>1
  <1> QED
    BY <1>5, <1>6 DEF out

\* An order of a workflow asks for slots.
ClarifiedSlots == {"identity", "start_date", "days", "country", "duration", "amount", "employee_data"}

LEMMA OrdersOfSlots ==
  /\ \A w \in Workflows : CLARIFY_SLOT_ORDER[w] \in Seq(ClarifiedSlots)
  /\ EmployeeDataOrder \in Seq(ClarifiedSlots)
  <1> DEFINE a == <<"identity", "start_date", "days">>
             b == <<"identity", "country", "duration">>
             c == <<"identity", "amount">>
  <1>1. a \in Seq(ClarifiedSlots) /\ b \in Seq(ClarifiedSlots) /\ c \in Seq(ClarifiedSlots)
    BY DEF ClarifiedSlots
  <1>2. CLARIFY_SLOT_ORDER = [pto |-> a, remote |-> b, expense |-> c]
    BY DEF CLARIFY_SLOT_ORDER
  <1> HIDE DEF a, b, c
  <1>3. /\ CLARIFY_SLOT_ORDER.pto \in Seq(ClarifiedSlots) /\ CLARIFY_SLOT_ORDER.remote \in Seq(ClarifiedSlots)
        /\ CLARIFY_SLOT_ORDER.expense \in Seq(ClarifiedSlots)
    BY <1>1, <1>2
  <1>4. EmployeeDataOrder \in Seq(ClarifiedSlots)
    BY DEF EmployeeDataOrder, ClarifiedSlots
  <1> QED
    BY <1>3, <1>4 DEF Workflows

(***************************************************************************)
(* Whatever the session knows, a clarification asks for what the workflow  *)
(* lacks and never who the reader is when that is known.                   *)
(***************************************************************************)
LEMMA MissingIsAskedFor ==
  ASSUME NEW K, "identity" \notin K, NEW i \in Unclear(K)
  PROVE  AsksForWhatIsMissing(i)
  <1> DEFINE order == IF i.workflow # "none" THEN CLARIFY_SLOT_ORDER[i.workflow]
                      ELSE IF i.intent = "employee_data" THEN EmployeeDataOrder ELSE <<>>
             own == unfilled_slots(order, i)
             other == unfilled_slots(CLARIFY_SLOT_ORDER[i.topic], i)
             inferred == IF own = <<>> /\ i.workflow = "none" /\ i.topic # "none" THEN other ELSE own
             out == _clarification(i)
  <1>1. /\ i.workflow \in Workflows \cup {"none"} /\ i.known \subseteq K /\ i.has_record \in BOOLEAN
        /\ i.topic \in {"none", "pto", "remote"} /\ i.rationale \in {"none", "identity", "days"}
    BY DEF Unclear
  <1>2. out = IF inferred # <<>> THEN inferred
              ELSE IF i.rationale = "none" \/ (i.rationale = "identity" /\ i.has_record) THEN <<>> ELSE <<i.rationale>>
    BY DEF _clarification
  <1>3. order \in Seq(ClarifiedSlots)
    BY <1>1, OrdersOfSlots
  <1>4. i.topic # "none" => CLARIFY_SLOT_ORDER[i.topic] \in Seq(ClarifiedSlots)
    BY <1>1, OrdersOfSlots DEF Workflows
  <1>5. /\ own \in Seq(ClarifiedSlots)
        /\ \A s : s \in ToSet(own) <=> s \in ToSet(order) /\ IF s = "identity" THEN ~i.has_record ELSE s \notin i.known
    <2> HIDE DEF order
    <2> QED
      BY <1>3, UnfilledOf
  <1>6. i.topic # "none" => \A s : s \in ToSet(other) => IF s = "identity" THEN ~i.has_record ELSE s \notin i.known
    <2> SUFFICES ASSUME i.topic # "none"
                 PROVE  \A s : s \in ToSet(other) => IF s = "identity" THEN ~i.has_record ELSE s \notin i.known
      OBVIOUS
    <2> DEFINE topics == CLARIFY_SLOT_ORDER[i.topic]
    <2>1. topics \in Seq(ClarifiedSlots)
      BY <1>4
    <2> HIDE DEF topics
    <2>2. \A s : s \in ToSet(unfilled_slots(topics, i)) => IF s = "identity" THEN ~i.has_record ELSE s \notin i.known
      BY <2>1, UnfilledOf
    <2> QED
      BY <2>2 DEF topics
  <1>7. i.workflow # "none" => order = CLARIFY_SLOT_ORDER[i.workflow] /\ inferred = own
    OBVIOUS
  <1> HIDE DEF own, other
  <1>8. \A s : s \in ToSet(inferred) => IF s = "identity" THEN ~i.has_record ELSE s \notin i.known
    BY <1>5, <1>6
  <1> HIDE DEF inferred, order, out
  <1>9. ToSet(<<>>) = {} /\ ToSet(<<i.rationale>>) = {i.rationale} /\ Len(<<i.rationale>>) = 1
    BY DEF ToSet
  <1>10. CASE inferred # <<>>
    <2>1. out = inferred
      BY <1>2, <1>10
    <2>2. ToSet(out) \cap i.known = {} /\ (i.has_record => "identity" \notin ToSet(out))
      BY <1>1, <1>8, <2>1
    <2>3. i.workflow # "none" => (ToSet(CLARIFY_SLOT_ORDER[i.workflow]) \ (i.known \cup {"identity"})) \subseteq ToSet(out)
      BY <1>5, <1>7, <2>1
    <2> QED
      BY <2>2, <2>3 DEF AsksForWhatIsMissing, out
  <1>11. CASE inferred = <<>>
    <2>1. out = <<>> \/ (out = <<i.rationale>> /\ ~(i.rationale = "identity" /\ i.has_record))
      BY <1>2, <1>11
    <2>2. (i.has_record => "identity" \notin ToSet(out)) /\ ToSet(out) \subseteq {i.rationale}
      BY <1>9, <2>1
    <2>3. ToSet(out) \cap i.known # {} => Len(out) = 1
      BY <1>9, <2>1
    <2>4. i.workflow # "none" => (ToSet(CLARIFY_SLOT_ORDER[i.workflow]) \ (i.known \cup {"identity"})) \subseteq ToSet(out)
      BY <1>5, <1>7, <1>9, <1>11
    <2> QED
      BY <2>2, <2>3, <2>4 DEF AsksForWhatIsMissing, out
  <1> QED
    BY <1>10, <1>11
=============================================================================
