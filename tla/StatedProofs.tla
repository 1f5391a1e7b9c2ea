---------------------------- MODULE StatedProofs ----------------------------
(***************************************************************************)
(* What an answer states, of a verdict and of a write, and what its page   *)
(* shows (Compliance, Outcome, Pages), proved for answers, spans and turns *)
(* of any length. The theorems are of the same kind as those of            *)
(* BackedProofs.                                                           *)
(***************************************************************************)
EXTENDS VerdictProofs, Compliance, Outcome, Pages

-----------------------------------------------------------------------------
(* Compliance: an answer beside the verdict on its request.                *)
\* What a model may say of a request: claims about rows, amounts, and lines it was given.
VerdictSayings ==
    [about : SUBSET RowIds, polarity : {"denies", "asserts", "none"}, reader : BOOLEAN, ceiling : {0}, lower : {FALSE}]
    \cup [about : {{}}, polarity : {"none"}, reader : {FALSE}, ceiling : Nat, lower : BOOLEAN]
    \cup [said : {"line"}, row : RowIds]

\* What an answer may say once the steps have been through it.
Spoken == VerdictSayings \cup {ReaderSentence(n) : n \in Int} \cup {CoveringRule}

\* Which sentences the steps wrote themselves.
LEMMA WhatIsWritten ==
  /\ \A s \in VerdictSayings : s # CoveringRule /\ \A n : s # ReaderSentence(n)
  /\ \A s \in VerdictSayings : ~Written(s) => s.ceiling \in Nat /\ s.lower \in BOOLEAN /\ (s.lower => s.about = {})
  /\ Written(CoveringRule)
  /\ \A n : Written(ReaderSentence(n)) /\ Written(NotStatedLine(n))
  <1>1. ASSUME NEW s \in VerdictSayings
        PROVE  /\ s # CoveringRule
               /\ \A n : s # ReaderSentence(n)
               /\ ~Written(s) => s.ceiling \in Nat /\ s.lower \in BOOLEAN /\ (s.lower => s.about = {})
    <2>1. CoveringRule.said = "covering" /\ "said" \in DOMAIN CoveringRule
      BY DEF CoveringRule
    <2>2. \A n : ReaderSentence(n).said = "reader" /\ "said" \in DOMAIN ReaderSentence(n)
      BY DEF ReaderSentence
    <2>3. CASE s \in [said : {"line"}, row : RowIds]
      <3>1. s.said = "line" /\ "said" \in DOMAIN s
        BY <2>3
      <3> QED
        BY <2>1, <2>2, <3>1 DEF Written
    <2>4. CASE s \notin [said : {"line"}, row : RowIds]
      <3>1. /\ DOMAIN s = {"about", "polarity", "reader", "ceiling", "lower"}
            /\ s.ceiling \in Nat /\ s.lower \in BOOLEAN /\ (s.lower => s.about = {})
        <4>1. CASE s \in [about : SUBSET RowIds, polarity : {"denies", "asserts", "none"}, reader : BOOLEAN, ceiling : {0}, lower : {FALSE}]
          <5>1. s.lower \in {FALSE} /\ s.ceiling \in {0} /\ DOMAIN s = {"about", "polarity", "reader", "ceiling", "lower"}
            BY <4>1
          <5>2. s.lower = FALSE
            BY <5>1
          <5>3. ~s.lower
            BY <5>2
          <5>4. s.lower \in BOOLEAN
            BY <5>2
          <5> QED
            BY <5>1, <5>3, <5>4
        <4>2. CASE s \in [about : {{}}, polarity : {"none"}, reader : {FALSE}, ceiling : Nat, lower : BOOLEAN]
          BY <4>2
        <4> QED
          BY <2>4, <4>1, <4>2 DEF VerdictSayings
      <3>2. "said" \notin DOMAIN s
        BY <3>1
      <3> QED
        BY <2>1, <2>2, <3>1, <3>2
    <2> QED
      BY <2>3, <2>4
  <1>2. Written(CoveringRule) /\ \A n : Written(ReaderSentence(n)) /\ Written(NotStatedLine(n))
    BY DEF Written, CoveringRule, ReaderSentence, NotStatedLine
  <1>3. \A s \in VerdictSayings : s # CoveringRule /\ \A n : s # ReaderSentence(n)
    BY <1>1
  <1>4. \A s \in VerdictSayings : ~Written(s) => s.ceiling \in Nat /\ s.lower \in BOOLEAN /\ (s.lower => s.about = {})
    BY <1>1
  <1> QED
    BY <1>2, <1>3, <1>4

\* The ceilings an amount has outgrown.
Outgrows(rows) == {s \in Spoken : Outgrown(s, rows)}

\* correct_ceilings puts the covering rule for them, when there is one.
LEMMA CeilingsStep ==
  ASSUME NEW text \in Seq(Spoken), NEW rows, NEW covering
  PROVE  LET out == correct_ceilings(text, rows, covering)
         IN  /\ out \in Seq(Spoken) /\ Steps(out, text, Outgrows(rows), CoveringRule)
             /\ covering /\ (\E s \in ToSet(text) : Outgrown(s, rows)) => CoveringRule \in ToSet(out)
  <1> DEFINE f == [i \in DOMAIN text |-> IF ~Outgrown(text[i], rows) THEN <<text[i]>>
                                         ELSE IF covering THEN <<CoveringRule>> ELSE <<>>]
  <1>1. correct_ceilings(text, rows, covering) = FlattenSeq(f)
    BY DEF correct_ceilings
  <1>2. \A i \in DOMAIN text : text[i] \in Spoken
    OBVIOUS
  <1>3. CoveringRule \in Spoken
    BY DEF Spoken
  <1>4. \A i \in DOMAIN text : IF text[i] \in Outgrows(rows) THEN f[i] \in {<<CoveringRule>>, <<>>} ELSE f[i] = <<text[i]>>
    BY <1>2 DEF Outgrows
  <1>5. \A i \in DOMAIN text : covering /\ Outgrown(text[i], rows) => f[i] = <<CoveringRule>>
    OBVIOUS
  <1>6. IsFunctionOn(f, DOMAIN text)
    BY DEF IsFunctionOn
  <1> HIDE DEF f
  <1>7. /\ FlattenSeq(f) \in Seq(Spoken) /\ Steps(FlattenSeq(f), text, Outgrows(rows), CoveringRule)
        /\ \A i \in DOMAIN text : f[i] = <<CoveringRule>> => CoveringRule \in ToSet(FlattenSeq(f))
    BY <1>3, <1>4, <1>6, StepByStep
  <1>8. covering /\ (\E s \in ToSet(text) : Outgrown(s, rows)) => CoveringRule \in ToSet(FlattenSeq(f))
    BY <1>5, <1>7 DEF ToSet
  <1> QED
    BY <1>1, <1>7, <1>8

\* The sentences of a model that hand a request down.
HandedDown == {s \in Spoken : ~Written(s) /\ s.lower}

\* correct_authority puts who decides for them.
LEMMA AuthorityStep ==
  ASSUME NEW text \in Seq(Spoken), NEW rows, NEW covering, FailingAmounts(rows) # {}
  PROVE  LET out == correct_authority(text, rows, covering)
             routing == IF covering THEN CoveringRule ELSE ReaderSentence(Max(FailingAmounts(rows)))
         IN  /\ Steps(out, text, HandedDown, routing)
             /\ (\E s \in ToSet(text) : s \in HandedDown) => routing \in ToSet(out)
  <1> DEFINE hands == {i \in DOMAIN text : ~Written(text[i]) /\ text[i].lower}
             routing == IF covering THEN CoveringRule ELSE ReaderSentence(Max(FailingAmounts(rows)))
             f == [i \in DOMAIN text |-> IF i \notin hands THEN <<text[i]>> ELSE IF i = Min(hands) THEN <<routing>> ELSE <<>>]
             T == Spoken \cup {routing}
  <1>1. correct_authority(text, rows, covering) = FlattenSeq(f)
    BY DEF correct_authority
  <1>2. \A i \in DOMAIN text : text[i] \in Spoken
    OBVIOUS
  <1>3. routing \in T /\ text \in Seq(T)
    <2>1. Spoken \subseteq T
      OBVIOUS
    <2> HIDE DEF T
    <2>2. text \in Seq(T)
      BY <2>1
    <2> QED
      BY <2>2 DEF T
  <1>4. \A i \in DOMAIN text : i \in hands <=> text[i] \in HandedDown
    BY <1>2 DEF HandedDown
  <1>5. IsFunctionOn(f, DOMAIN text) /\ hands \subseteq DOMAIN text /\ hands \in SUBSET Nat
    BY DEF IsFunctionOn
  <1> HIDE DEF hands, routing, T
  <1>6. \A i \in DOMAIN text : IF text[i] \in HandedDown THEN f[i] \in {<<routing>>, <<>>} ELSE f[i] = <<text[i]>>
    BY <1>4
  <1>7. \A i \in DOMAIN text : i \in hands /\ i = Min(hands) => f[i] = <<routing>>
    OBVIOUS
  <1> HIDE DEF f
  <1>8. /\ Steps(FlattenSeq(f), text, HandedDown, routing)
        /\ \A i \in DOMAIN text : f[i] = <<routing>> => routing \in ToSet(FlattenSeq(f))
    BY <1>3, <1>5, <1>6, StepByStep
  <1>9. ASSUME NEW s \in ToSet(text), s \in HandedDown PROVE routing \in ToSet(FlattenSeq(f))
    <2>1. hands # {}
      BY <1>4, <1>9 DEF ToSet
    <2>2. Min(hands) \in hands
      BY <1>5, <2>1, MinIsLeast
    <2> QED
      BY <1>5, <1>7, <1>8, <2>2
  <1> QED
    BY <1>1, <1>8, <1>9 DEF routing

\* What an answer adds of the rows nobody checked, after a block that says some of it.
Unchecked(u, rows, block) ==
    /\ \A n \in RowIds : rows[n].status = "not_stated" => NotStatedLine(n) \in ToSet(block) \cup ToSet(u)
    /\ \A line \in ToSet(u) : rows[line.row].status = "not_stated"
    /\ \A i, j \in DOMAIN u : (i < j /\ rows[u[j].row].blocking) => rows[u[i].row].blocking

\* The lines of the rows nobody checked, those a block has not said.
LEMMA TheUnchecked ==
  ASSUME NEW rows \in [RowIds -> Rows], NEW block
  PROVE  Unchecked(Filter(not_stated_lines(rows), LAMBDA line : line \notin ToSet(block)), rows, block)
  <1> DEFINE P(b) == {n \in RowIds : rows[n].status = "not_stated" /\ rows[n].blocking = b}
             p(b) == [i \in DOMAIN <<1, 2>> |-> IF <<1, 2>>[i] \in P(b) THEN <<<<1, 2>>[i]>> ELSE <<>>]
             of(b) == Filter(<<1, 2>>, LAMBDA n : rows[n].status = "not_stated" /\ rows[n].blocking = b)
             these == of(TRUE)
             those == of(FALSE)
             all == these \o those
             lines == not_stated_lines(rows)
             N == {NotStatedLine(n) : n \in RowIds}
             Q == N \ ToSet(block)
             q == [i \in DOMAIN lines |-> IF lines[i] \in Q THEN <<lines[i]>> ELSE <<>>]
             u == Filter(not_stated_lines(rows), LAMBDA line : line \notin ToSet(block))
  <1>1. <<1, 2>> \in Seq(RowIds) /\ ToSet(<<1, 2>>) = RowIds /\ \A i \in DOMAIN <<1, 2>> : <<1, 2>>[i] \in RowIds
    <2>1. <<1, 2>> \in Seq(RowIds) /\ DOMAIN <<1, 2>> = 1..2 /\ <<1, 2>>[1] = 1 /\ <<1, 2>>[2] = 2
      BY DEF RowIds
    <2>2. \A i \in 1..2 : i = 1 \/ i = 2
      OBVIOUS
    <2>3. \A i \in 1..2 : <<1, 2>>[i] = i
      BY <2>1, <2>2
    <2>4. ToSet(<<1, 2>>) = RowIds
      BY <2>1, <2>3 DEF ToSet, RowIds
    <2> QED
      BY <2>1, <2>3, <2>4 DEF RowIds
  <1>2. \A b \in BOOLEAN : of(b) = FlattenSeq(p(b))
    BY <1>1 DEF Filter
  <1>3. \A b \in BOOLEAN : Subsequence(of(b), <<1, 2>>, P(b))
    <2> TAKE b \in BOOLEAN
    <2> DEFINE h == p(b)
               PB == P(b)
    <2>1. h = [i \in DOMAIN <<1, 2>> |-> IF <<1, 2>>[i] \in PB THEN <<<<1, 2>>[i]>> ELSE <<>>]
      OBVIOUS
    <2> HIDE DEF h, PB
    <2>2. Subsequence(FlattenSeq(h), <<1, 2>>, PB)
      BY <1>1, <2>1, FilterKeeps
    <2> QED
      BY <1>2, <2>2 DEF h, PB
  <1>4. /\ these \in Seq(RowIds) /\ those \in Seq(RowIds)
        /\ ToSet(these) = P(TRUE) /\ ToSet(those) = P(FALSE)
    <2>1. \A b \in BOOLEAN : of(b) \in Seq(P(b)) /\ ToSet(of(b)) = RowIds \cap P(b)
      BY <1>1, <1>3 DEF Subsequence
    <2>2. \A b \in BOOLEAN : P(b) \subseteq RowIds
      OBVIOUS
    <2> HIDE DEF P, of
    <2>4. \A b \in BOOLEAN : ToSet(of(b)) = P(b)
      <3> TAKE b \in BOOLEAN
      <3> QED
        BY <2>1, <2>2
    <2>5. \A b \in BOOLEAN : of(b) \in Seq(RowIds)
      <3> TAKE b \in BOOLEAN
      <3> DEFINE o == of(b)
                 S == P(b)
      <3>1. o \in Seq(S) /\ S \subseteq RowIds
        BY <2>1, <2>2
      <3> HIDE DEF o, S
      <3>2. o \in Seq(RowIds)
        BY <3>1
      <3> QED
        BY <3>2 DEF o
    <2>3. \A b \in BOOLEAN : of(b) \in Seq(RowIds) /\ ToSet(of(b)) = P(b)
      BY <2>4, <2>5
    <2> QED
      BY <2>3
  <1>5. lines = [i \in DOMAIN all |-> NotStatedLine(all[i])]
    BY DEF not_stated_lines
  <1>6. rows[1].blocking \in BOOLEAN /\ rows[2].blocking \in BOOLEAN
    <2>1. \A r \in Rows : r.blocking \in BOOLEAN
      <3> SUFFICES ASSUME NEW r \in Rows PROVE r.blocking \in BOOLEAN
        OBVIOUS
      <3>1. CASE r \in [status : {"met", "unmet"}, amount : BOOLEAN, blocking : {FALSE}]
        <4>1. r.blocking = FALSE
          BY <3>1
        <4> QED
          BY <4>1
      <3>2. CASE r \in [status : {"not_stated"}, amount : {FALSE}, blocking : BOOLEAN]
        BY <3>2
      <3> QED
        BY <3>1, <3>2 DEF Rows
    <2> QED
      BY <2>1 DEF RowIds
  <1>7. \A n \in RowIds : rows[n].status = "not_stated" => n \in P(TRUE) \cup P(FALSE)
    <2> TAKE n \in RowIds
    <2>1. rows[n].blocking = TRUE \/ rows[n].blocking = FALSE
      BY <1>6 DEF RowIds
    <2> QED
      BY <2>1
  <1>8. \A n \in P(TRUE) : n \in RowIds /\ rows[n].status = "not_stated" /\ rows[n].blocking
    BY Zenon
  <1>9. \A n \in P(FALSE) : n \in RowIds /\ rows[n].status = "not_stated" /\ ~rows[n].blocking
    <2> TAKE n \in P(FALSE)
    <2>1. rows[n].blocking = FALSE
      OBVIOUS
    <2> QED
      BY <2>1
  <1> DEFINE PT == P(TRUE)
             PF == P(FALSE)
             a == Len(these)
             b == Len(those)
  <1>10. a \in Nat /\ b \in Nat /\ DOMAIN these = 1..a /\ DOMAIN those = 1..b
         /\ (\A i \in 1..a : these[i] \in PT) /\ (\A i \in 1..b : those[i] \in PF)
    <2>1. these \in Seq(RowIds) /\ those \in Seq(RowIds) /\ ToSet(these) = PT /\ ToSet(those) = PF
      BY <1>4
    <2> HIDE DEF these, those, PT, PF
    <2>2. a \in Nat /\ b \in Nat /\ DOMAIN these = 1..a /\ DOMAIN those = 1..b
      BY <2>1
    <2> HIDE DEF a, b
    <2> QED
      BY <2>1, <2>2 DEF ToSet
  <1>11. all \in Seq(RowIds) /\ DOMAIN all = 1..(a + b) /\ Len(all) = a + b
         /\ (\A i \in 1..a : all[i] = these[i]) /\ (\A i \in 1..b : all[a + i] = those[i])
    <2> HIDE DEF these, those
    <2> QED
      BY <1>4, <1>10
  <1>12. ToSet(these) = PT /\ ToSet(those) = PF
    BY <1>4
  <1> HIDE DEF these, those, PT, PF, a, b, all
  <1>13. \A i \in 1..(a + b) : (i <= a /\ all[i] \in PT) \/ (i > a /\ all[i] \in PF)
    <2> TAKE i \in 1..(a + b)
    <2>1. CASE i <= a
      BY <1>10, <1>11, <2>1
    <2>2. CASE i > a
      <3>1. i - a \in 1..b /\ a + (i - a) = i
        BY <1>10, <2>2
      <3> QED
        BY <1>10, <1>11, <2>2, <3>1
    <2> QED
      BY <1>10, <2>1, <2>2
  <1>14. \A n \in PT \cup PF : \E i \in 1..(a + b) : all[i] = n
    <2> TAKE n \in PT \cup PF
    <2>1. CASE n \in PT
      <3>1. PICK i \in 1..a : these[i] = n
        BY <1>10, <1>12, <2>1 DEF ToSet
      <3> QED
        BY <1>10, <1>11, <3>1
    <2>2. CASE n \in PF
      <3>1. PICK i \in 1..b : those[i] = n
        BY <1>10, <1>12, <2>2 DEF ToSet
      <3>2. a + i \in 1..(a + b)
        BY <1>10
      <3> QED
        BY <1>11, <3>1, <3>2
    <2> QED
      BY <2>1, <2>2
  <1>15. \A i \in 1..(a + b) : all[i] \in RowIds
    BY <1>11
  <1>16. lines \in Seq(N) /\ Len(lines) = a + b /\ DOMAIN lines = 1..(a + b) /\ \A i \in 1..(a + b) : lines[i] = NotStatedLine(all[i]) /\ lines[i].row = all[i]
    <2>1. a + b \in Nat
      BY <1>10
    <2>2. lines = [i \in 1..(a + b) |-> NotStatedLine(all[i])]
      BY <1>5, <1>11
    <2>3. \A i \in 1..(a + b) : NotStatedLine(all[i]) \in N /\ NotStatedLine(all[i]).row = all[i]
      BY <1>15 DEF NotStatedLine
    <2> HIDE DEF N, lines
    <2> QED
      BY <2>1, <2>2, <2>3
  <1> HIDE DEF lines
  <1>17. Subsequence(u, lines, Q)
    <2>1. q = [i \in DOMAIN lines |-> IF lines[i] \in Q THEN <<lines[i]>> ELSE <<>>]
      OBVIOUS
    <2>2. u = FlattenSeq(q)
      <3>1. \A i \in DOMAIN lines : (lines[i] \notin ToSet(block)) <=> lines[i] \in Q
        <4>1. \A i \in DOMAIN lines : lines[i] \in N
          BY <1>16
        <4> QED
          BY <4>1
      <3>2. q = [i \in DOMAIN lines |-> IF lines[i] \notin ToSet(block) THEN <<lines[i]>> ELSE <<>>]
        BY <3>1
      <3> QED
        BY <3>2 DEF Filter, lines
    <2> HIDE DEF q, Q, N
    <2>3. Subsequence(FlattenSeq(q), lines, Q)
      BY <1>16, <2>1, FilterKeeps
    <2> QED
      BY <2>2, <2>3
  <1> HIDE DEF u
  <1>18. /\ DOMAIN u = 1..Len(u) /\ Len(u) \in Nat /\ ToSet(u) = ToSet(lines) \cap Q
         /\ \E at \in [1..Len(u) -> 1..(a + b)] :
               /\ \A k \in 1..Len(u) : u[k] = lines[at[k]]
               /\ \A j, k \in 1..Len(u) : j < k => at[j] < at[k]
    <2> HIDE DEF Q, N
    <2>1. u \in Seq(Q) /\ ToSet(u) = ToSet(lines) \cap Q
      BY ONLY <1>17 DEF Subsequence
    <2>2. DOMAIN u = 1..Len(u) /\ Len(u) \in Nat
      BY ONLY <2>1
    <2>3. \E at \in [1..Len(u) -> 1..Len(lines)] :
               /\ \A k \in 1..Len(u) : u[k] = lines[at[k]]
               /\ \A j, k \in 1..Len(u) : j < k => at[j] < at[k]
      BY ONLY <1>17 DEF Subsequence
    <2>4. Len(lines) = a + b
      BY <1>16
    <2> QED
      BY ONLY <2>1, <2>2, <2>3, <2>4
  <1>19. PICK at \in [1..Len(u) -> 1..(a + b)] :
               /\ \A k \in 1..Len(u) : u[k] = lines[at[k]]
               /\ \A j, k \in 1..Len(u) : j < k => at[j] < at[k]
    BY <1>18
  <1>20. \A i \in 1..(a + b) : rows[all[i]].status = "not_stated"
    BY <1>8, <1>9, <1>13 DEF PT, PF
  <1>21. ASSUME NEW n \in RowIds, rows[n].status = "not_stated" PROVE NotStatedLine(n) \in ToSet(block) \cup ToSet(u)
    <2>1. n \in PT \cup PF
      BY <1>7, <1>21 DEF PT, PF
    <2>2. PICK i \in 1..(a + b) : all[i] = n
      BY <1>14, <2>1
    <2>3. NotStatedLine(n) \in ToSet(lines)
      BY <1>16, <2>2 DEF ToSet
    <2>4. NotStatedLine(n) \in N
      OBVIOUS
    <2> QED
      BY <1>18, <2>3, <2>4
  <1>22. ASSUME NEW line \in ToSet(u) PROVE rows[line.row].status = "not_stated"
    <2>1. line \in ToSet(lines)
      BY <1>18
    <2>2. PICK i \in 1..(a + b) : line = lines[i]
      BY <1>16, <2>1 DEF ToSet
    <2> QED
      BY <1>16, <1>20, <2>2
  <1>23. ASSUME NEW i \in DOMAIN u, NEW j \in DOMAIN u, i < j, rows[u[j].row].blocking PROVE rows[u[i].row].blocking
    <2>1. i \in 1..Len(u) /\ j \in 1..Len(u)
      BY <1>18
    <2>2. at[i] \in 1..(a + b) /\ at[j] \in 1..(a + b) /\ at[i] < at[j]
      BY <1>19, <1>23, <2>1
    <2>3. u[i].row = all[at[i]] /\ u[j].row = all[at[j]]
      BY <1>16, <1>19, <2>1, <2>2
    <2>4. all[at[j]] \notin PF
      BY <1>9, <1>23, <2>3 DEF PF
    <2>5. at[j] <= a
      BY <1>13, <2>2, <2>4
    <2>6. at[i] <= a
      BY <1>10, <2>2, <2>5
    <2>7. all[at[i]] \in PT
      BY <1>10, <1>13, <2>2, <2>6
    <2> QED
      BY <1>8, <2>3, <2>7 DEF PT
  <1> QED
    BY <1>21, <1>22, <1>23 DEF Unchecked, u

\* The sentences that oppose one row.
Wrongs(rows) == {s \in Spoken : Cardinality(OpposedRows(s, rows)) = 1}

\* A sentence the step wrote itself, or that names no row, is about no row.
LEMMA NamesNoRow ==
  ASSUME NEW s, NEW rows, Written(s) \/ s.about = {}
  PROVE  OpposedRows(s, rows) = {} /\ Cardinality(OpposedRows(s, rows)) = 0
  <1>1. \A n \in RowIds : relation(s, n, rows) = "silent"
    BY DEF relation
  <1>2. OpposedRows(s, rows) = {}
    BY <1>1 DEF OpposedRows
  <1> QED
    BY <1>2, FS_EmptySet

\* The sentences correct puts for them.
Reasons == {ReaderSentence(n) : n \in Int}

\* After correct no sentence is wrong, and the others stand where they stood.
Corrected(out, text, rows) ==
    /\ out \in Seq(Spoken)
    /\ \A s \in ToSet(out) : s \in Reasons \/ (s \in ToSet(text) /\ s \notin Wrongs(rows))
    /\ \A s \in ToSet(text) : s \notin Wrongs(rows) => s \in ToSet(out)
    /\ \A P : P \cap Reasons = {} /\ P \cap Wrongs(rows) = {} => Kept(out, P) = Kept(text, P)
    /\ (\A s \in ToSet(text) : s \notin Wrongs(rows)) => Restated(text, out) = {}

\* correct puts a reason for each, and leaves the others where they are.
LEMMA CorrectStep ==
  ASSUME NEW text \in Seq(Spoken), NEW rows
  PROVE  Corrected(correct(text, rows), text, rows)
  <1> DEFINE n == Len(text)
             c == correct(text, rows)
             w(i) == CHOOSE m \in OpposedRows(text[i], rows) : TRUE
  <1>1. n \in Nat /\ DOMAIN text = 1..n /\ \A i \in 1..n : text[i] \in Spoken
    OBVIOUS
  <1>2. \A i \in 1..n : text[i] \in Wrongs(rows) <=> Cardinality(OpposedRows(text[i], rows)) = 1
    BY <1>1 DEF Wrongs
  <1>3. c = [i \in 1..n |-> IF Cardinality(OpposedRows(text[i], rows)) = 1 THEN ReaderSentence(w(i)) ELSE text[i]]
    BY <1>1 DEF correct
  <1>4. ASSUME NEW i \in 1..n, text[i] \in Wrongs(rows) PROVE c[i] \in Reasons
    <2>1. c[i] = ReaderSentence(w(i))
      BY <1>2, <1>3, <1>4
    <2>2. Cardinality(OpposedRows(text[i], rows)) = 1
      BY <1>2, <1>4
    <2>0. Cardinality({}) = 0
      BY FS_EmptySet
    <2>3. OpposedRows(text[i], rows) # {}
      <3> SUFFICES ASSUME OpposedRows(text[i], rows) = {} PROVE FALSE
        OBVIOUS
      <3>1. Cardinality(OpposedRows(text[i], rows)) = Cardinality({})
        OBVIOUS
      <3> QED
        BY <2>0, <2>2, <3>1
    <2>4. w(i) \in OpposedRows(text[i], rows)
      BY <2>3
    <2>5. w(i) \in RowIds
      BY <2>4 DEF OpposedRows
    <2> HIDE DEF w
    <2>6. w(i) \in Int
      BY <2>5 DEF RowIds
    <2> QED
      BY <2>1, <2>6 DEF Reasons
  <1>5. \A i \in 1..n : text[i] \notin Wrongs(rows) => c[i] = text[i]
    BY <1>2, <1>3
  <1>6. Reasons \subseteq Spoken
    BY DEF Reasons, Spoken
  <1>7. \A i \in 1..n : c[i] \in Spoken
    BY <1>1, <1>4, <1>5, <1>6
  <1>8. c = [i \in 1..n |-> c[i]]
    BY <1>3
  <1> HIDE DEF c, w, n
  <1>9. c \in Seq(Spoken) /\ DOMAIN c = 1..n
    BY <1>1, <1>7, <1>8
  <1>10. ASSUME NEW s \in ToSet(c) PROVE s \in Reasons \/ (s \in ToSet(text) /\ s \notin Wrongs(rows))
    BY <1>1, <1>4, <1>5, <1>9 DEF ToSet
  <1>11. ASSUME NEW s \in ToSet(text), s \notin Wrongs(rows) PROVE s \in ToSet(c)
    BY <1>1, <1>5, <1>9, <1>11 DEF ToSet
  <1>12. ASSUME NEW P, P \cap Reasons = {}, P \cap Wrongs(rows) = {} PROVE Kept(c, P) = Kept(text, P)
    <2>1. \A i \in 1..n : Piece(c[i], P) = Piece(text[i], P)
      BY <1>4, <1>5, <1>12 DEF Piece
    <2>2. [i \in DOMAIN c |-> Piece(c[i], P)] = [i \in DOMAIN text |-> Piece(text[i], P)]
      BY <1>1, <1>9, <2>1
    <2> QED
      BY <2>2 DEF Kept
  <1>13. ASSUME \A s \in ToSet(text) : s \notin Wrongs(rows) PROVE Restated(text, c) = {}
    BY <1>1, <1>5, <1>13 DEF Restated, ToSet
  <1>14. Corrected(c, text, rows)
    BY <1>9, <1>10, <1>11, <1>12, <1>13 DEF Corrected
  <1> QED
    BY <1>14 DEF c

\* What is left of a text when only the entries of P are kept, when those stand in
\* it.
LEMMA KeptIsKept ==
  ASSUME NEW T, NEW text \in Seq(T), NEW P
  PROVE  LET D == ToSet(Kept(text, P))
         IN  D = ToSet(text) \cap P /\ Kept(text, D) = Kept(text, P)
  <1> DEFINE f == [i \in DOMAIN text |-> IF text[i] \in P THEN <<text[i]>> ELSE <<>>]
             D == ToSet(Kept(text, P))
  <1>1. f = [i \in DOMAIN text |-> IF text[i] \in P THEN <<text[i]>> ELSE <<>>]
    OBVIOUS
  <1>2. Kept(text, P) = FlattenSeq(f)
    BY DEF Kept, Piece
  <1> HIDE DEF f
  <1>3. Subsequence(FlattenSeq(f), text, P)
    BY <1>1, FilterKeeps
  <1>4. D = ToSet(text) \cap P
    BY <1>2, <1>3 DEF Subsequence
  <1>5. \A i \in DOMAIN text : text[i] \in D <=> text[i] \in P
    BY <1>4 DEF ToSet
  <1> HIDE DEF D
  <1>6. [i \in DOMAIN text |-> Piece(text[i], P)] = [i \in DOMAIN text |-> Piece(text[i], D)]
    BY <1>5 DEF Piece
  <1>7. Kept(text, D) = Kept(text, P)
    BY <1>6 DEF Kept
  <1> QED
    BY <1>4, <1>7 DEF D

\* An answer with a verdict beside it, as long as it may be.
DecidedAnswers == [rows : [RowIds -> Rows], text : Seq(VerdictSayings), covering : BOOLEAN, overlap : [RowIds -> Int]]

\* The sentences the steps change.
Unsound(s, rows) == Cardinality(OpposedRows(s, rows)) = 1 \/ Outgrown(s, rows)
                    \/ (~Written(s) /\ s.lower /\ FailingAmounts(rows) # {})

\* The block and the step of the answer, told from the verdict and from the answer given.
Squared(block, steps, text, rows, covering) ==
    /\ \A s \in ToSet(block) \cup ToSet(steps) : Cardinality(OpposedRows(s, rows)) # 1 /\ ~Outgrown(s, rows)
    /\ \A s \in ToSet(block) : ~(~Written(s) /\ s.lower /\ FailingAmounts(rows) # {})
    /\ \A P \in SUBSET VerdictSayings : (\A s \in P : ~Unsound(s, rows)) => Kept(block, P) = Kept(text, P)
    /\ (\E s \in ToSet(text) : ~Written(s) /\ s.lower /\ FailingAmounts(rows) # {}) /\ covering => CoveringRule \in ToSet(block)

\* After the three steps none is left, and all others are.
LEMMA TheTwoTexts ==
  ASSUME NEW rows \in [RowIds -> Rows], NEW text \in Seq(VerdictSayings), NEW covering \in BOOLEAN
  PROVE  LET corrected == correct(text, rows)
             steps == correct_ceilings(corrected, rows, covering)
             block == correct_authority(steps, rows, covering)
         IN  Squared(block, steps, text, rows, covering)
  <1> DEFINE c == correct(text, rows)
             e == correct_ceilings(c, rows, covering)
             b == correct_authority(e, rows, covering)
             routing == IF covering THEN CoveringRule ELSE ReaderSentence(Max(FailingAmounts(rows)))
             failing == FailingAmounts(rows) # {}
  <1>1. text \in Seq(Spoken) /\ ToSet(text) \subseteq VerdictSayings /\ VerdictSayings \subseteq Spoken
    <2>1. VerdictSayings \subseteq Spoken
      BY DEF Spoken
    <2> HIDE DEF VerdictSayings, Spoken
    <2> QED
      BY <2>1 DEF ToSet
  <1>2. Corrected(c, text, rows)
    BY <1>1, CorrectStep
  <1> HIDE DEF c
  <1>3. /\ e \in Seq(Spoken) /\ Steps(e, c, Outgrows(rows), CoveringRule)
        /\ covering /\ (\E s \in ToSet(c) : Outgrown(s, rows)) => CoveringRule \in ToSet(e)
    <2>1. c \in Seq(Spoken)
      BY <1>2 DEF Corrected
    <2> QED
      BY <2>1, CeilingsStep
  <1> HIDE DEF e
  <1>4. ASSUME failing
        PROVE  Steps(b, e, HandedDown, routing) /\ ((\E s \in ToSet(e) : s \in HandedDown) => routing \in ToSet(b))
    BY <1>3, <1>4, AuthorityStep
  <1>5. ~failing => b = e
    BY DEF correct_authority
  <1> HIDE DEF b
  <1>6. Written(CoveringRule) /\ Written(routing) /\ \A s \in Reasons : Written(s)
    BY WhatIsWritten DEF Reasons
  <1> HIDE DEF routing
  <1>7. \A s : Written(s) => Cardinality(OpposedRows(s, rows)) # 1 /\ ~Outgrown(s, rows)
    <2>1. \A s : Written(s) => Cardinality(OpposedRows(s, rows)) = 0
      BY NamesNoRow
    <2>2. \A s : Written(s) => ~Outgrown(s, rows)
      BY DEF Outgrown
    <2>3. \A s : Written(s) => Cardinality(OpposedRows(s, rows)) # 1
      BY <2>1
    <2> QED
      BY <2>2, <2>3
  <1>8. \A s \in ToSet(c) : s \in Spoken /\ Cardinality(OpposedRows(s, rows)) # 1
    <2> TAKE s \in ToSet(c)
    <2>1. s \in Reasons \/ (s \in ToSet(text) /\ s \notin Wrongs(rows))
      BY <1>2 DEF Corrected
    <2>2. c \in Seq(Spoken)
      BY <1>2 DEF Corrected
    <2>3. s \in Spoken
      BY <2>2 DEF ToSet
    <2> QED
      BY <1>6, <1>7, <2>1, <2>3 DEF Wrongs
  <1>9. \A s \in ToSet(e) : s \in Spoken /\ Cardinality(OpposedRows(s, rows)) # 1 /\ ~Outgrown(s, rows)
    <2> TAKE s \in ToSet(e)
    <2>1. s = CoveringRule \/ (s \in ToSet(c) /\ s \notin Outgrows(rows))
      BY <1>3 DEF Steps
    <2>2. CoveringRule \in Spoken
      BY DEF Spoken
    <2> QED
      BY <1>6, <1>7, <1>8, <2>1, <2>2 DEF Outgrows
  <1>10. \A s \in ToSet(b) : /\ Cardinality(OpposedRows(s, rows)) # 1 /\ ~Outgrown(s, rows)
                             /\ ~(~Written(s) /\ s.lower /\ failing)
    <2> TAKE s \in ToSet(b)
    <2>1. CASE failing
      <3>1. s = routing \/ (s \in ToSet(e) /\ s \notin HandedDown)
        BY <1>4, <2>1 DEF Steps
      <3> QED
        BY <1>6, <1>7, <1>9, <3>1 DEF HandedDown
    <2>2. CASE ~failing
      BY <1>5, <1>9, <2>2
    <2> QED
      BY <2>1, <2>2
  <1>11. ASSUME NEW P \in SUBSET VerdictSayings, \A s \in P : ~Unsound(s, rows) PROVE Kept(b, P) = Kept(text, P)
    <2>1. CoveringRule \notin P /\ P \cap Reasons = {} /\ (failing => routing \notin P)
      <3>1. \A s \in P : s # CoveringRule /\ \A n : s # ReaderSentence(n)
        <4>1. \A s \in P : s \in VerdictSayings
          OBVIOUS
        <4>2. \A s \in VerdictSayings : s # CoveringRule /\ \A n : s # ReaderSentence(n)
          BY WhatIsWritten
        <4> QED
          BY ONLY <4>1, <4>2
      <3> QED
        BY <3>1 DEF Reasons, routing
    <2>2. P \cap Wrongs(rows) = {} /\ P \cap Outgrows(rows) = {} /\ (failing => P \cap HandedDown = {})
      BY <1>11 DEF Unsound, Wrongs, Outgrows, HandedDown
    <2>3. Kept(c, P) = Kept(text, P)
      BY <1>2, <2>1, <2>2 DEF Corrected
    <2>4. Kept(e, P) = Kept(c, P)
      BY <1>3, <2>1, <2>2 DEF Steps
    <2>5. Kept(b, P) = Kept(e, P)
      <3>1. CASE failing
        BY <1>4, <2>1, <2>2, <3>1 DEF Steps
      <3>2. CASE ~failing
        BY <1>5, <3>2
      <3> QED
        BY <3>1, <3>2
    <2> QED
      BY <2>3, <2>4, <2>5
  <1>12. ASSUME NEW s \in ToSet(text), ~Written(s), s.lower, failing, covering PROVE CoveringRule \in ToSet(b)
    <2>1. s \in VerdictSayings /\ s \in Spoken /\ s.about = {}
      BY <1>1, <1>12, WhatIsWritten
    <2>2. Cardinality(OpposedRows(s, rows)) = 0
      BY <2>1, NamesNoRow
    <2>3. s \notin Wrongs(rows)
      BY <2>2 DEF Wrongs
    <2>4. s \in ToSet(c)
      BY <1>2, <2>3 DEF Corrected
    <2>5. s \in HandedDown
      BY <1>12, <2>1 DEF HandedDown
    <2>6. routing = CoveringRule
      BY <1>12 DEF routing
    <2>7. s \in ToSet(e) \/ CoveringRule \in ToSet(e)
      <3>1. CASE Outgrown(s, rows)
        BY <1>3, <1>12, <2>4, <3>1
      <3>2. CASE ~Outgrown(s, rows)
        <4>1. s \notin Outgrows(rows)
          BY <3>2 DEF Outgrows
        <4> QED
          BY <1>3, <2>4, <4>1 DEF Steps
      <3> QED
        BY <3>1, <3>2
    <2>8. CASE s \in ToSet(e)
      BY <1>4, <1>12, <2>5, <2>6, <2>8
    <2>9. CASE CoveringRule \in ToSet(e)
      <3>1. CoveringRule \notin HandedDown
        BY <1>6 DEF HandedDown
      <3> QED
        BY <1>4, <1>12, <2>9, <3>1 DEF Steps
    <2> QED
      BY <2>7, <2>8, <2>9
  <1>13. Squared(b, e, text, rows, covering)
    BY <1>9, <1>10, <1>11, <1>12 DEF Squared
  <1> QED
    BY <1>13 DEF b, e, c

(***************************************************************************)
(* Beside any verdict an answer of any length contradicts no row it can be *)
(* told was meant, quotes no ceiling the amount has outgrown, hands no     *)
(* failing amount to the manager, says of each row nobody checked that     *)
(* nobody did, the blocking ones first, and keeps every sentence that was  *)
(* right; a step the engine mandates is not filed as advice                *)
(* (compliance.apply).                                                     *)
(***************************************************************************)
THEOREM VerdictIsKept ==
  ASSUME NEW input \in DecidedAnswers
  PROVE  AnswerKeepsTheVerdict(input)
  <1> DEFINE rows == input.rows
             text == input.text
             c == correct(text, rows)
             e == correct_ceilings(c, rows, input.covering)
             b == correct_authority(e, rows, input.covering)
             typed == retype(Restated(text, c), input.overlap)
             u == Filter(not_stated_lines(rows), LAMBDA line : line \notin ToSet(b))
             sound(s) == ~(Cardinality(OpposedRows(s, rows)) = 1) /\ ~Outgrown(s, rows)
                         /\ ~(~Written(s) /\ s.lower /\ FailingAmounts(rows) # {})
             P == {s \in VerdictSayings : ~Unsound(s, rows)}
             kept == Filter(text, sound)
             D == ToSet(kept)
  <1>1. rows \in [RowIds -> Rows] /\ text \in Seq(VerdictSayings) /\ input.covering \in BOOLEAN /\ input.overlap \in [RowIds -> Int]
    BY DEF DecidedAnswers
  <1>2. Squared(b, e, text, rows, input.covering)
    BY <1>1, TheTwoTexts
  <1>3. Unchecked(u, rows, b)
    BY <1>1, TheUnchecked
  <1>4. kept = Kept(text, P)
    <2>1. \A i \in DOMAIN text : sound(text[i]) <=> text[i] \in P
      <3>1. \A i \in DOMAIN text : text[i] \in VerdictSayings
        BY <1>1
      <3> QED
        BY <3>1 DEF Unsound
    <2>2. [i \in DOMAIN text |-> IF sound(text[i]) THEN <<text[i]>> ELSE <<>>]
          = [i \in DOMAIN text |-> IF text[i] \in P THEN <<text[i]>> ELSE <<>>]
      BY <2>1
    <2> QED
      BY <2>2 DEF Filter, Kept, Piece
  <1>5. Filter(b, LAMBDA s : s \in D) = Kept(b, D)
    BY DEF Filter, Kept, Piece
  <1>6. D = ToSet(text) \cap P /\ Kept(text, D) = Kept(text, P)
    BY <1>1, <1>4, KeptIsKept
  <1>7. Kept(b, D) = Kept(text, D)
    <2>1. D \in SUBSET VerdictSayings /\ \A s \in D : ~Unsound(s, rows)
      BY <1>6
    <2> HIDE DEF D
    <2> QED
      BY <1>2, <2>1 DEF Squared
  <1>8. kept = Filter(b, LAMBDA s : s \in D)
    BY <1>4, <1>5, <1>6, <1>7
  <1>9. apply(input) = [block |-> b, type |-> typed[1], citations |-> typed[2], steps |-> e, unchecked |-> u]
    BY DEF apply
  <1>10. Corrected(c, text, rows)
    <2>1. text \in Seq(Spoken)
      <3>1. VerdictSayings \subseteq Spoken
        BY DEF Spoken
      <3> HIDE DEF text
      <3> QED
        BY <1>1, <3>1
    <2> QED
      BY <2>1, CorrectStep
  <1>11. input.overlap # NotMandated => typed[1] # "recommendation"
    BY DEF retype
  <1>12. (\A s \in ToSet(text) : Cardinality(OpposedRows(s, rows)) # 1) /\ input.overlap = NotMandated => typed[1] = "recommendation"
    <2> SUFFICES ASSUME \A s \in ToSet(text) : Cardinality(OpposedRows(s, rows)) # 1, input.overlap = NotMandated
                 PROVE  typed[1] = "recommendation"
      OBVIOUS
    <2>1. \A s \in ToSet(text) : s \notin Wrongs(rows)
      BY DEF Wrongs
    <2>2. Restated(text, c) = {}
      BY <1>10, <2>1 DEF Corrected
    <2> QED
      BY <2>2 DEF retype
  <1>13. \A n \in typed[2] : \A m \in RowIds \ {n} : input.overlap[n] > input.overlap[m]
    <2>1. typed[2] = {} \/ typed[2] = supporting_row(input.overlap)
      BY DEF retype
    <2>2. \A n \in supporting_row(input.overlap) : \A m \in RowIds \ {n} : input.overlap[m] < input.overlap[n]
      BY DEF supporting_row
    <2>3. \A n \in supporting_row(input.overlap) : n \in RowIds
      BY DEF supporting_row
    <2>4. \A n \in RowIds : input.overlap[n] \in Int
      BY <1>1
    <2> HIDE DEF typed
    <2>5. CASE typed[2] = {}
      BY <2>5
    <2>6. CASE typed[2] = supporting_row(input.overlap)
      <3> TAKE n \in typed[2]
      <3> TAKE m \in RowIds \ {n}
      <3>1. input.overlap[m] < input.overlap[n] /\ input.overlap[m] \in Int /\ input.overlap[n] \in Int
        BY <2>2, <2>3, <2>4, <2>6
      <3> QED
        BY <3>1
    <2> QED
      BY <2>1, <2>5, <2>6
  <1>14. \A s \in ToSet(b) \cup ToSet(e) : ~(Cardinality(OpposedRows(s, rows)) = 1) /\ ~Outgrown(s, rows)
    BY <1>2 DEF Squared
  <1>15. \A s \in ToSet(b) : ~(~Written(s) /\ s.lower /\ FailingAmounts(rows) # {})
    BY <1>2 DEF Squared
  <1>16. (\E s \in ToSet(text) : ~Written(s) /\ s.lower /\ FailingAmounts(rows) # {}) /\ input.covering
         => {i \in DOMAIN b : b[i] = CoveringRule} # {}
    <2> SUFFICES ASSUME \E s \in ToSet(text) : ~Written(s) /\ s.lower /\ FailingAmounts(rows) # {}, input.covering
                 PROVE  \E i \in DOMAIN b : b[i] = CoveringRule
      OBVIOUS
    <2>1. CoveringRule \in ToSet(b)
      BY <1>2 DEF Squared
    <2> HIDE DEF b
    <2> QED
      BY <2>1 DEF ToSet
  <1>17. /\ \A n \in RowIds : rows[n].status = "not_stated" => NotStatedLine(n) \in ToSet(b) \cup ToSet(u)
         /\ \A line \in ToSet(u) : rows[line.row].status = "not_stated"
         /\ \A i, j \in DOMAIN u : (i < j /\ rows[u[j].row].blocking) => rows[u[i].row].blocking
    BY <1>3 DEF Unchecked
  <1>18. \A s \in ToSet(text) : (~(Cardinality(OpposedRows(s, rows)) = 1)) = (Cardinality(OpposedRows(s, rows)) # 1)
    OBVIOUS
  <1>19. /\ \A s \in ToSet(b) \cup ToSet(e) : ~(Cardinality(OpposedRows(s, rows)) = 1) /\ ~Outgrown(s, rows)
         /\ \A s \in ToSet(b) : ~(~Written(s) /\ s.lower /\ FailingAmounts(rows) # {})
         /\ Filter(text, sound) = Filter(b, LAMBDA s : s \in ToSet(Filter(text, sound)))
         /\ \A n \in RowIds : rows[n].status = "not_stated" => NotStatedLine(n) \in ToSet(b) \cup ToSet(u)
         /\ \A line \in ToSet(u) : rows[line.row].status = "not_stated"
         /\ \A i, j \in DOMAIN u : (i < j /\ rows[u[j].row].blocking) => rows[u[i].row].blocking
         /\ (\E s \in ToSet(text) : ~Written(s) /\ s.lower /\ FailingAmounts(rows) # {}) /\ input.covering
            => {i \in DOMAIN b : b[i] = CoveringRule} # {}
         /\ input.overlap # NotMandated => typed[1] # "recommendation"
         /\ (\A s \in ToSet(text) : ~(Cardinality(OpposedRows(s, rows)) = 1)) /\ input.overlap = NotMandated => typed[1] = "recommendation"
         /\ \A n \in typed[2] : \A m \in RowIds \ {n} : input.overlap[n] > input.overlap[m]
    BY <1>8, <1>11, <1>12, <1>13, <1>14, <1>15, <1>16, <1>17, Zenon
  <1> DEFINE out == apply(input)
  <1> HIDE DEF b, e, c, u, typed
  <1>20. out.block = b /\ out.type = typed[1] /\ out.citations = typed[2] /\ out.steps = e /\ out.unchecked = u
    BY <1>9
  <1> HIDE DEF out
  <1>21. Filter(text, sound) = Filter(out.block, LAMBDA s : s \in ToSet(Filter(text, sound)))
    <2>1. Filter(out.block, LAMBDA s : s \in D) = Filter(b, LAMBDA s : s \in D)
      BY <1>20 DEF Filter
    <2> QED
      BY <1>8, <2>1, Zenon
  <1>22. /\ \A s \in ToSet(out.block) \cup ToSet(out.steps) : ~(Cardinality(OpposedRows(s, rows)) = 1) /\ ~Outgrown(s, rows)
         /\ \A s \in ToSet(out.block) : ~(~Written(s) /\ s.lower /\ FailingAmounts(rows) # {})
         /\ Filter(text, sound) = Filter(out.block, LAMBDA s : s \in ToSet(Filter(text, sound)))
         /\ \A n \in RowIds : rows[n].status = "not_stated" => NotStatedLine(n) \in ToSet(out.block) \cup ToSet(out.unchecked)
         /\ \A line \in ToSet(out.unchecked) : rows[line.row].status = "not_stated"
         /\ \A i, j \in DOMAIN out.unchecked : (i < j /\ rows[out.unchecked[j].row].blocking) => rows[out.unchecked[i].row].blocking
         /\ (\E s \in ToSet(text) : ~Written(s) /\ s.lower /\ FailingAmounts(rows) # {}) /\ input.covering
            => {i \in DOMAIN out.block : out.block[i] = CoveringRule} # {}
         /\ input.overlap # NotMandated => out.type # "recommendation"
         /\ (\A s \in ToSet(text) : ~(Cardinality(OpposedRows(s, rows)) = 1)) /\ input.overlap = NotMandated => out.type = "recommendation"
         /\ \A n \in out.citations : \A m \in RowIds \ {n} : input.overlap[n] > input.overlap[m]
    BY <1>19, <1>20, <1>21, Zenon
  <1> QED
    BY <1>22, Zenon DEF AnswerKeepsTheVerdict, out

-----------------------------------------------------------------------------
(* Outcome: an answer beside the write it is about.                        *)
\* A sentence of an answer, whatever the patterns find in it.
Worded == [verb : {"none", "filing", "directive"}, opens : BOOLEAN, object : {"write", "pronoun", "other"},
           modal : BOOLEAN, id : BOOLEAN, claim : BOOLEAN, denial : BOOLEAN,
           states : SUBSET {"number", "scalar", "prose"}, reader : BOOLEAN]

\* A sentence that tells the reader to write what was written.
Again == {s \in Worded : ~s.id /\ directs(s)}

\* A sentence that claims a write under an id.
Claiming == {s \in Worded : claims_the_write(s)}

\* A sentence that opens with what a record is filed by.
Opening == {s \in Worded : s.opens /\ s.verb # "none"}

\* What the patterns of outcome.py say of a sentence.
LEMMA WhatAgainIs ==
  /\ \A s \in Worded : (s.verb = "filing" /\ ~s.id /\ (s.modal \/ (s.opens /\ s.object # "other"))) <=> s \in Again
  /\ \A s \in Worded : (s.id /\ s.claim) <=> s \in Claiming
  /\ \A s \in Worded : Removed(s) <=> s \in Again \cup Claiming
  /\ Amend \notin Worded
  <1>1. ASSUME NEW s \in Worded PROVE (s.verb = "filing" /\ ~s.id /\ (s.modal \/ (s.opens /\ s.object # "other"))) <=> s \in Again
    <2>1. (s.object # "other") <=> s.object \in {"write", "pronoun"}
      BY DEF Worded
    <2> QED
      BY <2>1, Zenon DEF Again, directs, _imperative
  <1>2. \A s \in Worded : (s.id /\ s.claim) <=> s \in Claiming
    BY Zenon DEF Claiming, claims_the_write
  <1>3. \A s \in Worded : Removed(s) <=> s \in Again \cup Claiming
    BY Zenon DEF Removed, Again, Claiming
  <1>4. Amend \notin Worded
    <2>1. \A s \in Worded : DOMAIN s = {"verb", "opens", "object", "modal", "id", "claim", "denial", "states", "reader"}
      BY DEF Worded
    <2>2. DOMAIN Amend = {"said"} /\ "said" \notin {"verb", "opens", "object", "modal", "id", "claim", "denial", "states", "reader"}
      BY DEF Amend
    <2> QED
      BY <2>1, <2>2
  <1> QED
    BY <1>1, <1>2, <1>3, <1>4

\* Of a text what P names, and no more.
LEMMA KeptIsThose ==
  ASSUME NEW T, NEW text \in Seq(T), NEW P
  PROVE  Kept(text, P) \in Seq(T) /\ ToSet(Kept(text, P)) = ToSet(text) \cap P
  <1> DEFINE f == [i \in DOMAIN text |-> IF text[i] \in P THEN <<text[i]>> ELSE <<>>]
  <1>1. f = [i \in DOMAIN text |-> IF text[i] \in P THEN <<text[i]>> ELSE <<>>]
    OBVIOUS
  <1>2. Kept(text, P) = FlattenSeq(f)
    BY DEF Kept, Piece
  <1> HIDE DEF f
  <1>3. Subsequence(FlattenSeq(f), text, P)
    BY <1>1, FilterKeeps
  <1> DEFINE out == FlattenSeq(f)
  <1> HIDE DEF out
  <1>4. out \in Seq(P) /\ ToSet(out) = ToSet(text) \cap P
    BY <1>3 DEF Subsequence, out
  <1>5. \A i \in 1..Len(out) : out[i] \in T
    <2> TAKE i \in 1..Len(out)
    <2>1. out[i] \in ToSet(out)
      BY <1>4 DEF ToSet
    <2>2. out[i] \in ToSet(text)
      BY <1>4, <2>1
    <2> QED
      BY <2>2 DEF ToSet
  <1>6. out = [i \in 1..Len(out) |-> out[i]] /\ Len(out) \in Nat
    BY <1>4
  <1>7. out \in Seq(T)
    BY <1>5, <1>6
  <1> QED
    BY <1>2, <1>4, <1>7 DEF out

\* amend takes out the sentences that ask for the write again.
LEMMA AmendedText ==
  ASSUME NEW text \in Seq(Worded)
  PROVE  ToSet(amend(text)) \ {Amend} = ToSet(text) \ Again
  <1> DEFINE first(i) == \A j \in 1..(i - 1) : ~(directs(text[j]) /\ ~text[j].id)
             f == [i \in DOMAIN text |->
                     IF text[i].id \/ ~directs(text[i]) THEN <<text[i]>> ELSE IF first(i) THEN <<Amend>> ELSE <<>>]
             T == Worded \cup {Amend}
  <1>1. amend(text) = FlattenSeq(f)
    BY DEF amend
  <1>2. \A i \in DOMAIN text : text[i] \in Worded
    OBVIOUS
  <1>3. \A i \in DOMAIN text : IF text[i] \in Again THEN f[i] \in {<<Amend>>, <<>>} ELSE f[i] = <<text[i]>>
    <2> TAKE i \in DOMAIN text
    <2>1. (text[i].id \/ ~directs(text[i])) <=> text[i] \notin Again
      BY <1>2, Zenon DEF Again
    <2> HIDE DEF first
    <2> QED
      BY <2>1
  <1>4. IsFunctionOn(f, DOMAIN text)
    BY DEF IsFunctionOn
  <1>5. Worded \subseteq T /\ Amend \in T
    OBVIOUS
  <1> HIDE DEF f, T
  <1>6. text \in Seq(T)
    <2> HIDE DEF Worded
    <2> QED
      BY <1>5
  <1>7. Steps(FlattenSeq(f), text, Again, Amend)
    BY <1>3, <1>4, <1>5, <1>6, StepByStep
  <1>8. Amend \notin ToSet(text)
    BY WhatAgainIs DEF ToSet
  <1> QED
    BY <1>1, <1>7, <1>8 DEF Steps

\* A block once the statement of the write has been made its own.
Filed == [type : {"recommendation", "policy_fact", "escalation", "record"}, text : Seq(Worded), policy_claim : BOOLEAN, cited : BOOLEAN]

\* The blocks a block was taken apart into say what it said, and file as record only that.
Parts(r, block) ==
    /\ r \in Seq(Filed)
    /\ r # <<>>
    /\ \A b \in ToSet(r) : b.type = "record" =>
          block.type = "record" \/ (block.policy_claim = FALSE /\ ToSet(b.text) \cap Opening = {})
    /\ UNION {ToSet(b.text) : b \in ToSet(r)} = ToSet(block.text)

\* A text of one sentence says that.
LEMMA OneSentenceLong ==
  ASSUME NEW x PROVE DOMAIN <<x>> = {1} /\ <<x>>[1] = x /\ ToSet(<<x>>) = {x}
  <1>1. DOMAIN <<x>> = 1..1 /\ <<x>>[1] = x
    OBVIOUS
  <1>2. 1..1 = {1}
    OBVIOUS
  <1> QED
    BY <1>1, <1>2 DEF ToSet

\* _record_split loses no sentence.
LEMMA SplitSaysAll ==
  ASSUME NEW block \in Filed, NEW told
  PROVE  Parts(_record_split(block, told), block)
  <1> DEFINE text == block.text
             directing(s) == opens_with_a_directive(<<s>>)
             isRecord(s) == ~opens_with_a_directive(<<s>>) /\ IsRecord(block.type, <<s>>, told)
             directives == Filter(block.text, LAMBDA s : opens_with_a_directive(<<s>>))
             records == Filter(block.text, isRecord)
             others == Filter(block.text, LAMBDA s : ~isRecord(s))
             R == {s \in Worded : isRecord(s)}
             O == {s \in Worded : ~isRecord(s)}
  <1>1. text \in Seq(Worded) /\ ToSet(text) \subseteq Worded /\ \A i \in DOMAIN text : text[i] \in Worded
    <2>1. text \in Seq(Worded)
      BY DEF Filed
    <2> HIDE DEF text
    <2> QED
      BY <2>1 DEF ToSet
  <1>2. \A s \in Worded : directing(s) <=> s \in Opening
    <2> TAKE s \in Worded
    <2>2. ToSet(<<s>>) = {s}
      BY OneSentenceLong
    <2>3. (\E x \in {s} : x.opens /\ x.verb # "none") <=> s.opens /\ s.verb # "none"
      BY Zenon
    <2>1. opens_with_a_directive(<<s>>) <=> s.opens /\ s.verb # "none"
      BY <2>2, <2>3, Zenon DEF opens_with_a_directive
    <2> QED
      BY <2>1, Zenon DEF Opening
  <1>3. directives = Kept(text, Opening)
    <2>1. \A i \in DOMAIN text : directing(text[i]) <=> text[i] \in Opening
      BY <1>1, <1>2
    <2> QED
      BY <2>1 DEF Filter, Kept, Piece
  <1>4. records = Kept(text, R) /\ others = Kept(text, O)
    <2>1. \A i \in DOMAIN text : isRecord(text[i]) <=> text[i] \in R
      BY <1>1
    <2>2. \A i \in DOMAIN text : ~isRecord(text[i]) <=> text[i] \in O
      BY <1>1
    <2> HIDE DEF R, O, isRecord
    <2> QED
      BY <2>1, <2>2 DEF Filter, Kept, Piece
  <1>5. R \cap Opening = {} /\ R \cup O = Worded
    BY <1>2
  <1> DEFINE first == [block EXCEPT !.text = others]
             second == [type |-> "record", text |-> records, policy_claim |-> FALSE, cited |-> FALSE]
             alone == [block EXCEPT !.type = "record", !.cited = FALSE]
  <1>6. \/ _record_split(block, told) = <<block>>
        \/ _record_split(block, told) = <<first, second>> /\ block.policy_claim = FALSE
        \/ _record_split(block, told) = <<alone>> /\ directives = <<>> /\ ~block.policy_claim
    <2> HIDE DEF first, second, alone, directives, records, others, isRecord
    <2>1. _record_split(block, told) =
             IF block.policy_claim \/ block.type \notin {"recommendation", "policy_fact"} THEN <<block>>
             ELSE IF directives # <<>> /\ records # <<>> THEN <<first, second>>
             ELSE IF directives = <<>> /\ IsRecord(block.type, block.text, told) THEN <<alone>>
             ELSE <<block>>
      BY DEF _record_split, first, second, alone, directives, records, others, isRecord
    <2>2. block.policy_claim \in BOOLEAN
      BY DEF Filed
    <2>3. ~block.policy_claim => block.policy_claim = FALSE
      BY <2>2
    <2> QED
      BY <2>1, <2>3
  <1>7. /\ directives \in Seq(Worded) /\ ToSet(directives) = ToSet(text) \cap Opening
        /\ records \in Seq(Worded) /\ ToSet(records) = ToSet(text) \cap R
        /\ others \in Seq(Worded) /\ ToSet(others) = ToSet(text) \cap O
    <2> HIDE DEF directives, records, others, R, O, text
    <2>1. directives \in Seq(Worded) /\ ToSet(directives) = ToSet(text) \cap Opening
      BY <1>1, <1>3, KeptIsThose
    <2>2. records \in Seq(Worded) /\ ToSet(records) = ToSet(text) \cap R
      BY <1>1, <1>4, KeptIsThose
    <2>3. others \in Seq(Worded) /\ ToSet(others) = ToSet(text) \cap O
      BY <1>1, <1>4, KeptIsThose
    <2> QED
      BY <2>1, <2>2, <2>3
  <1>8. /\ block.type \in {"recommendation", "policy_fact", "escalation", "record"} /\ block.policy_claim \in BOOLEAN
        /\ block.cited \in BOOLEAN /\ block \in Filed
    BY DEF Filed
  <1>9. /\ first \in Filed /\ first.type = block.type /\ first.text = others
        /\ second \in Filed /\ second.type = "record" /\ second.text = records
        /\ alone \in Filed /\ alone.type = "record" /\ alone.text = text
    <2> HIDE DEF directives, records, others, isRecord, Worded
    <2>1. first \in Filed /\ first.type = block.type /\ first.text = others
      BY <1>7, <1>8 DEF Filed
    <2>2. second \in Filed /\ second.type = "record" /\ second.text = records
      BY <1>7, <1>8 DEF Filed
    <2>3. alone \in Filed /\ alone.type = "record" /\ alone.text = text
      BY <1>7, <1>8 DEF Filed
    <2> QED
      BY <2>1, <2>2, <2>3
  <1> DEFINE r == _record_split(block, told)
  <1>10. CASE r = <<block>>
    <2>1. ToSet(r) = {block} /\ r \in Seq(Filed) /\ r # <<>>
      BY <1>8, <1>10, OneSentenceLong
    <2> QED
      BY <2>1 DEF Parts
  <1>11. CASE r = <<first, second>> /\ block.policy_claim = FALSE
    <2> HIDE DEF first, second, r
    <2>1. r \in Seq(Filed) /\ r # <<>> /\ DOMAIN r = 1..2 /\ r[1] = first /\ r[2] = second
      BY <1>9, <1>11
    <2>2. \A i \in 1..2 : i = 1 \/ i = 2
      OBVIOUS
    <2>3. ToSet(r) = {first, second}
      BY <2>1, <2>2 DEF ToSet
    <2> HIDE DEF records, others, R, O
    <2>4. ToSet(second.text) \cap Opening = {}
      BY <1>5, <1>7, <1>9
    <2>5. block.policy_claim = FALSE
      BY <1>11
    <2>6. UNION {ToSet(b.text) : b \in ToSet(r)} = ToSet(first.text) \cup ToSet(second.text)
      BY <2>3
    <2>7. UNION {ToSet(b.text) : b \in ToSet(r)} = ToSet(text)
      BY <1>1, <1>5, <1>7, <1>9, <2>6
    <2>8. ASSUME NEW b \in ToSet(r), b.type = "record"
          PROVE  block.type = "record" \/ (block.policy_claim = FALSE /\ ToSet(b.text) \cap Opening = {})
      <3>1. CASE b = first
        BY <1>9, <2>8, <3>1
      <3>2. CASE b = second
        BY <2>4, <2>5, <3>2
      <3> QED
        BY <2>3, <3>1, <3>2
    <2> HIDE DEF text
    <2>9. Parts(r, block)
      BY <2>1, <2>7, <2>8 DEF Parts, text
    <2> QED
      BY <2>9 DEF r
  <1>12. CASE r = <<alone>> /\ directives = <<>> /\ ~block.policy_claim
    <2>1. ToSet(r) = {alone} /\ r \in Seq(Filed) /\ r # <<>>
      BY <1>9, <1>12, OneSentenceLong
    <2>2. ToSet(text) \cap Opening = {}
      <3>2. ToSet(<<>>) = {}
        BY DEF ToSet
      <3>1. ToSet(directives) = {}
        BY <1>12, <3>2
      <3> QED
        BY <1>7, <3>1
    <2>3. block.policy_claim = FALSE
      BY <1>8, <1>12
    <2> HIDE DEF alone, r
    <2>4. UNION {ToSet(b.text) : b \in ToSet(r)} = ToSet(text)
      BY <1>9, <2>1
    <2>5. \A b \in ToSet(r) : ToSet(b.text) \cap Opening = {}
      BY <1>9, <2>1, <2>2
    <2> HIDE DEF text
    <2>9. Parts(r, block)
      BY <2>1, <2>3, <2>4, <2>5 DEF Parts, text
    <2> QED
      BY <2>9 DEF r
  <1> QED
    BY <1>6, <1>10, <1>11, <1>12

\* Inputs of any length, of any tool results.
Accounts(E) ==
    [block : [type : {"recommendation", "policy_fact", "escalation", "performed"}, text : Seq(Worded),
              policy_claim : BOOLEAN, cited : BOOLEAN],
     envelopes : Seq(E), prior_write : BOOLEAN]

\* trim takes out what asks for the write again and what claims it.
LEMMA TrimmedText ==
  ASSUME NEW text \in Seq(Worded)
  PROVE  /\ trim(text) \in Seq(Worded) /\ ToSet(trim(text)) = ToSet(text) \ (Again \cup Claiming)
         /\ Filter(text, LAMBDA s : ~Removed(s)) = trim(text)
  <1> DEFINE P == Worded \ (Again \cup Claiming)
  <1>1. \A i \in DOMAIN text : text[i] \in Worded
    OBVIOUS
  <1>2. \A i \in DOMAIN text : (~Removed(text[i])) <=> text[i] \in P
    BY <1>1, WhatAgainIs
  <1>3. trim(text) = Kept(text, P)
    <2> HIDE DEF P
    <2> QED
      BY <1>2 DEF trim, Filter, Kept, Piece
  <1>4. ToSet(text) \cap P = ToSet(text) \ (Again \cup Claiming)
    BY <1>1 DEF ToSet
  <1>5. Filter(text, LAMBDA s : ~Removed(s)) = trim(text)
    BY DEF trim
  <1> HIDE DEF P
  <1> QED
    BY <1>3, <1>4, <1>5, KeptIsThose

\* A block that denies the write and is given up whole.
Denying(block) == block.type = "escalation" /\ denies(block.text)

\* What is left of a block after a write: nothing, or one block of what the trim leaves.
Leaves(left, block, gone) ==
    \/ left = <<>> /\ (gone \/ ToSet(block.text) \ (Again \cup Claiming) = {})
    \/ ~gone /\ \E l \in Filed : /\ left = <<l>>
                                 /\ ToSet(l.text) = ToSet(block.text) \ (Again \cup Claiming)
                                 /\ l.policy_claim = block.policy_claim
                                 /\ l.type = "record" => (block.policy_claim = FALSE /\ ToSet(l.text) \cap Opening = {})

\* AfterWrite leaves what it should.
LEMMA AfterTheWrite ==
  ASSUME NEW block \in Filed, block.type # "record", NEW wasPerformed \in BOOLEAN
  PROVE  Leaves(AfterWrite(block, wasPerformed), block, wasPerformed \/ Denying(block))
  <1> DEFINE text == trim(block.text)
             left == [block EXCEPT !.text = text]
             filed == [left EXCEPT !.type = "record"]
  <1>1. block.text \in Seq(Worded) /\ block.policy_claim \in BOOLEAN
    BY DEF Filed
  <1>2. text \in Seq(Worded) /\ ToSet(text) = ToSet(block.text) \ (Again \cup Claiming)
    BY <1>1, TrimmedText
  <1> HIDE DEF text
  <1>3. /\ left \in Filed /\ left.text = text /\ left.policy_claim = block.policy_claim /\ left.type = block.type
        /\ filed \in Filed /\ filed.text = text /\ filed.policy_claim = block.policy_claim
    <2> HIDE DEF Worded
    <2> QED
      BY <1>2 DEF Filed
  <1>4. ~opens_with_a_directive(text) => ToSet(text) \cap Opening = {}
    BY Zenon DEF opens_with_a_directive, Opening
  <1>5. text = <<>> => ToSet(text) = {}
    BY DEF ToSet
  <1> DEFINE gone == wasPerformed \/ Denying(block)
  <1>6. AfterWrite(block, wasPerformed) =
          IF gone \/ text = <<>> THEN <<>>
          ELSE IF text # block.text /\ block.type = "recommendation" /\ ~block.policy_claim /\ ~opens_with_a_directive(text)
          THEN <<filed>> ELSE <<left>>
    BY Zenon DEF AfterWrite, Denying, text
  <1> HIDE DEF left, filed, gone
  <1>7. CASE gone \/ text = <<>>
    BY <1>2, <1>5, <1>6, <1>7 DEF Leaves, gone
  <1>8. CASE ~gone /\ text # <<>>
    <2>1. CASE text # block.text /\ block.type = "recommendation" /\ ~block.policy_claim /\ ~opens_with_a_directive(text)
      <3>1. block.policy_claim = FALSE
        BY <1>1, <2>1
      <3>2. AfterWrite(block, wasPerformed) = <<filed>>
        BY <1>6, <1>8, <2>1
      <3> QED
        BY <1>2, <1>3, <1>4, <1>8, <2>1, <3>1, <3>2 DEF Leaves, gone
    <2>2. CASE ~(text # block.text /\ block.type = "recommendation" /\ ~block.policy_claim /\ ~opens_with_a_directive(text))
      <3>2. AfterWrite(block, wasPerformed) = <<left>>
        BY <1>6, <1>8, <2>2
      <3> QED
        BY <1>2, <1>3, <1>8, <3>2 DEF Leaves, gone
    <2> QED
      BY <2>1, <2>2
  <1> QED
    BY <1>7, <1>8

\* The survivors of what was left: nothing of nothing, and of a block its parts.
LEMMA SurvivorsOf ==
  ASSUME NEW left, NEW told
  PROVE  LET survivors == FlattenSeq([i \in DOMAIN left |-> _record_split(left[i], told)])
         IN  /\ left = <<>> => survivors = <<>>
             /\ \A l \in Filed : left = <<l>> => Parts(survivors, l)
  <1> DEFINE f == [i \in DOMAIN left |-> _record_split(left[i], told)]
  <1>1. ASSUME left = <<>> PROVE FlattenSeq(f) = <<>>
    <2>1. f = <<>>
      BY <1>1
    <2> QED
      BY <2>1 DEF FlattenSeq
  <1>2. ASSUME NEW l \in Filed, left = <<l>> PROVE Parts(FlattenSeq(f), l)
    <2> DEFINE r == _record_split(l, told)
    <2>1. Parts(r, l)
      BY SplitSaysAll
    <2> HIDE DEF r
    <2>2. r \in Seq(Filed)
      BY <2>1 DEF Parts
    <2>3. DOMAIN left = 1..1 /\ left[1] = l
      BY <1>2
    <2>4. \A i \in 1..1 : i = 1
      OBVIOUS
    <2>5. f = [i \in 1..1 |-> r]
      BY <2>3, <2>4 DEF r
    <2>6. [i \in 1..1 |-> r] = <<r>>
      <3>1. DOMAIN <<r>> = 1..1 /\ <<r>>[1] = r
        OBVIOUS
      <3> QED
        BY <2>4, <3>1
    <2>7. FlattenSeq(<<r>>) = r
      BY <2>2, FlattenOfOne
    <2> QED
      BY <2>1, <2>5, <2>6, <2>7
  <1> QED
    BY <1>1, <1>2

\* A block as the model gives it.
GivenBlocks == [type : {"recommendation", "policy_fact", "escalation", "performed"}, text : Seq(Worded),
                policy_claim : BOOLEAN, cited : BOOLEAN]

\* What OneAccountOfTheWrite says, of the three kinds of sentence.
Settled(blocks, next, model, write, prior, given) ==
    LET text == ToSet(given.text)
        said == (UNION {ToSet(b.text) : b \in ToSet(model)}) \ {Amend}
    IN  /\ write <=> (blocks # <<>> /\ Head(blocks).type = "performed")
        /\ \A b \in ToSet(model) : b.type # "performed"
        /\ write => \A s \in said \cup ToSet(next) : s \in Worded /\ s \notin Again /\ s \notin Claiming
        /\ (write /\ Denying(given)) => model = <<>>
        /\ (write /\ ~Denying(given) /\ given.type # "performed") => said = text \ (Again \cup Claiming)
        /\ ~write => text \ Again \subseteq said
        /\ prior => \A b \in ToSet(model) :
              (b.type = "policy_fact" /\ b.cited) \/ \A s \in ToSet(b.text) \ {Amend} : s \in Worded /\ s \notin Again
        /\ \A b \in ToSet(model) : b.type = "record" =>
              given.policy_claim = FALSE /\ \A s \in ToSet(b.text) \ {Amend} : s \in Worded /\ s \notin Opening

\* What is known of the text of a filed block.
LEMMA FiledTexts ==
  ASSUME NEW r \in Seq(Filed), NEW b \in ToSet(r)
  PROVE  /\ b \in Filed /\ b.type # "performed" /\ b.text \in Seq(Worded) /\ ToSet(b.text) \subseteq Worded
         /\ ToSet(b.text) \ {Amend} = ToSet(b.text)
  <1>1. b \in Filed
    <2> HIDE DEF Filed
    <2> QED
      BY DEF ToSet
  <1>2. b.type # "performed" /\ b.text \in Seq(Worded)
    BY <1>1 DEF Filed
  <1>3. ToSet(b.text) \subseteq Worded
    <2> DEFINE t == b.text
    <2>1. t \in Seq(Worded)
      BY <1>2
    <2> HIDE DEF t, Worded
    <2>2. ToSet(t) \subseteq Worded
      BY <2>1 DEF ToSet
    <2> QED
      BY <2>2 DEF t
  <1>4. Amend \notin ToSet(b.text)
    BY <1>3, WhatAgainIs
  <1> QED
    BY <1>1, <1>2, <1>3, <1>4

\* When something was written, the blocks give one account of it.
LEMMA AccountOfAWrite ==
  ASSUME NEW given \in GivenBlocks, NEW left, NEW survivors, NEW next, NEW prior, NEW gone, NEW block,
         block.text = given.text, block.policy_claim = given.policy_claim, Leaves(left, block, gone),
         left = <<>> => survivors = <<>>,
         \A l \in Filed : left = <<l>> => Parts(survivors, l),
         ToSet(next) = ToSet(given.text) \ (Again \cup Claiming),
         Denying(given) => gone,
         gone => Denying(given) \/ given.type = "performed"
  PROVE  Settled(<<PerformedStatement>> \o survivors, next, survivors, TRUE, prior, given)
  <1> DEFINE text == ToSet(given.text)
             blocks == <<PerformedStatement>> \o survivors
             said == UNION {ToSet(b.text) : b \in ToSet(survivors)}
  <1>1. text \subseteq Worded
    <2> DEFINE t == given.text
    <2>1. t \in Seq(Worded)
      BY DEF GivenBlocks
    <2> HIDE DEF t, Worded
    <2>2. ToSet(t) \subseteq Worded
      BY <2>1 DEF ToSet
    <2> QED
      BY <2>2 DEF t
  <1>2. left = <<>> \/ \E l \in Filed : left = <<l>>
    BY DEF Leaves
  <1>3. survivors \in Seq(Filed)
    <2>1. CASE left = <<>>
      BY <2>1
    <2>2. CASE \E l \in Filed : left = <<l>>
      BY <2>2 DEF Parts
    <2> QED
      BY <1>2, <2>1, <2>2
  <1>4. blocks # <<>> /\ Head(blocks).type = "performed"
    <2> DEFINE p == PerformedStatement
    <2>1. p.type = "performed"
      BY DEF PerformedStatement
    <2> HIDE DEF p, Filed
    <2>2. <<p>> \o survivors # <<>> /\ Head(<<p>> \o survivors) = p
      BY <1>3
    <2> QED
      BY <2>1, <2>2 DEF p
  <1> HIDE DEF blocks
  <1>5. \A b \in ToSet(survivors) : b.type # "performed" /\ ToSet(b.text) \subseteq Worded /\ ToSet(b.text) \ {Amend} = ToSet(b.text)
    BY <1>3, FiledTexts
  <1>6. said \ {Amend} = said
    <2>1. \A b \in ToSet(survivors) : Amend \notin ToSet(b.text)
      BY ONLY <1>5
    <2>2. Amend \notin said
      BY Zenon, <2>1
    <2> QED
      BY ONLY <2>2
  <1>7. said \subseteq text \ (Again \cup Claiming)
    <2>1. CASE survivors = <<>>
      BY <2>1 DEF ToSet
    <2>2. CASE survivors # <<>>
      <3>1. PICK l \in Filed : left = <<l>>
        BY <1>2, <2>2
      <3>2. ToSet(l.text) = text \ (Again \cup Claiming)
        <4>1. left # <<>>
          BY <2>2
        <4>2. \E x \in Filed : left = <<x>> /\ ToSet(x.text) = ToSet(block.text) \ (Again \cup Claiming)
          BY <4>1 DEF Leaves
        <4>3. \A x : <<x>> = <<l>> => x = l
          OBVIOUS
        <4> QED
          BY <3>1, <4>2, <4>3
      <3> QED
        BY <3>1, <3>2 DEF Parts
    <2> QED
      BY <2>1, <2>2
  <1>8. survivors = <<>> => said = {}
    <2>1. ToSet(<<>>) = {}
      BY DEF ToSet
    <2> QED
      BY <2>1
  <1>9. (~Denying(given) /\ given.type # "performed") => said = text \ (Again \cup Claiming)
    <2> SUFFICES ASSUME ~Denying(given), given.type # "performed" PROVE said = text \ (Again \cup Claiming)
      OBVIOUS
    <2>1. ~gone
      OBVIOUS
    <2>2. CASE left = <<>>
      <3>1. text \ (Again \cup Claiming) = {}
        <4>1. \A x : <<x>> # <<>>
          OBVIOUS
        <4> QED
          BY <2>1, <2>2, <4>1 DEF Leaves
      <3> QED
        BY <1>8, <2>2, <3>1
    <2>3. CASE left # <<>>
      <3>1. PICK l \in Filed : left = <<l>> /\ ToSet(l.text) = ToSet(block.text) \ (Again \cup Claiming)
        BY <2>3 DEF Leaves
      <3> QED
        BY <3>1 DEF Parts
    <2> QED
      BY <2>2, <2>3
  <1>10. Denying(given) => survivors = <<>>
    <2>1. \A x : <<x>> # <<>>
      OBVIOUS
    <2> QED
      BY <2>1 DEF Leaves
  <1>11. ASSUME NEW b \in ToSet(survivors), b.type = "record"
         PROVE  given.policy_claim = FALSE /\ ToSet(b.text) \cap Opening = {}
    <2>1. survivors # <<>>
      BY DEF ToSet
    <2>2. left # <<>>
      BY <2>1
    <2>3. PICK l \in Filed : /\ left = <<l>> /\ ToSet(l.text) = ToSet(block.text) \ (Again \cup Claiming)
                             /\ l.policy_claim = block.policy_claim
                             /\ l.type = "record" => (block.policy_claim = FALSE /\ ToSet(l.text) \cap Opening = {})
      BY <2>2 DEF Leaves
    <2>7. left = <<l>>
      BY <2>3
    <2>4. Parts(survivors, l)
      BY <2>7
    <2>5. l.type = "record" \/ (l.policy_claim = FALSE /\ ToSet(b.text) \cap Opening = {})
      BY <1>11, <2>4 DEF Parts
    <2>6. ToSet(b.text) \subseteq ToSet(l.text)
      BY <2>4 DEF Parts
    <2>8. l.type = "record" => (given.policy_claim = FALSE /\ ToSet(l.text) \cap Opening = {})
      BY <2>3
    <2>9. l.policy_claim = given.policy_claim
      BY <2>3
    <2> HIDE DEF Opening
    <2>10. CASE l.type = "record"
      BY <2>6, <2>8, <2>10
    <2>11. CASE l.policy_claim = FALSE /\ ToSet(b.text) \cap Opening = {}
      BY <2>9, <2>11
    <2> QED
      BY <2>5, <2>10, <2>11
  <1>12. \A b \in ToSet(survivors) : ToSet(b.text) \subseteq said
    OBVIOUS
  <1>13. \A b \in ToSet(survivors) : b.type = "record" =>
            given.policy_claim = FALSE /\ \A s \in ToSet(b.text) \ {Amend} : s \in Worded /\ s \notin Opening
    BY <1>5, <1>11
  <1>14. \A b \in ToSet(survivors) : \A s \in ToSet(b.text) \ {Amend} : s \in Worded /\ s \notin Again
    BY <1>1, <1>7, <1>12
  <1>15. \A s \in said \cup ToSet(next) : s \in Worded /\ s \notin Again /\ s \notin Claiming
    BY <1>1, <1>7
  <1> QED
    <2>1. blocks # <<>> /\ Head(blocks).type = "performed"
      BY <1>4
    <2>2. \A b \in ToSet(survivors) : b.type # "performed"
      BY <1>5
    <2>3. Settled(blocks, next, survivors, TRUE, prior, given)
      BY <1>6, <1>9, <1>10, <1>13, <1>14, <1>15, <2>1, <2>2, Zenon DEF Settled
    <2> QED
      BY <2>3 DEF blocks

\* After an earlier write the blocks are amended, save what a citation stands behind.
Amends(model, survivors, prior) ==
    \A i \in DOMAIN survivors :
        model[i] = IF prior /\ ~(survivors[i].type = "policy_fact" /\ survivors[i].cited)
                   THEN [survivors[i] EXCEPT !.text = amend(@)] ELSE survivors[i]

\* When nothing was written, none is given.
LEMMA AccountOfNoWrite ==
  ASSUME NEW given \in GivenBlocks, NEW block, block.text = given.text, block.policy_claim = given.policy_claim, block.type # "record",
         NEW survivors, Parts(survivors, block), NEW next, NEW prior \in BOOLEAN,
         NEW T, NEW model \in Seq(T), DOMAIN model = DOMAIN survivors,
         Amends(model, survivors, prior)
  PROVE  Settled(model, next, model, FALSE, prior, given)
  <1> DEFINE text == ToSet(given.text)
             said == (UNION {ToSet(b.text) : b \in ToSet(model)}) \ {Amend}
             kept == UNION {ToSet(b.text) : b \in ToSet(survivors)}
             amends(b) == prior /\ ~(b.type = "policy_fact" /\ b.cited)
  <1>1. survivors \in Seq(Filed) /\ kept = text
    BY DEF Parts
  <1>2. \A i \in DOMAIN survivors :
           LET b == survivors[i]
           IN  b \in ToSet(survivors) /\ b \in Filed /\ b.type # "performed" /\ b.text \in Seq(Worded) /\ ToSet(b.text) \subseteq Worded
               /\ ToSet(b.text) \ {Amend} = ToSet(b.text)
    <2> TAKE i \in DOMAIN survivors
    <2>1. survivors[i] \in ToSet(survivors)
      BY DEF ToSet
    <2> QED
      BY <1>1, <2>1, FiledTexts
  <1>3. ASSUME NEW i \in DOMAIN survivors
        PROVE  /\ model[i].type = survivors[i].type /\ model[i].cited = survivors[i].cited
               /\ amends(survivors[i]) => ToSet(model[i].text) \ {Amend} = ToSet(survivors[i].text) \ Again
               /\ ~amends(survivors[i]) => model[i] = survivors[i]
    <2> DEFINE b == survivors[i]
    <2>1. b \in Filed /\ b.text \in Seq(Worded)
      BY <1>2
    <2> HIDE DEF b
    <2>2. CASE amends(b)
      <3>1. model[i] = [b EXCEPT !.text = amend(@)]
        BY <2>2 DEF b, Amends
      <3>2. model[i].type = b.type /\ model[i].cited = b.cited /\ model[i].text = amend(b.text)
        BY <2>1, <3>1 DEF Filed
      <3>3. ToSet(amend(b.text)) \ {Amend} = ToSet(b.text) \ Again
        BY <2>1, AmendedText
      <3> QED
        BY <2>2, <3>2, <3>3 DEF b
    <2>3. CASE ~amends(b)
      <3>1. model[i] = b
        BY <2>3 DEF b, Amends
      <3> QED
        BY <2>3, <3>1 DEF b
    <2> QED
      BY <2>2, <2>3
  <1>4. \A b \in ToSet(model) : \E i \in DOMAIN survivors : b = model[i]
    BY DEF ToSet
  <1>5. \A i \in DOMAIN survivors : model[i] \in ToSet(model)
    BY DEF ToSet
  <1>6. \A b \in ToSet(model) : b.type # "performed"
    BY <1>2, <1>3, <1>4
  <1>7. model # <<>> => Head(model) \in ToSet(model)
    BY DEF ToSet
  <1>8. ~(model # <<>> /\ Head(model).type = "performed")
    BY <1>6, <1>7
  <1>9. \A i \in DOMAIN survivors : ToSet(survivors[i].text) \ Again \subseteq ToSet(model[i].text) \ {Amend}
    BY <1>2, <1>3
  <1>10. text \ Again \subseteq said
    <2> SUFFICES ASSUME NEW s \in text, s \notin Again PROVE s \in said
      OBVIOUS
    <2>1. PICK b \in ToSet(survivors) : s \in ToSet(b.text)
      BY <1>1
    <2>2. PICK i \in DOMAIN survivors : b = survivors[i]
      BY DEF ToSet
    <2>3. s \in ToSet(model[i].text) \ {Amend}
      BY <1>9, <2>1, <2>2
    <2> QED
      BY <1>5, <2>3
  <1>11. ASSUME prior, NEW b \in ToSet(model)
         PROVE  (b.type = "policy_fact" /\ b.cited) \/ \A s \in ToSet(b.text) \ {Amend} : s \in Worded /\ s \notin Again
    <2>1. PICK i \in DOMAIN survivors : b = model[i]
      BY <1>4
    <2> DEFINE o == survivors[i]
    <2>2. ToSet(o.text) \subseteq Worded
      BY <1>2
    <2>3. b.type = o.type /\ b.cited = o.cited /\ (amends(o) => ToSet(b.text) \ {Amend} = ToSet(o.text) \ Again)
      BY <1>3, <2>1
    <2> HIDE DEF o
    <2>4. CASE o.type = "policy_fact" /\ o.cited
      BY <2>3, <2>4
    <2>5. CASE ~(o.type = "policy_fact" /\ o.cited)
      <3>1. amends(o)
        BY <1>11, <2>5
      <3> QED
        BY <2>2, <2>3, <3>1
    <2> QED
      BY <2>4, <2>5
  <1>12. ASSUME NEW b \in ToSet(model), b.type = "record"
         PROVE  given.policy_claim = FALSE /\ \A s \in ToSet(b.text) \ {Amend} : s \in Worded /\ s \notin Opening
    <2>1. PICK i \in DOMAIN survivors : b = model[i]
      BY <1>4
    <2> DEFINE o == survivors[i]
    <2>2. o \in ToSet(survivors) /\ ToSet(o.text) \subseteq Worded /\ ToSet(o.text) \ {Amend} = ToSet(o.text)
      BY <1>2
    <2>3. b.type = o.type /\ ToSet(b.text) \ {Amend} \subseteq ToSet(o.text)
      BY <1>2, <1>3, <2>1
    <2> HIDE DEF o
    <2>4. given.policy_claim = FALSE /\ ToSet(o.text) \cap Opening = {}
      BY <1>12, <2>2, <2>3 DEF Parts
    <2> QED
      BY <2>2, <2>3, <2>4
  <1> QED
    BY <1>6, <1>8, <1>10, <1>11, <1>12 DEF Settled

(***************************************************************************)
(* After any tool results an answer of any length gives one account of the *)
(* write: the performed statement leads it exactly when a write was made,  *)
(* nothing left in it or in the next steps claims the write or asks for it *)
(* again, an escalation that denies it goes, every other sentence stays,   *)
(* and no policy claim becomes the reader's record (outcome.apply).        *)
(***************************************************************************)
THEOREM OneAccount ==
  ASSUME NEW E, NEW input \in Accounts(E)
  PROVE  OneAccountOfTheWrite(input)
  <1> DEFINE write == performed_write(input.envelopes)
             told == envelope_numbers(input.envelopes) \cup envelope_scalars(input.envelopes)
             given == input.block
             text == given.text
             wasPerformed == given.type = "performed"
             block == IF wasPerformed THEN [given EXCEPT !.type = "recommendation"] ELSE given
             left == IF write THEN AfterWrite(block, wasPerformed) ELSE <<block>>
             survivors == FlattenSeq([i \in DOMAIN left |-> _record_split(left[i], told)])
             amends(b) == input.prior_write /\ ~(b.type = "policy_fact" /\ b.cited)
             changed == [i \in DOMAIN survivors |-> IF amends(survivors[i]) THEN [survivors[i] EXCEPT !.text = amend(@)] ELSE survivors[i]]
             steps == IF write THEN Filter(text, LAMBDA s : ~Removed(s)) ELSE text
             blocks == IF write THEN <<PerformedStatement>> \o survivors ELSE changed
             next == IF ~write /\ input.prior_write THEN amend(steps) ELSE steps
             out == ApplyOutcome(input)
             shown == IF write THEN Tail(blocks) ELSE blocks
  <1>1. /\ given \in GivenBlocks /\ text \in Seq(Worded) /\ ToSet(text) \subseteq Worded /\ input.prior_write \in BOOLEAN
        /\ write \in BOOLEAN
    <2>1. given \in GivenBlocks /\ text \in Seq(Worded) /\ input.prior_write \in BOOLEAN
      <3> HIDE DEF Worded
      <3> QED
        BY DEF Accounts, GivenBlocks
    <2>2. ToSet(text) \subseteq Worded
      <3> HIDE DEF text
      <3> QED
        BY <2>1 DEF ToSet
    <2>3. write \in BOOLEAN
      BY DEF performed_write
    <2> QED
      BY <2>1, <2>2, <2>3
  <1>2. /\ block \in Filed /\ block.type # "record" /\ block.text = text /\ block.policy_claim = given.policy_claim
        /\ wasPerformed \in BOOLEAN /\ (~wasPerformed => block = given) /\ (wasPerformed => block.type = "recommendation")
    <2> HIDE DEF Worded, given
    <2>2. CASE wasPerformed
      <3>1. block = [given EXCEPT !.type = "recommendation"]
        BY <2>2
      <3> HIDE DEF block
      <3> QED
        BY <1>1, <2>2, <3>1 DEF Filed, GivenBlocks
    <2>3. CASE ~wasPerformed
      <3>1. block = given
        BY <2>3
      <3> HIDE DEF block
      <3> QED
        BY <1>1, <2>3, <3>1 DEF Filed, GivenBlocks
    <2> QED
      BY <2>2, <2>3
  <1>3. (write => left = AfterWrite(block, wasPerformed)) /\ (~write => left = <<block>>)
    OBVIOUS
  <1>4. out.blocks = blocks /\ out.next_steps = next
    BY DEF ApplyOutcome
  <1>5. (left = <<>> => survivors = <<>>) /\ \A l \in Filed : left = <<l>> => Parts(survivors, l)
    <2> HIDE DEF left, told
    <2> QED
      BY SurvivorsOf
  <1> HIDE DEF given, block, left, survivors, told, write
  <1>6. ASSUME write PROVE Settled(blocks, next, shown, write, input.prior_write, given)
    <2> DEFINE gone == wasPerformed \/ Denying(block)
    <2>1. Leaves(left, block, gone)
      BY <1>2, <1>3, <1>6, AfterTheWrite
    <2>2. blocks = <<PerformedStatement>> \o survivors /\ shown = Tail(blocks) /\ next = trim(text)
      BY <1>1, <1>6, TrimmedText
    <2>3. ToSet(next) = ToSet(text) \ (Again \cup Claiming)
      BY <1>1, <2>2, TrimmedText
    <2>4. Denying(given) => gone
      BY <1>2
    <2>5. gone => Denying(given) \/ given.type = "performed"
      BY <1>2 DEF Denying
    <2> HIDE DEF blocks, shown, next, gone
    <2>6. Settled(<<PerformedStatement>> \o survivors, next, survivors, TRUE, input.prior_write, given)
      BY <1>1, <1>2, <1>5, <2>1, <2>3, <2>4, <2>5, AccountOfAWrite
    <2>7. Settled(blocks, next, shown, write, input.prior_write, given)
      <3>1. survivors \in Seq(Filed)
        <4>1. left = <<>> \/ \E l \in Filed : left = <<l>>
          BY <2>1 DEF Leaves
        <4>2. CASE left = <<>>
          BY <1>5, <4>2
        <4>3. CASE \E l \in Filed : left = <<l>>
          BY <1>5, <4>3 DEF Parts
        <4> QED
          BY <4>1, <4>2, <4>3
      <3> DEFINE p == PerformedStatement
      <3> HIDE DEF p, Filed
      <3>2. Tail(<<p>> \o survivors) = survivors
        BY <3>1
      <3>3. write = TRUE
        BY <1>1, <1>6
      <3> QED
        BY <2>2, <2>6, <3>2, <3>3 DEF p
    <2> QED
      BY <2>7
  <1>7. ASSUME ~write PROVE Settled(blocks, next, shown, write, input.prior_write, given)
    <2>1. Parts(survivors, block)
      BY <1>2, <1>3, <1>5, <1>7
    <2>2. survivors \in Seq(Filed)
      BY <2>1 DEF Parts
    <2>3. changed \in Seq({changed[i] : i \in DOMAIN survivors}) /\ DOMAIN changed = DOMAIN survivors
      <3>1. DOMAIN survivors = 1..Len(survivors) /\ Len(survivors) \in Nat
        <4> HIDE DEF Filed
        <4> QED
          BY <2>2
      <3> HIDE DEF amends
      <3>2. \A i \in DOMAIN survivors : changed[i] \in {changed[j] : j \in DOMAIN survivors}
        OBVIOUS
      <3>3. changed = [i \in 1..Len(survivors) |-> changed[i]]
        BY <3>1
      <3> HIDE DEF changed
      <3> QED
        BY <3>1, <3>2, <3>3
    <2>4. Amends(changed, survivors, input.prior_write)
      BY DEF Amends
    <2> HIDE DEF changed, next
    <2>5. Settled(changed, next, changed, FALSE, input.prior_write, given)
      BY <1>1, <1>2, <2>1, <2>3, <2>4, AccountOfNoWrite
    <2>6. write = FALSE /\ blocks = changed /\ shown = changed
      BY <1>1, <1>7
    <2> QED
      BY <2>5, <2>6
  <1>8. Settled(blocks, next, shown, write, input.prior_write, given)
    BY <1>6, <1>7
  <1> HIDE DEF blocks, next, out
  <1>9. shown = IF write THEN Tail(out.blocks) ELSE out.blocks
    BY <1>4
  <1> HIDE DEF shown
  <1> DEFINE said == (UNION {ToSet(b.text) : b \in ToSet(shown)}) \ {Amend}
             again(s) == s.verb = "filing" /\ ~s.id /\ (s.modal \/ (s.opens /\ s.object # "other"))
             claim(s) == s.id /\ s.claim
             denying == /\ given.type = "escalation"
                        /\ \E s \in ToSet(text) : s.denial
                        /\ \E s \in ToSet(text) : s.verb = "filing" \/ s.object = "write"
  <1>10. /\ \A s \in Worded : (again(s) <=> s \in Again) /\ (claim(s) <=> s \in Claiming)
         /\ \A s \in Worded \ Opening : ~(s.opens /\ s.verb # "none")
         /\ denying <=> Denying(given)
    <2>1. denying <=> Denying(given)
      BY Zenon DEF Denying, denies
    <2>2. \A s \in Worded \ Opening : ~(s.opens /\ s.verb # "none")
      BY Zenon DEF Opening
    <2> QED
      BY <2>1, <2>2, WhatAgainIs
  <1> HIDE DEF again, claim, denying
  <1>11. /\ write <=> (out.blocks # <<>> /\ Head(out.blocks).type = "performed")
         /\ \A b \in ToSet(shown) : b.type # "performed"
         /\ write => \A s \in said \cup ToSet(out.next_steps) : ~again(s) /\ ~claim(s)
         /\ (write /\ denying) => shown = <<>>
         /\ (write /\ ~denying /\ given.type # "performed") => said = {s \in ToSet(text) : ~again(s) /\ ~claim(s)}
         /\ ~write => {s \in ToSet(text) : ~again(s)} \subseteq said
         /\ input.prior_write => \A b \in ToSet(shown) :
               (b.type = "policy_fact" /\ b.cited) \/ \A s \in ToSet(b.text) \ {Amend} : ~again(s)
         /\ \A b \in ToSet(shown) :
               b.type = "record" => ~given.policy_claim /\ \A s \in ToSet(b.text) \ {Amend} : ~(s.opens /\ s.verb # "none")
    <2> DEFINE words == ToSet(text)
    <2>1. words \subseteq Worded
      BY <1>1
    <2>2. /\ {s \in words : ~again(s) /\ ~claim(s)} = words \ (Again \cup Claiming)
          /\ {s \in words : ~again(s)} = words \ Again
      BY <1>10, <2>1
    <2>3. /\ write <=> (out.blocks # <<>> /\ Head(out.blocks).type = "performed")
          /\ \A b \in ToSet(shown) : b.type # "performed"
          /\ write => \A s \in said \cup ToSet(out.next_steps) : s \in Worded /\ s \notin Again /\ s \notin Claiming
          /\ (write /\ Denying(given)) => shown = <<>>
          /\ (write /\ ~Denying(given) /\ given.type # "performed") => said = words \ (Again \cup Claiming)
          /\ ~write => words \ Again \subseteq said
          /\ input.prior_write => \A b \in ToSet(shown) :
                (b.type = "policy_fact" /\ b.cited) \/ \A s \in ToSet(b.text) \ {Amend} : s \in Worded /\ s \notin Again
          /\ \A b \in ToSet(shown) : b.type = "record" =>
                given.policy_claim = FALSE /\ \A s \in ToSet(b.text) \ {Amend} : s \in Worded /\ s \notin Opening
      BY <1>4, <1>8, Zenon DEF Settled
    <2> HIDE DEF said
    <2>4. write => \A s \in said \cup ToSet(out.next_steps) : ~again(s) /\ ~claim(s)
      BY <1>10, <2>3, Zenon
    <2>5. input.prior_write => \A b \in ToSet(shown) :
               (b.type = "policy_fact" /\ b.cited) \/ \A s \in ToSet(b.text) \ {Amend} : ~again(s)
      BY <1>10, <2>3, Zenon
    <2>6. ASSUME NEW b \in ToSet(shown), b.type = "record"
          PROVE  ~given.policy_claim /\ \A s \in ToSet(b.text) \ {Amend} : ~(s.opens /\ s.verb # "none")
      <3>1. given.policy_claim = FALSE /\ \A s \in ToSet(b.text) \ {Amend} : s \in Worded \ Opening
        BY <2>3, <2>6
      <3>2. ~given.policy_claim
        BY <3>1
      <3> QED
        BY <1>10, <3>1, <3>2, Zenon
    <2> QED
      BY <1>10, <2>2, <2>3, <2>4, <2>5, <2>6, Zenon
  <1> QED
    BY <1>9, <1>11, Zenon DEF OneAccountOfTheWrite, write, given, again, claim, denying, out

-----------------------------------------------------------------------------
(* Outcome: sentences that an answer says more than once.                  *)
\* The cores of a text, one after the other.
Cored(text) == [i \in DOMAIN text |-> text[i].core]

\* No entry twice.
Distinct(q) == \A i, j \in DOMAIN q : q[i] = q[j] => i = j

\* What one entry more adds.
LEMMA AppendSays ==
  ASSUME NEW T, NEW q \in Seq(T), NEW x \in T
  PROVE  /\ Append(q, x) \in Seq(T) /\ ToSet(Append(q, x)) = ToSet(q) \cup {x}
         /\ Distinct(q) /\ x \notin ToSet(q) => Distinct(Append(q, x))
  <1> DEFINE n == Len(q)
             r == Append(q, x)
  <1>1. n \in Nat /\ DOMAIN q = 1..n /\ r \in Seq(T) /\ DOMAIN r = 1..(n + 1) /\ r[n + 1] = x /\ \A i \in 1..n : r[i] = q[i]
    OBVIOUS
  <1> HIDE DEF n, r
  <1>2. n + 1 \in 1..(n + 1) /\ \A i \in 1..(n + 1) : i \in 1..n \/ i = n + 1
    BY <1>1
  <1>3. 1..n \subseteq 1..(n + 1)
    BY <1>1
  <1>4. ToSet(r) = ToSet(q) \cup {x}
    <2>1. ASSUME NEW y \in ToSet(r) PROVE y \in ToSet(q) \cup {x}
      BY <1>1, <1>2 DEF ToSet
    <2>2. ASSUME NEW y \in ToSet(q) \cup {x} PROVE y \in ToSet(r)
      BY <1>1, <1>2, <1>3 DEF ToSet
    <2> QED
      BY <2>1, <2>2
  <1>5. ASSUME Distinct(q), x \notin ToSet(q) PROVE Distinct(r)
    <2> SUFFICES ASSUME NEW i \in 1..(n + 1), NEW j \in 1..(n + 1), r[i] = r[j] PROVE i = j
      BY <1>1 DEF Distinct
    <2>1. \A k \in 1..n : r[k] # x
      BY <1>1, <1>5 DEF ToSet
    <2> QED
      BY <1>1, <1>2, <1>5, <2>1 DEF Distinct
  <1> QED
    BY <1>1, <1>4, <1>5 DEF r

\* What a second sequence adds.
LEMMA ConcatDistinct ==
  ASSUME NEW T, NEW q \in Seq(T), NEW r \in Seq(T)
  PROVE  /\ q \o r \in Seq(T) /\ ToSet(q \o r) = ToSet(q) \cup ToSet(r)
         /\ Distinct(q) /\ Distinct(r) /\ ToSet(q) \cap ToSet(r) = {} => Distinct(q \o r)
  <1> DEFINE n == Len(q)
             m == Len(r)
             s == q \o r
  <1>1. /\ n \in Nat /\ m \in Nat /\ DOMAIN q = 1..n /\ DOMAIN r = 1..m /\ s \in Seq(T) /\ DOMAIN s = 1..(n + m)
        /\ (\A i \in 1..n : s[i] = q[i]) /\ (\A i \in 1..m : s[n + i] = r[i])
    OBVIOUS
  <1> HIDE DEF n, m, s
  <1>2. \A i \in 1..(n + m) : i \in 1..n \/ (i - n \in 1..m /\ n + (i - n) = i)
    BY <1>1
  <1>3. (1..n \subseteq 1..(n + m)) /\ \A i \in 1..m : n + i \in 1..(n + m)
    BY <1>1
  <1>4. \A i \in 1..(n + m) : (i \in 1..n /\ s[i] = q[i]) \/ (i - n \in 1..m /\ s[i] = r[i - n])
    <2> TAKE i \in 1..(n + m)
    <2>1. CASE i \in 1..n
      BY <1>1, <2>1
    <2>2. CASE i - n \in 1..m /\ n + (i - n) = i
      BY <1>1, <2>2
    <2> QED
      BY <1>2, <2>1, <2>2
  <1>5. ToSet(s) = ToSet(q) \cup ToSet(r)
    <2>1. ASSUME NEW y \in ToSet(s) PROVE y \in ToSet(q) \cup ToSet(r)
      BY <1>1, <1>4 DEF ToSet
    <2>2. ASSUME NEW y \in ToSet(q) \cup ToSet(r) PROVE y \in ToSet(s)
      BY <1>1, <1>3 DEF ToSet
    <2> QED
      BY <2>1, <2>2
  <1>6. ASSUME Distinct(q), Distinct(r), ToSet(q) \cap ToSet(r) = {} PROVE Distinct(s)
    <2> SUFFICES ASSUME NEW i \in 1..(n + m), NEW j \in 1..(n + m), s[i] = s[j] PROVE i = j
      BY <1>1 DEF Distinct
    <2>1. \A k \in 1..n, l \in 1..m : q[k] # r[l]
      BY <1>1, <1>6 DEF ToSet
    <2>2. CASE i \in 1..n /\ j \in 1..n
      BY <1>1, <1>6, <2>2 DEF Distinct
    <2>3. CASE i - n \in 1..m /\ s[i] = r[i - n] /\ j - n \in 1..m /\ s[j] = r[j - n]
      <3>1. i - n = j - n
        BY <1>1, <1>6, <2>3 DEF Distinct
      <3> QED
        BY <1>1, <3>1
    <2> QED
      BY <1>1, <1>4, <2>1, <2>2, <2>3
  <1> QED
    BY <1>1, <1>5, <1>6 DEF s

\* Where a core was first said, and where a lede had it.
SeenCores == [Cores \X BOOLEAN -> Nat]

\* The cores that have been said.
Known(seen) == {c \in Cores : seen[<<c, FALSE>>] # 0}

\* What a loop over the sentences of a block holds.
Reading == [keep : Seq(LedeSentences), seen : SeenCores, homes : SUBSET Nat]

\* What has been read of a block after the first i of its sentences.
HasRead(t, i, text, seen, own) ==
    /\ t \in Reading
    /\ Distinct(Cored(t.keep)) /\ ToSet(Cored(t.keep)) = Known(t.seen) \ Known(seen)
    /\ Known(t.seen) = Known(seen) \cup {text[j].core : j \in 1..i}
    /\ \A c \in Known(t.seen) : /\ t.seen[<<c, FALSE>>] = IF c \in Known(seen) THEN seen[<<c, FALSE>>] ELSE own
                                /\ t.seen[<<c, TRUE>>] \in {0, t.seen[<<c, FALSE>>]}
    /\ \A c \in Cores \ Known(t.seen) : t.seen[<<c, TRUE>>] = 0
    /\ t.keep = <<>> => t.seen = seen
    /\ i > 0 /\ t.keep = <<>> => seen[<<text[1].core, FALSE>>] \in t.homes

\* What is known of the sentences before: a lede of one is where the one is.
WellSeen(seen) ==
    /\ seen \in SeenCores
    /\ \A c \in Cores : IF c \in Known(seen) THEN seen[<<c, TRUE>>] \in {0, seen[<<c, FALSE>>]} ELSE seen[<<c, TRUE>>] = 0

\* One sentence more has one core more.
LEMMA CoredOneMore ==
  ASSUME NEW k \in Seq(LedeSentences), NEW x \in LedeSentences
  PROVE  Cored(k) \in Seq(Cores) /\ Cored(Append(k, x)) = Append(Cored(k), x.core) /\ x.core \in Cores
  <1> DEFINE n == Len(k)
             r == Append(k, x)
             T == LedeSentences
             c == Cored(k)
  <1>1. \A s \in LedeSentences : s.core \in Cores
    BY DEF LedeSentences
  <1> HIDE DEF T
  <1>2. n \in Nat /\ DOMAIN k = 1..n /\ DOMAIN r = 1..(n + 1) /\ r[n + 1] = x /\ (\A i \in 1..n : r[i] = k[i])
    BY DEF T
  <1>3. \A i \in 1..n : k[i] \in LedeSentences
    BY <1>2
  <1> HIDE DEF n, r
  <1>4. c = [i \in 1..n |-> k[i].core]
    BY <1>2 DEF Cored
  <1>5. Cored(r) = [i \in 1..(n + 1) |-> r[i].core]
    BY <1>2 DEF Cored
  <1> HIDE DEF c
  <1>6. c \in Seq(Cores) /\ Len(c) = n
    BY <1>1, <1>2, <1>3, <1>4
  <1>7. Append(c, x.core) = [i \in 1..(n + 1) |-> IF i = n + 1 THEN x.core ELSE c[i]]
    BY <1>2, <1>6
  <1>8. Cored(r) = [i \in 1..(n + 1) |-> IF i = n + 1 THEN x.core ELSE c[i]]
    <2>1. \A i \in 1..(n + 1) : r[i].core = IF i = n + 1 THEN x.core ELSE c[i]
      <3> TAKE i \in 1..(n + 1)
      <3>1. CASE i = n + 1
        BY <1>2, <3>1
      <3>2. CASE i # n + 1
        <4>1. i \in 1..n
          BY <1>2, <3>2
        <4> QED
          BY <1>2, <1>4, <3>2, <4>1
      <3> QED
        BY <3>1, <3>2
    <2> QED
      BY <1>5, <2>1
  <1> QED
    BY <1>1, <1>6, <1>7, <1>8 DEF c, r

\* One sentence more is read as it should be.
LEMMA ReadOne ==
  ASSUME NEW text \in Seq(LedeSentences), NEW seen, WellSeen(seen), NEW own \in Nat \ {0},
         NEW i \in 1..Len(text), NEW t, HasRead(t, i - 1, text, seen, own)
  PROVE  HasRead(ReadSentence(t, text[i], own), i, text, seen, own)
  <1> DEFINE x == text[i]
             c == x.core
             u == ReadSentence(t, x, own)
             old == Known(t.seen)
  <1>1. x \in LedeSentences /\ i \in Nat /\ i > 0 /\ DOMAIN text = 1..Len(text) /\ Len(text) \in Nat
    OBVIOUS
  <1>2. c \in Cores /\ x.lede \in BOOLEAN /\ Key(x) = <<c, x.lede>> /\ Bare(x) = <<c, FALSE>>
    BY <1>1 DEF LedeSentences, Key, Bare
  <1>3. /\ t \in Reading /\ t.seen \in SeenCores /\ t.keep \in Seq(LedeSentences) /\ t.homes \in SUBSET Nat
        /\ Distinct(Cored(t.keep)) /\ ToSet(Cored(t.keep)) = old \ Known(seen)
        /\ old = Known(seen) \cup {text[j].core : j \in 1..(i - 1)}
        /\ \A d \in old : /\ t.seen[<<d, FALSE>>] = IF d \in Known(seen) THEN seen[<<d, FALSE>>] ELSE own
                          /\ t.seen[<<d, TRUE>>] \in {0, t.seen[<<d, FALSE>>]}
        /\ \A d \in Cores \ old : t.seen[<<d, TRUE>>] = 0
        /\ t.keep = <<>> => t.seen = seen
        /\ i - 1 > 0 /\ t.keep = <<>> => seen[<<text[1].core, FALSE>>] \in t.homes
    BY DEF HasRead, Reading
  <1>4. /\ \A d \in old : d \in Cores /\ t.seen[<<d, FALSE>>] # 0
        /\ \A d \in Cores \ old : t.seen[<<d, FALSE>>] = 0
        /\ \A d \in Cores : \A b \in BOOLEAN : t.seen[<<d, b>>] \in Nat
    BY <1>3 DEF Known, SeenCores
  <1>5. {text[j].core : j \in 1..i} = {text[j].core : j \in 1..(i - 1)} \cup {c}
    <2>1. \A j \in 1..i : j \in 1..(i - 1) \/ j = i
      BY <1>1
    <2>2. 1..(i - 1) \subseteq 1..i /\ i \in 1..i
      BY <1>1
    <2> QED
      BY <2>1, <2>2
  <1> DEFINE home == IF t.seen[Key(x)] # 0 THEN t.seen[Key(x)] ELSE t.seen[Bare(x)]
  <1>6. c \in old => home = t.seen[<<c, FALSE>>] /\ home # 0 /\ home \in Nat
    <2> SUFFICES ASSUME c \in old PROVE home = t.seen[<<c, FALSE>>] /\ home # 0 /\ home \in Nat
      OBVIOUS
    <2>1. t.seen[<<c, TRUE>>] \in {0, t.seen[<<c, FALSE>>]} /\ t.seen[<<c, FALSE>>] # 0 /\ t.seen[<<c, FALSE>>] \in Nat
      BY <1>2, <1>3, <1>4
    <2>2. x.lede = TRUE \/ x.lede = FALSE
      BY <1>2
    <2> QED
      BY <1>2, <2>1, <2>2
  <1>7. c \notin old => home = 0
    <2>1. c \notin old => t.seen[<<c, TRUE>>] = 0 /\ t.seen[<<c, FALSE>>] = 0
      BY <1>2, <1>3, <1>4
    <2>2. x.lede = TRUE \/ x.lede = FALSE
      BY <1>2
    <2> QED
      BY <1>2, <2>1, <2>2
  <1>8. u = IF home # 0 THEN [t EXCEPT !.homes = @ \cup {home}]
            ELSE [t EXCEPT !.keep = Append(@, x), !.seen = [@ EXCEPT ![Key(x)] = own, ![Bare(x)] = own]]
    BY DEF ReadSentence
  <1> HIDE DEF u, home, x, c, old
  <1>9. CASE c \in old
    <2>1. u = [t EXCEPT !.homes = @ \cup {home}]
      BY <1>6, <1>8, <1>9
    <2>2. u.keep = t.keep /\ u.seen = t.seen /\ u.homes = t.homes \cup {home} /\ u \in Reading
      BY <1>3, <1>6, <1>9, <2>1 DEF Reading
    <2>3. Known(u.seen) = Known(seen) \cup {text[j].core : j \in 1..i}
      BY <1>3, <1>5, <1>9, <2>2 DEF old
    <2>4. i > 0 /\ u.keep = <<>> => seen[<<text[1].core, FALSE>>] \in u.homes
      <3> SUFFICES ASSUME u.keep = <<>> PROVE seen[<<text[1].core, FALSE>>] \in u.homes
        OBVIOUS
      <3>1. CASE i = 1
        <4>1. c = text[1].core
          BY <3>1 DEF c, x
        <4> QED
          BY <1>3, <1>6, <1>9, <2>2, <4>1
      <3>2. CASE i # 1
        <4>1. i - 1 > 0
          BY <1>1, <3>2
        <4> QED
          BY <1>3, <2>2, <4>1
      <3> QED
        BY <3>1, <3>2
    <2>5. HasRead(u, i, text, seen, own)
      BY <1>3, <2>2, <2>3, <2>4 DEF HasRead, old
    <2> QED
      BY <2>5 DEF u, x
  <1>10. CASE c \notin old
    <2> DEFINE v == [t.seen EXCEPT ![Key(x)] = own, ![Bare(x)] = own]
    <2>1. u = [t EXCEPT !.keep = Append(@, x), !.seen = v]
      BY <1>7, <1>8, <1>10
    <2>2. /\ v \in SeenCores /\ v[<<c, FALSE>>] = own /\ v[<<c, TRUE>>] \in {0, own}
          /\ \A d \in Cores : \A b \in BOOLEAN : d # c => v[<<d, b>>] = t.seen[<<d, b>>]
      <3>1. t.seen \in [Cores \X BOOLEAN -> Nat] /\ Key(x) \in Cores \X BOOLEAN /\ Bare(x) \in Cores \X BOOLEAN
        BY <1>2, <1>3 DEF SeenCores
      <3> DEFINE kx == Key(x)
                 bx == Bare(x)
      <3> HIDE DEF kx, bx
      <3>2. v = [t.seen EXCEPT ![kx] = own, ![bx] = own] /\ kx \in Cores \X BOOLEAN /\ bx \in Cores \X BOOLEAN
        BY <3>1 DEF kx, bx
      <3> HIDE DEF v
      <3>3. v \in [Cores \X BOOLEAN -> Nat] /\ v[bx] = own /\ \A k \in Cores \X BOOLEAN : v[k] = IF k = bx \/ k = kx THEN own ELSE t.seen[k]
        BY <3>1, <3>2
      <3>4. bx = <<c, FALSE>> /\ kx = <<c, x.lede>>
        BY <1>2 DEF kx, bx
      <3>5. t.seen[<<c, TRUE>>] = 0
        BY <1>2, <1>3, <1>10
      <3>6. <<c, TRUE>> \in Cores \X BOOLEAN
        BY <1>2
      <3>7. v[<<c, TRUE>>] \in {0, own}
        BY <3>3, <3>5, <3>6
      <3>8. \A d \in Cores : \A b \in BOOLEAN : d # c => v[<<d, b>>] = t.seen[<<d, b>>]
        <4> TAKE d \in Cores
        <4> TAKE b \in BOOLEAN
        <4>1. d # c => <<d, b>> # bx /\ <<d, b>> # kx
          BY <3>4
        <4> QED
          BY <3>3, <4>1
      <3> QED
        BY <3>3, <3>4, <3>7, <3>8 DEF SeenCores
    <2> HIDE DEF v
    <2>3. u.keep = Append(t.keep, x) /\ u.seen = v /\ u.homes = t.homes
      BY <1>3, <2>1 DEF Reading
    <2>4. u.keep \in Seq(LedeSentences) /\ u.keep # <<>>
      BY <1>1, <1>3, <2>3 DEF x
    <2>5. u \in Reading
      <3>1. Append(t.keep, x) \in Seq(LedeSentences)
        BY <2>3, <2>4
      <3> DEFINE K == Append(t.keep, x)
      <3> HIDE DEF K
      <3>2. u = [t EXCEPT !.keep = K, !.seen = v] /\ K \in Seq(LedeSentences)
        BY <1>3, <2>1, <3>1 DEF K, Reading
      <3> QED
        BY <1>3, <2>2, <3>2 DEF Reading
    <2>6. Known(v) = old \cup {c}
      <3>1. \A d \in Cores : d # c => (v[<<d, FALSE>>] # 0 <=> t.seen[<<d, FALSE>>] # 0)
        BY <2>2
      <3>2. v[<<c, FALSE>>] # 0
        BY <2>2
      <3> QED
        BY <1>2, <1>4, <3>1, <3>2 DEF Known
    <2>7. Known(seen) \subseteq old
      BY <1>3
    <2>8. /\ Cored(u.keep) = Append(Cored(t.keep), c) /\ Cored(t.keep) \in Seq(Cores)
      BY <1>1, <1>3, <2>3, CoredOneMore DEF c, x
    <2>9. Distinct(Cored(u.keep)) /\ ToSet(Cored(u.keep)) = ToSet(Cored(t.keep)) \cup {c}
      <3>1. c \notin ToSet(Cored(t.keep))
        BY <1>3, <1>10
      <3> QED
        BY <1>2, <1>3, <2>8, <3>1, AppendSays
    <2>10. ToSet(Cored(u.keep)) = Known(v) \ Known(seen)
      BY <1>3, <1>10, <2>6, <2>7, <2>9
    <2>11. Known(v) = Known(seen) \cup {text[j].core : j \in 1..i}
      BY <1>3, <1>5, <2>6
    <2>12. \A d \in Known(v) : /\ v[<<d, FALSE>>] = IF d \in Known(seen) THEN seen[<<d, FALSE>>] ELSE own
                               /\ v[<<d, TRUE>>] \in {0, v[<<d, FALSE>>]}
      <3> TAKE d \in Known(v)
      <3>1. CASE d = c
        BY <1>10, <2>2, <2>7, <3>1
      <3>2. CASE d # c
        <4>1. d \in old /\ d \in Cores
          BY <1>4, <2>6, <3>2
        <4>2. v[<<d, FALSE>>] = t.seen[<<d, FALSE>>] /\ v[<<d, TRUE>>] = t.seen[<<d, TRUE>>]
          BY <2>2, <3>2, <4>1
        <4>3. /\ t.seen[<<d, FALSE>>] = IF d \in Known(seen) THEN seen[<<d, FALSE>>] ELSE own
              /\ t.seen[<<d, TRUE>>] \in {0, t.seen[<<d, FALSE>>]}
          BY <1>3, <4>1
        <4> QED
          BY <4>2, <4>3
      <3> QED
        BY <3>1, <3>2
    <2>13. \A d \in Cores \ Known(v) : v[<<d, TRUE>>] = 0
      BY <1>3, <2>2, <2>6
    <2>14. HasRead(u, i, text, seen, own)
      BY <2>3, <2>4, <2>5, <2>9, <2>10, <2>11, <2>12, <2>13 DEF HasRead
    <2> QED
      BY <2>14 DEF u, x
  <1> QED
    BY <1>9, <1>10

\* Reading goes on whatever is read.
LEMMA ReadsOn ==
  ASSUME NEW t \in Reading, NEW x \in LedeSentences, NEW own \in Nat
  PROVE  ReadSentence(t, x, own) \in Reading
  <1> DEFINE home == IF t.seen[Key(x)] # 0 THEN t.seen[Key(x)] ELSE t.seen[Bare(x)]
             K == Append(t.keep, x)
             v == [t.seen EXCEPT ![Key(x)] = own, ![Bare(x)] = own]
  <1>1. /\ t.keep \in Seq(LedeSentences) /\ t.seen \in [Cores \X BOOLEAN -> Nat] /\ t.homes \in SUBSET Nat
        /\ Key(x) \in Cores \X BOOLEAN /\ Bare(x) \in Cores \X BOOLEAN
    BY DEF Reading, SeenCores, Key, Bare, LedeSentences
  <1>2. home \in Nat
    BY <1>1
  <1>3. K \in Seq(LedeSentences)
    <2> HIDE DEF LedeSentences
    <2> QED
      BY <1>1
  <1>4. v \in SeenCores
    BY <1>1 DEF SeenCores
  <1>5. ReadSentence(t, x, own) = IF home # 0 THEN [t EXCEPT !.homes = @ \cup {home}] ELSE [t EXCEPT !.keep = K, !.seen = v]
    <2>1. ReadSentence(t, x, own) = IF home # 0 THEN [t EXCEPT !.homes = @ \cup {home}]
                                    ELSE [t EXCEPT !.keep = Append(t.keep, x), !.seen = [t.seen EXCEPT ![Key(x)] = own, ![Bare(x)] = own]]
      BY DEF ReadSentence, Reading
    <2> QED
      BY <2>1
  <1> HIDE DEF home, K, v
  <1>6. CASE home # 0
    BY <1>1, <1>2, <1>5, <1>6 DEF Reading
  <1>7. CASE home = 0
    BY <1>1, <1>3, <1>4, <1>5, <1>7 DEF Reading
  <1> QED
    BY <1>6, <1>7

\* So is a block of any length.
LEMMA BlockIsRead ==
  ASSUME NEW text \in Seq(LedeSentences), NEW seen, WellSeen(seen), NEW own \in Nat \ {0}
  PROVE  HasRead(ReadBlock(text, seen, own), Len(text), text, seen, own)
  <1> DEFINE L == Len(text)
             start == [keep |-> <<>>, seen |-> seen, homes |-> {}]
             go == [p \in Int \X Reading |-> IF p[1] \in 1..L THEN ReadSentence(p[2], text[p[1]], own) ELSE p[2]]
             upTo[i \in 0..L] == IF i = 0 THEN start ELSE ReadSentence(upTo[i - 1], text[i], own)
  <1>1. L \in Nat /\ \A i \in 1..L : text[i] \in LedeSentences
    OBVIOUS
  <1>2. ReadBlock(text, seen, own) = upTo[L]
    BY DEF ReadBlock
  <1> HIDE DEF L
  <1>3. start \in Reading
    BY DEF Reading, WellSeen
  <1>4. HasRead(start, 0, text, seen, own)
    <2>1. start.keep = <<>> /\ start.seen = seen /\ start.homes = {}
      OBVIOUS
    <2>2. DOMAIN Cored(<<>>) = {} /\ Distinct(Cored(<<>>)) /\ ToSet(Cored(<<>>)) = {}
      BY DEF Cored, Distinct, ToSet
    <2>3. {text[j].core : j \in 1..0} = {}
      OBVIOUS
    <2>4. \A c \in Known(seen) : c \in Cores
      BY DEF Known
    <2> HIDE DEF start
    <2>5. Distinct(Cored(start.keep)) /\ ToSet(Cored(start.keep)) = Known(start.seen) \ Known(seen)
      BY <2>1, <2>2
    <2>6. Known(start.seen) = Known(seen) \cup {text[j].core : j \in 1..0}
      BY <2>1, <2>3
    <2>7. \A c \in Known(start.seen) : /\ start.seen[<<c, FALSE>>] = IF c \in Known(seen) THEN seen[<<c, FALSE>>] ELSE own
                                       /\ start.seen[<<c, TRUE>>] \in {0, start.seen[<<c, FALSE>>]}
      BY <2>1, <2>4 DEF WellSeen
    <2>8. \A c \in Cores \ Known(start.seen) : start.seen[<<c, TRUE>>] = 0
      BY <2>1 DEF WellSeen
    <2>9. ~(0 > 0)
      OBVIOUS
    <2> QED
      BY <1>3, <2>1, <2>5, <2>6, <2>7, <2>8, <2>9, Zenon DEF HasRead
  <1> HIDE DEF start
  <1>5. go \in [Int \X Reading -> Reading] /\ \A i \in 1..L : \A t \in Reading : go[<<i, t>>] = ReadSentence(t, text[i], own)
    <2>1. \A p \in Int \X Reading : (IF p[1] \in 1..L THEN ReadSentence(p[2], text[p[1]], own) ELSE p[2]) \in Reading
      <3> HIDE DEF Reading
      <3> QED
        BY <1>1, ReadsOn
    <2>2. \A i \in 1..L : i \in Int
      OBVIOUS
    <2> HIDE DEF Reading
    <2> QED
      BY <2>1, <2>2
  <1> HIDE DEF go
  <1>6. 0 \in Int /\ L \in Int
    BY <1>1
  <1>7. PICK f \in [0..L -> Reading] : Loops(f, 0, L, start, go)
    BY <1>3, <1>5, <1>6, LoopIsDefined
  <1>8. ASSUME NEW i \in 0..L PROVE f[i] = IF i = 0 THEN start ELSE ReadSentence(f[i - 1], text[i], own)
    <2>1. f[i] = IF i = 0 THEN start ELSE go[<<i, f[i - 1]>>]
      BY <1>7 DEF Loops
    <2>2. i # 0 => i \in 1..L /\ f[i - 1] \in Reading
      BY <1>1, <1>7
    <2> QED
      BY <1>5, <2>1, <2>2
  <1>9. upTo = [i \in 0..L |-> IF i = 0 THEN start ELSE ReadSentence(upTo[i - 1], text[i], own)]
    <2>1. f = [i \in 0..L |-> IF i = 0 THEN start ELSE ReadSentence(f[i - 1], text[i], own)]
      BY <1>7, <1>8
    <2> QED
      BY <2>1
  <1> HIDE DEF upTo
  <1> DEFINE S == {i \in 0..L : HasRead(upTo[i], i, text, seen, own)}
  <1>10. 0 \in S
    BY <1>1, <1>4, <1>9
  <1>11. ASSUME NEW i \in (0 + 1)..L, i - 1 \in S PROVE i \in S
    <2>1. i \in 0..L /\ i # 0 /\ i \in 1..L
      BY <1>1
    <2>2. HasRead(upTo[i - 1], i - 1, text, seen, own)
      BY <1>11
    <2>3. HasRead(ReadSentence(upTo[i - 1], text[i], own), i, text, seen, own)
      BY <2>1, <2>2, ReadOne DEF L
    <2> QED
      BY <1>9, <2>1, <2>3
  <1> HIDE DEF S
  <1>12. \A i \in 0..L : i \in S
    BY <1>6, <1>10, <1>11, UpFromTheFirst
  <1>13. HasRead(upTo[L], L, text, seen, own)
    BY <1>1, <1>12 DEF S
  <1> QED
    BY <1>2, <1>13 DEF L

\* A block that is kept: its text and the blocks whose citations it carries.
KeptBlocks == [text : Seq(LedeSentences), citations : SUBSET Nat]

\* What the loop over the blocks holds.
Deduped == [kept : Seq(KeptBlocks), seen : SeenCores]

\* The cores of what is kept, one after the other.
CoresSaid(kept) == FlattenSeq([i \in DOMAIN kept |-> Cored(kept[i].text)])

\* The cores of a text.
CoresOf(text) == ToSet(Cored(text))

\* The texts of blocks: none is empty.
Texts == Seq(LedeSentences) \ {<<>>}

\* What is kept of the first n texts.
HasKept(s, n, texts) ==
    /\ s \in Deduped /\ WellSeen(s.seen)
    /\ Distinct(CoresSaid(s.kept)) /\ ToSet(CoresSaid(s.kept)) = Known(s.seen)
    /\ \A c \in Cores : c \in Known(s.seen) <=> \E m \in 1..n : c \in CoresOf(texts[m])
    /\ \A c \in Known(s.seen) : s.seen[<<c, FALSE>>] \in DOMAIN s.kept /\ c \in CoresOf(s.kept[s.seen[<<c, FALSE>>]].text)
    /\ \A m \in 1..n : \E k \in DOMAIN s.kept :
          m \in s.kept[k].citations /\ CoresOf(s.kept[k].text) \cap CoresOf(texts[m]) # {}

\* Which cores these are.
LEMMA CoresOfText ==
  ASSUME NEW text \in Seq(LedeSentences)
  PROVE  /\ CoresOf(text) = {text[j].core : j \in 1..Len(text)} /\ Cored(text) \in Seq(Cores) /\ CoresOf(text) \subseteq Cores
         /\ text # <<>> => text[1].core \in CoresOf(text)
  <1> DEFINE n == Len(text)
             q == Cored(text)
  <1>1. n \in Nat /\ DOMAIN text = 1..n /\ \A i \in 1..n : text[i] \in LedeSentences
    OBVIOUS
  <1>2. \A i \in 1..n : text[i].core \in Cores
    BY <1>1 DEF LedeSentences
  <1>3. q = [i \in 1..n |-> text[i].core]
    BY <1>1 DEF Cored
  <1>4. text # <<>> => 1 \in 1..n
    OBVIOUS
  <1> HIDE DEF n, q
  <1>5. q \in Seq(Cores) /\ DOMAIN q = 1..n
    BY <1>1, <1>2, <1>3
  <1>6. ToSet(q) = {text[j].core : j \in 1..n}
    BY <1>3, <1>5 DEF ToSet
  <1>7. ToSet(q) \subseteq Cores
    BY <1>2, <1>6
  <1> QED
    BY <1>4, <1>5, <1>6, <1>7 DEF n, q, CoresOf

\* One block more is kept as it should be.
LEMMA KeepOne ==
  ASSUME NEW texts \in Seq(Texts), NEW n \in 1..Len(texts), NEW s, HasKept(s, n - 1, texts)
  PROVE  HasKept(KeepBlock(s, n, texts[n]), n, texts)
  <1> DEFINE text == texts[n]
             own == Len(s.kept) + 1
             done == ReadBlock(text, s.seen, own)
             u == KeepBlock(s, n, text)
             kept == s.kept
             L == Len(kept)
  <1>1. text \in Seq(LedeSentences) /\ text # <<>> /\ n \in Nat /\ n > 0 /\ Len(text) \in Nat /\ Len(text) > 0
    <2>1. text \in Texts
      OBVIOUS
    <2> HIDE DEF text
    <2> QED
      BY <2>1 DEF Texts
  <1>2. /\ s \in Deduped /\ kept \in Seq(KeptBlocks) /\ s.seen \in SeenCores /\ L \in Nat /\ DOMAIN kept = 1..L /\ own = L + 1
        /\ \A i \in 1..L : kept[i] \in KeptBlocks
    <2>1. s \in Deduped /\ kept \in Seq(KeptBlocks) /\ s.seen \in SeenCores
      BY DEF HasKept, Deduped
    <2> HIDE DEF KeptBlocks, kept
    <2>2. L \in Nat /\ DOMAIN kept = 1..L /\ \A i \in 1..L : kept[i] \in KeptBlocks
      BY <2>1
    <2> QED
      BY <2>1, <2>2 DEF kept
  <1>3. HasRead(done, Len(text), text, s.seen, own)
    <2>1. own \in Nat \ {0} /\ WellSeen(s.seen)
      BY <1>2 DEF HasKept
    <2> QED
      BY <1>1, <2>1, BlockIsRead
  <1>4. /\ CoresOf(text) = {text[j].core : j \in 1..Len(text)} /\ CoresOf(text) \subseteq Cores
        /\ text[1].core \in CoresOf(text)
    BY <1>1, CoresOfText
  <1>5. u = IF done.keep = <<>>
            THEN [s EXCEPT !.kept = [h \in DOMAIN s.kept |->
                    IF h \in done.homes THEN [s.kept[h] EXCEPT !.citations = @ \cup {n}] ELSE s.kept[h]]]
            ELSE [kept |-> Append(kept, [text |-> done.keep, citations |-> {n}]), seen |-> done.seen]
    BY DEF KeepBlock, HomeAmongKept
  <1> HIDE DEF text, done, u
  <1>6. \A m \in 1..n : m \in 1..(n - 1) \/ (m = n /\ texts[m] = text)
    BY <1>1 DEF text
  <1>7. \A m \in 1..(n - 1) : m \in 1..n
    BY <1>1
  <1>8. \A c \in Cores : (\E m \in 1..n : c \in CoresOf(texts[m])) <=> c \in Known(s.seen) \/ c \in CoresOf(text)
    <2>1. \A c \in Cores : c \in Known(s.seen) <=> \E m \in 1..(n - 1) : c \in CoresOf(texts[m])
      BY DEF HasKept
    <2>2. n \in 1..n
      BY <1>1
    <2> QED
      BY <1>6, <1>7, <2>1, <2>2 DEF text
  <1>9. /\ done \in Reading /\ done.seen \in SeenCores /\ done.keep \in Seq(LedeSentences)
        /\ Known(done.seen) = Known(s.seen) \cup CoresOf(text)
        /\ done.keep = <<>> => done.seen = s.seen /\ s.seen[<<text[1].core, FALSE>>] \in done.homes
        /\ Distinct(Cored(done.keep)) /\ CoresOf(done.keep) = Known(done.seen) \ Known(s.seen)
    <2>1. done \in Reading
      BY <1>3 DEF HasRead
    <2> QED
      BY <1>1, <1>3, <1>4, <2>1 DEF HasRead, Reading, CoresOf
  <1>10. /\ WellSeen(s.seen) /\ Distinct(CoresSaid(kept)) /\ ToSet(CoresSaid(kept)) = Known(s.seen)
         /\ \A c \in Known(s.seen) : s.seen[<<c, FALSE>>] \in DOMAIN kept /\ c \in CoresOf(kept[s.seen[<<c, FALSE>>]].text)
         /\ \A m \in 1..(n - 1) : \E k \in DOMAIN kept :
               m \in kept[k].citations /\ CoresOf(kept[k].text) \cap CoresOf(texts[m]) # {}
    BY DEF HasKept
  <1> HIDE DEF kept, L, own
  <1>11. CASE done.keep = <<>>
    <2> DEFINE new == [h \in 1..L |-> IF h \in done.homes THEN [kept[h] EXCEPT !.citations = @ \cup {n}] ELSE kept[h]]
    <2>1. u = [s EXCEPT !.kept = new]
      <3> DEFINE w == [h \in DOMAIN s.kept |-> IF h \in done.homes THEN [s.kept[h] EXCEPT !.citations = @ \cup {n}] ELSE s.kept[h]]
      <3>1. u = [s EXCEPT !.kept = w]
        BY <1>5, <1>11
      <3>2. w = new
        BY <1>2 DEF kept
      <3> HIDE DEF w, new
      <3> QED
        BY <3>1, <3>2
    <2>2. \A h \in 1..L : /\ new[h] \in KeptBlocks /\ new[h].text = kept[h].text /\ kept[h].citations \subseteq new[h].citations
                          /\ h \in done.homes => n \in new[h].citations
      BY <1>1, <1>2 DEF KeptBlocks
    <2>3. new = [h \in 1..L |-> new[h]]
      OBVIOUS
    <2> HIDE DEF new
    <2>4. new \in Seq(KeptBlocks) /\ DOMAIN new = 1..L
      <3>1. \A h \in 1..L : new[h] \in KeptBlocks
        BY ONLY <2>2
      <3>2. new \in [1..L -> KeptBlocks] /\ L \in Nat
        BY ONLY <1>2, <2>3, <3>1
      <3> QED
        BY ONLY <3>2
    <2>5. u.kept = new /\ u.seen = s.seen /\ u \in Deduped
      BY <1>2, <2>1, <2>4 DEF Deduped
    <2>6. CoresSaid(new) = CoresSaid(kept)
      <3>1. [i \in DOMAIN new |-> Cored(new[i].text)] = [i \in DOMAIN kept |-> Cored(kept[i].text)]
        BY <1>2, <2>2, <2>4
      <3> QED
        BY <3>1 DEF CoresSaid
    <2>7. Known(s.seen) = Known(s.seen) \cup CoresOf(text)
      BY <1>9, <1>11
    <2>8. \A c \in Cores : c \in Known(s.seen) <=> \E m \in 1..n : c \in CoresOf(texts[m])
      BY <1>8, <2>7
    <2>9. \A c \in Known(s.seen) : s.seen[<<c, FALSE>>] \in DOMAIN new /\ c \in CoresOf(new[s.seen[<<c, FALSE>>]].text)
      BY <1>2, <1>10, <2>2, <2>4
    <2>10. ASSUME NEW m \in 1..n
           PROVE  \E k \in DOMAIN new : m \in new[k].citations /\ CoresOf(new[k].text) \cap CoresOf(texts[m]) # {}
      <3>1. CASE m \in 1..(n - 1)
        <4>1. PICK k \in DOMAIN kept : m \in kept[k].citations /\ CoresOf(kept[k].text) \cap CoresOf(texts[m]) # {}
          BY <1>10, <3>1
        <4> QED
          BY <1>2, <2>2, <2>4, <4>1
      <3>2. CASE m = n /\ texts[m] = text
        <4> DEFINE c == text[1].core
                   k == s.seen[<<c, FALSE>>]
        <4>1. c \in Known(s.seen) /\ c \in CoresOf(text)
          BY <1>4, <2>7
        <4>2. k \in DOMAIN kept /\ c \in CoresOf(kept[k].text)
          BY <1>10, <4>1
        <4>3. k \in done.homes
          BY <1>9, <1>11
        <4> HIDE DEF c, k
        <4>4. n \in new[k].citations /\ c \in CoresOf(new[k].text) /\ k \in DOMAIN new
          BY <1>2, <2>2, <2>4, <4>2, <4>3
        <4> QED
          BY <3>2, <4>1, <4>4
      <3> QED
        BY <1>6, <3>1, <3>2
    <2> QED
      BY <1>10, <2>5, <2>6, <2>8, <2>9, <2>10 DEF HasKept, u, text
  <1>12. CASE done.keep # <<>>
    <2> DEFINE b == [text |-> done.keep, citations |-> {n}]
               new == Append(kept, b)
    <2>1. u = [kept |-> new, seen |-> done.seen]
      BY <1>5, <1>12
    <2>2. b \in KeptBlocks /\ b.text = done.keep /\ n \in b.citations
      BY <1>1, <1>9 DEF KeptBlocks
    <2> HIDE DEF b
    <2>3. new \in Seq(KeptBlocks) /\ DOMAIN new = 1..(L + 1) /\ new[L + 1] = b /\ \A h \in 1..L : new[h] = kept[h]
      BY <1>2, <2>2 DEF L
    <2> HIDE DEF new
    <2>4. u.kept = new /\ u.seen = done.seen /\ u \in Deduped
      BY <1>9, <2>1, <2>3 DEF Deduped
    <2>5. 1..L \subseteq 1..(L + 1) /\ L + 1 \in 1..(L + 1)
      BY <1>2
    <2>6. CoresSaid(new) = CoresSaid(kept) \o Cored(b.text) /\ CoresSaid(kept) \in Seq(Cores) /\ Cored(b.text) \in Seq(Cores)
      <3> DEFINE f == [i \in 1..L |-> Cored(kept[i].text)]
                 h == [i \in 1..(L + 1) |-> Cored(new[i].text)]
      <3>1. \A x \in KeptBlocks : Cored(x.text) \in Seq(Cores)
        BY CoresOfText DEF KeptBlocks
      <3>2. \A i \in 1..(L + 1) : new[i] \in KeptBlocks
        <4> HIDE DEF KeptBlocks
        <4>1. DOMAIN new = 1..Len(new) /\ new \in [1..Len(new) -> KeptBlocks]
          BY <2>3
        <4> QED
          BY <2>3, <4>1
      <3>3. f \in [1..L -> Seq(Cores)] /\ h \in [1..(L + 1) -> Seq(Cores)]
        BY <1>2, <3>1, <3>2
      <3>4. h[L + 1] = Cored(b.text) /\ \A i \in 1..L : h[i] = f[i]
        BY <2>3, <2>5
      <3>5. CoresSaid(new) = FlattenSeq(h) /\ CoresSaid(kept) = FlattenSeq(f)
        BY <1>2, <2>3 DEF CoresSaid
      <3> HIDE DEF f, h
      <3>6. L \in Nat
        BY <1>2
      <3>7. FlattenSeq(h) = FlattenSeq(f) \o h[L + 1]
        BY <3>3, <3>4, <3>6, FlattenOneMore
      <3>8. FlattenSeq(f) \in Seq(Cores)
        BY <3>3, <3>6, FlattenSaysAll
      <3>9. Cored(b.text) \in Seq(Cores)
        BY <2>2, <3>1
      <3> QED
        BY <3>4, <3>5, <3>7, <3>8, <3>9
    <2>7. Distinct(CoresSaid(new)) /\ ToSet(CoresSaid(new)) = ToSet(CoresSaid(kept)) \cup ToSet(Cored(b.text))
      <3> DEFINE q == CoresSaid(kept)
                 r == Cored(b.text)
      <3>1. Distinct(q) /\ Distinct(r) /\ ToSet(q) \cap ToSet(r) = {} /\ q \in Seq(Cores) /\ r \in Seq(Cores) /\ CoresSaid(new) = q \o r
        BY <1>9, <1>10, <2>2, <2>6 DEF CoresOf
      <3> HIDE DEF q, r
      <3>2. Distinct(q \o r) /\ ToSet(q \o r) = ToSet(q) \cup ToSet(r)
        BY <3>1, ConcatDistinct
      <3> QED
        BY <3>1, <3>2 DEF q, r
    <2>8. ToSet(CoresSaid(new)) = Known(done.seen)
      BY <1>9, <1>10, <2>2, <2>7 DEF CoresOf
    <2>9. \A c \in Cores : c \in Known(done.seen) <=> \E m \in 1..n : c \in CoresOf(texts[m])
      BY <1>8, <1>9
    <2>10. WellSeen(done.seen)
      BY <1>3, <1>9 DEF WellSeen, HasRead, Known
    <2>11. ASSUME NEW c \in Known(done.seen)
           PROVE  done.seen[<<c, FALSE>>] \in DOMAIN new /\ c \in CoresOf(new[done.seen[<<c, FALSE>>]].text)
      <3>1. done.seen[<<c, FALSE>>] = IF c \in Known(s.seen) THEN s.seen[<<c, FALSE>>] ELSE own
        BY <1>3 DEF HasRead
      <3>2. CASE c \in Known(s.seen)
        <4> DEFINE k == s.seen[<<c, FALSE>>]
        <4>1. k \in DOMAIN kept /\ c \in CoresOf(kept[k].text) /\ done.seen[<<c, FALSE>>] = k
          BY <1>10, <3>1, <3>2
        <4> HIDE DEF k
        <4> QED
          BY <1>2, <2>3, <2>5, <4>1
      <3>3. CASE c \notin Known(s.seen)
        <4>1. done.seen[<<c, FALSE>>] = L + 1
          BY <1>2, <3>1, <3>3
        <4>2. c \in CoresOf(b.text)
          BY <1>9, <2>2, <3>3
        <4> QED
          BY <2>3, <2>5, <4>1, <4>2
      <3> QED
        BY <3>2, <3>3
    <2>12. ASSUME NEW m \in 1..n
           PROVE  \E k \in DOMAIN new : m \in new[k].citations /\ CoresOf(new[k].text) \cap CoresOf(texts[m]) # {}
      <3>1. CASE m \in 1..(n - 1)
        <4>1. PICK k \in DOMAIN kept : m \in kept[k].citations /\ CoresOf(kept[k].text) \cap CoresOf(texts[m]) # {}
          BY <1>10, <3>1
        <4> QED
          BY <1>2, <2>3, <2>5, <4>1
      <3>2. CASE m = n /\ texts[m] = text
        <4> DEFINE c == done.keep[1].core
        <4>1. c \in CoresOf(done.keep)
          BY <1>9, <1>12, CoresOfText
        <4>2. c \in CoresOf(text)
          BY <1>9, <4>1
        <4> HIDE DEF c
        <4> QED
          BY <2>2, <2>3, <2>5, <3>2, <4>1, <4>2
      <3> QED
        BY <1>6, <3>1, <3>2
    <2> QED
      BY <2>4, <2>7, <2>8, <2>9, <2>10, <2>11, <2>12 DEF HasKept, u, text
  <1> QED
    BY <1>11, <1>12

\* Where nothing is said twice, a thing is said once or not at all.
LEMMA OnceOrNever ==
  ASSUME NEW T, NEW q \in Seq(T), Distinct(q), NEW c
  PROVE  Cardinality({i \in DOMAIN q : q[i] = c}) = IF c \in ToSet(q) THEN 1 ELSE 0
  <1> DEFINE S == {i \in DOMAIN q : q[i] = c}
  <1>1. CASE c \in ToSet(q)
    <2>1. PICK i \in DOMAIN q : q[i] = c
      BY <1>1 DEF ToSet
    <2>2. S = {i}
      BY <2>1 DEF Distinct
    <2> HIDE DEF S
    <2> QED
      BY <1>1, <2>2, FS_Singleton DEF S
  <1>2. CASE c \notin ToSet(q)
    <2>1. S = {}
      BY <1>2 DEF ToSet
    <2> HIDE DEF S
    <2> QED
      BY <1>2, <2>1, FS_EmptySet DEF S
  <1> QED
    BY <1>1, <1>2

\* So are any number of them.
LEMMA TextsAreRead ==
  ASSUME NEW texts \in Seq(Texts)
  PROVE  \E s : HasKept(s, Len(texts), texts) /\ dedupe_sentences(texts) = s.kept
  <1> DEFINE N == Len(texts)
             start == [kept |-> <<>>, seen |-> NoneSeen]
             go == [p \in Int \X Deduped |->
                      IF p[1] \in 1..N /\ KeepBlock(p[2], p[1], texts[p[1]]) \in Deduped
                      THEN KeepBlock(p[2], p[1], texts[p[1]]) ELSE p[2]]
             after == CHOOSE f : f = [n \in 0..N |-> IF n = 0 THEN start ELSE KeepBlock(f[n - 1], n, texts[n])]
  <1>1. N \in Nat /\ 0 \in Int /\ N \in Int
    OBVIOUS
  <1>2. dedupe_sentences(texts) = after[N].kept
    BY DEF dedupe_sentences
  <1>3. HasKept(start, 0, texts) /\ start \in Deduped
    <2>1. NoneSeen \in SeenCores /\ Known(NoneSeen) = {} /\ WellSeen(NoneSeen)
      BY DEF NoneSeen, SeenCores, Known, WellSeen
    <2>2. start \in Deduped /\ start.kept = <<>> /\ start.seen = NoneSeen
      BY <2>1 DEF Deduped
    <2> HIDE DEF start
    <2>3. CoresSaid(start.kept) = <<>>
      <3>1. [i \in DOMAIN start.kept |-> Cored(start.kept[i].text)] = <<>>
        BY <2>2
      <3>2. FlattenSeq(<<>>) = <<>>
        BY DEF FlattenSeq
      <3> QED
        BY <3>1, <3>2 DEF CoresSaid
    <2>4. ToSet(<<>>) = {} /\ Distinct(<<>>)
      BY DEF ToSet, Distinct
    <2>5. 1..0 = {}
      OBVIOUS
    <2> QED
      BY <2>1, <2>2, <2>3, <2>4, <2>5 DEF HasKept
  <1> HIDE DEF start
  <1>4. go \in [Int \X Deduped -> Deduped]
    OBVIOUS
  <1>5. ASSUME NEW n \in 1..N, NEW s \in Deduped, KeepBlock(s, n, texts[n]) \in Deduped
        PROVE  go[<<n, s>>] = KeepBlock(s, n, texts[n])
    <2>1. <<n, s>> \in Int \X Deduped
      OBVIOUS
    <2> QED
      BY <1>5, <2>1
  <1> HIDE DEF go
  <1>6. PICK f \in [0..N -> Deduped] : Loops(f, 0, N, start, go)
    BY <1>1, <1>3, <1>4, LoopIsDefined
  <1> DEFINE S == {n \in 0..N : HasKept(f[n], n, texts)}
  <1>7. 0 \in S
    BY <1>1, <1>3, <1>6 DEF Loops
  <1>8. ASSUME NEW n \in (0 + 1)..N, n - 1 \in S
        PROVE  n \in S /\ f[n] = KeepBlock(f[n - 1], n, texts[n])
    <2>1. n \in 0..N /\ n # 0 /\ n \in 1..N /\ n - 1 \in 0..N
      BY <1>1
    <2>2. HasKept(f[n - 1], n - 1, texts) /\ f[n - 1] \in Deduped
      BY <1>6, <1>8, <2>1
    <2> DEFINE u == KeepBlock(f[n - 1], n, texts[n])
    <2>3. HasKept(u, n, texts)
      BY <2>1, <2>2, KeepOne
    <2>4. u \in Deduped
      BY <2>3 DEF HasKept
    <2>5. f[n] = u
      <3>1. f[n] = go[<<n, f[n - 1]>>]
        BY <1>6, <2>1 DEF Loops
      <3> QED
        BY <1>5, <2>1, <2>2, <2>4, <3>1
    <2> HIDE DEF u
    <2> QED
      BY <2>1, <2>3, <2>5 DEF u
  <1> HIDE DEF S
  <1>9. \A n \in 0..N : n \in S
    BY <1>1, <1>7, <1>8, UpFromTheFirst
  <1>10. \A n \in 0..N : f[n] = IF n = 0 THEN start ELSE KeepBlock(f[n - 1], n, texts[n])
    <2> TAKE n \in 0..N
    <2>1. CASE n = 0
      BY <1>6, <2>1 DEF Loops
    <2>2. CASE n # 0
      <3>1. n \in (0 + 1)..N /\ n - 1 \in 0..N
        BY <1>1, <2>2
      <3> QED
        BY <1>8, <1>9, <2>2, <3>1
    <2> QED
      BY <2>1, <2>2
  <1>11. f = [n \in 0..N |-> IF n = 0 THEN start ELSE KeepBlock(f[n - 1], n, texts[n])]
    BY <1>6, <1>10
  <1>12. after = [n \in 0..N |-> IF n = 0 THEN start ELSE KeepBlock(after[n - 1], n, texts[n])]
    BY <1>11
  <1> HIDE DEF after
  <1>13. \A n \in 0..N : n \in {m \in 0..N : after[m] = f[m]}
    <2>1. 0 \in {m \in 0..N : after[m] = f[m]}
      BY <1>1, <1>10, <1>12
    <2>2. ASSUME NEW n \in (0 + 1)..N, n - 1 \in {m \in 0..N : after[m] = f[m]}
          PROVE  n \in {m \in 0..N : after[m] = f[m]}
      <3>1. n \in 0..N /\ n # 0
        BY <1>1
      <3> QED
        BY <1>10, <1>12, <2>2, <3>1
    <2> QED
      BY <1>1, <2>1, <2>2, UpFromTheFirst
  <1>14. N \in 0..N
    BY <1>1
  <1>15. HasKept(f[N], N, texts) /\ after[N] = f[N]
    BY <1>9, <1>13, <1>14 DEF S
  <1> QED
    BY <1>2, <1>15 DEF N

(***************************************************************************)
(* Of any number of blocks of any length each thing is said once, nothing  *)
(* that was said is lost, and every block's citation is carried by a block *)
(* that is kept and says something it said (dedupe_sentences).             *)
(***************************************************************************)
THEOREM SaidOnce ==
  ASSUME NEW texts \in Seq(Texts)
  PROVE  SaidOnceAndCited(texts)
  <1> DEFINE N == Len(texts)
             kept == dedupe_sentences(texts)
             said == FlattenSeq([i \in DOMAIN kept |-> [j \in DOMAIN kept[i].text |-> kept[i].text[j].core]])
  <1>1. PICK s : HasKept(s, N, texts) /\ kept = s.kept
    BY TextsAreRead
  <1>2. N \in Nat /\ DOMAIN texts = 1..N /\ \A n \in 1..N : texts[n] \in Seq(LedeSentences)
    <2>1. \A n \in 1..N : texts[n] \in Texts
      OBVIOUS
    <2> QED
      BY <2>1 DEF Texts
  <1> HIDE DEF kept, N
  <1>3. said = CoresSaid(kept)
    BY DEF CoresSaid, Cored
  <1> HIDE DEF said
  <1>4. /\ Distinct(said) /\ ToSet(said) = Known(s.seen)
        /\ \A c \in Cores : c \in Known(s.seen) <=> \E m \in 1..N : c \in CoresOf(texts[m])
        /\ \A m \in 1..N : \E k \in DOMAIN kept :
              m \in kept[k].citations /\ CoresOf(kept[k].text) \cap CoresOf(texts[m]) # {}
    BY <1>1, <1>3 DEF HasKept
  <1>5. \E T : said \in Seq(T)
    <2>1. kept \in Seq(KeptBlocks)
      BY <1>1 DEF HasKept, Deduped
    <2> DEFINE L == Len(kept)
               f == [i \in 1..L |-> Cored(kept[i].text)]
    <2>2. L \in Nat /\ DOMAIN kept = 1..L /\ kept \in [1..L -> KeptBlocks]
      <3> HIDE DEF KeptBlocks
      <3> QED
        BY <2>1
    <2> HIDE DEF L
    <2>3. \A i \in 1..L : Cored(kept[i].text) \in Seq(Cores)
      BY <2>2, CoresOfText DEF KeptBlocks
    <2>4. f \in [1..L -> Seq(Cores)] /\ said = FlattenSeq(f)
      BY <1>3, <2>2, <2>3 DEF CoresSaid
    <2> HIDE DEF f
    <2>5. said \in Seq(Cores)
      BY <2>2, <2>4, FlattenSaysAll
    <2> QED
      BY <2>5
  <1>6. ASSUME NEW c \in Cores, NEW m \in 1..N
        PROVE  c \in CoresOf(texts[m]) <=> \E x \in ToSet(texts[m]) : x.core = c
    <2>1. CoresOf(texts[m]) = {texts[m][j].core : j \in 1..Len(texts[m])} /\ DOMAIN texts[m] = 1..Len(texts[m])
      BY <1>2, CoresOfText
    <2> QED
      BY <2>1 DEF ToSet
  <1>7. ASSUME NEW c \in Cores
        PROVE  Cardinality({i \in DOMAIN said : said[i] = c}) =
                  IF \E n \in DOMAIN texts : \E x \in ToSet(texts[n]) : x.core = c THEN 1 ELSE 0
    <2>1. c \in ToSet(said) <=> \E n \in DOMAIN texts : \E x \in ToSet(texts[n]) : x.core = c
      BY <1>2, <1>4, <1>6
    <2>2. Cardinality({i \in DOMAIN said : said[i] = c}) = IF c \in ToSet(said) THEN 1 ELSE 0
      BY <1>4, <1>5, OnceOrNever
    <2> QED
      BY <2>1, <2>2
  <1>8. \A n \in DOMAIN texts : \E k \in DOMAIN kept :
           /\ n \in kept[k].citations
           /\ ToSet([j \in DOMAIN kept[k].text |-> kept[k].text[j].core]) \cap ToSet([j \in DOMAIN texts[n] |-> texts[n][j].core]) # {}
    BY <1>2, <1>4 DEF CoresOf, Cored
  <1> QED
    BY <1>7, <1>8, Zenon DEF SaidOnceAndCited, said, kept

-----------------------------------------------------------------------------
(* Pages: whose pages a visitor sees, and what they count.                 *)
(***************************************************************************)
(* However many turns a conversation has, it is shown to its owner or an   *)
(* administrator only, its finished turns and all of them, in order; and a *)
(* page has a session or a notice, never both (_owns, chat_page).          *)
(***************************************************************************)
THEOREM OwnOnly ==
  ASSUME NEW requested, NEW owner, NEW actor, NEW is_admin \in BOOLEAN, NEW ended \in Seq(BOOLEAN)
  PROVE  OnlyOnesOwn([requested |-> requested, owner |-> owner, actor |-> actor, is_admin |-> is_admin, ended |-> ended])
  <1> DEFINE i == [requested |-> requested, owner |-> owner, actor |-> actor, is_admin |-> is_admin, ended |-> ended]
             places == [n \in DOMAIN ended |-> n]
             P == {n \in 1..Len(ended) : ended[n]}
             transcript == Filter(places, LAMBDA n : ended[n])
             out == chat_page(i)
  <1>1. Len(ended) \in Nat /\ DOMAIN ended = 1..Len(ended)
    OBVIOUS
  <1>2. /\ i.requested = requested /\ i.owner = owner /\ i.actor = actor /\ i.is_admin = is_admin /\ i.ended = ended
    OBVIOUS
  <1>3. /\ places \in Seq(1..Len(ended)) /\ DOMAIN places = 1..Len(ended) /\ Len(places) = Len(ended)
        /\ \A n \in 1..Len(ended) : places[n] = n
    <2>1. places = [n \in 1..Len(ended) |-> n]
      BY <1>1
    <2> HIDE DEF places
    <2> QED
      BY <1>1, <2>1
  <1> HIDE DEF places, i
  <1>4. Subsequence(transcript, places, P)
    <2>1. transcript = FlattenSeq([n \in DOMAIN places |-> IF places[n] \in P THEN <<places[n]>> ELSE <<>>])
      <3>1. \A n \in DOMAIN places : places[n] \in P <=> ended[places[n]]
        BY <1>3
      <3> HIDE DEF P
      <3> QED
        BY <3>1 DEF Filter
    <2> HIDE DEF P, transcript
    <2> QED
      BY <1>3, <2>1, FilterKeeps
  <1>5. /\ out.transcript = IF _owns(i) THEN transcript ELSE <<>>
        /\ out.session = _owns(i) /\ out.notice = (requested # "absent" /\ ~_owns(i))
    BY <1>2 DEF chat_page, places
  <1> HIDE DEF transcript, out, P
  <1>6. ToSet(transcript) = P
    <2>1. ToSet(places) = 1..Len(ended)
      BY <1>3 DEF ToSet
    <2> QED
      BY <1>4, <2>1 DEF Subsequence, P
  <1>7. \A n, m \in DOMAIN transcript : n < m => transcript[n] < transcript[m]
    <2>1. PICK at \in [1..Len(transcript) -> 1..Len(places)] :
             /\ \A k \in 1..Len(transcript) : transcript[k] = places[at[k]]
             /\ \A j, k \in 1..Len(transcript) : j < k => at[j] < at[k]
      BY <1>4 DEF Subsequence
    <2>2. DOMAIN transcript = 1..Len(transcript)
      BY <1>4 DEF Subsequence
    <2>3. \A k \in 1..Len(transcript) : transcript[k] = at[k]
      BY <1>3, <2>1
    <2> QED
      BY <2>1, <2>2, <2>3
  <1>8. _owns(i) <=> requested = "known" /\ (is_admin \/ owner = actor)
    BY <1>2 DEF _owns
  <1>9. _owns(i) \in BOOLEAN
    BY DEF _owns
  <1>10. (out.transcript # <<>> \/ out.session) => i.requested = "known" /\ (i.is_admin \/ i.owner = i.actor)
    BY <1>2, <1>5, <1>8, <1>9
  <1>11. ~(out.session /\ out.notice)
    BY <1>5, <1>9
  <1>12. \A n, m \in DOMAIN out.transcript : n < m => out.transcript[n] < out.transcript[m]
    <2>1. CASE _owns(i)
      BY <1>5, <1>7, <2>1
    <2>2. CASE ~_owns(i)
      BY <1>5, <2>2
    <2> QED
      BY <2>1, <2>2
  <1>13. out.session => ToSet(out.transcript) = {n \in DOMAIN i.ended : i.ended[n]}
    BY <1>1, <1>2, <1>5, <1>6, <1>9 DEF P
  <1>14. OnlyOnesOwn(i)
    BY <1>10, <1>11, <1>12, <1>13 DEF OnlyOnesOwn, out
  <1> QED
    BY <1>14 DEF i

\* The rows of a scoring: a requirement is scored once.
Scorings(I, T) == {rows \in SUBSET (I \X T) : \A r, q \in rows : r[1] = q[1] => r = q}

\* The spans of a turn, of any verdicts and scorings.
TurnSpans(R, V, I, T) ==
    [kind : {"guardrail"}, rule : R, verdict : V, rows : {{}}]
    \cup [kind : {"tool_call"}, rule : {"none"}, verdict : {"none"}, rows : Scorings(I, T)]

\* A span says something of a requirement.
SpanSays(span, id) == \E r \in span.rows : r[1] = id

\* What it says.
StatusIn(span, id) == (CHOOSE r \in span.rows : r[1] = id)[2]

\* The requirements that pages count.
BothRequirements == {"r1", "r2"}

\* What the spans last say of each requirement.
LastSaid(statuses, spans) ==
    \A id \in BothRequirements :
        /\ (\A n \in 1..Len(spans) : ~SpanSays(spans[n], id)) => statuses[id] = "absent"
        /\ \A n \in 1..Len(spans) :
              SpanSays(spans[n], id) /\ (\A m \in (n + 1)..Len(spans) : ~SpanSays(spans[m], id)) => statuses[id] = StatusIn(spans[n], id)

\* How many of them passed, and of how many.
CountedStatuses(statuses) ==
    [passed |-> Cardinality({id \in BothRequirements : statuses[id] \in {"met"}}),
     ran |-> Cardinality({id \in BothRequirements : statuses[id] \in {"met", "unmet"}})]

\* policy_rules counts the statuses that were said last.
LEMMA LastStatusCounts ==
  ASSUME NEW R, NEW V, NEW I, NEW T, NEW spans \in Seq(TurnSpans(R, V, I, T))
  PROVE  \E statuses \in [BothRequirements -> T \cup {"absent"}] :
            /\ LastSaid(statuses, spans)
            /\ policy_rules(spans) = CountedStatuses(statuses)
  <1> DEFINE D == [BothRequirements -> T \cup {"absent"}]
             L == Len(spans)
             none == [id \in BothRequirements |-> "absent"]
             after(n, s) == [id \in BothRequirements |-> IF SpanSays(spans[n], id) THEN StatusIn(spans[n], id) ELSE s[id]]
             step == [x \in Int \X D |-> IF x[1] \in 1..L THEN after(x[1], x[2]) ELSE x[2]]
             upTo[n \in 0..L] ==
                IF n = 0 THEN [id \in {"r1", "r2"} |-> "absent"]
                ELSE [id \in {"r1", "r2"} |->
                         IF \E r \in spans[n].rows : r[1] = id THEN (CHOOSE r \in spans[n].rows : r[1] = id)[2] ELSE upTo[n - 1][id]]
             of(statuses) == Cardinality({id \in {"r1", "r2"} : upTo[L][id] \in statuses})
  <1>1. L \in Nat /\ DOMAIN spans = 1..L /\ \A n \in 1..L : spans[n] \in TurnSpans(R, V, I, T)
    OBVIOUS
  <1> HIDE DEF L
  <1>2. ASSUME NEW n \in 1..L, NEW id, SpanSays(spans[n], id) PROVE StatusIn(spans[n], id) \in T
    <2>1. spans[n].rows \subseteq I \X T
      BY <1>1 DEF TurnSpans, Scorings
    <2>2. PICK r \in spans[n].rows : r[1] = id
      BY <1>2 DEF SpanSays
    <2> DEFINE q == CHOOSE x \in spans[n].rows : x[1] = id
    <2>3. q \in spans[n].rows
      BY <2>2
    <2> HIDE DEF q
    <2>4. q[2] \in T
      BY <2>1, <2>3
    <2> QED
      BY <2>4 DEF StatusIn, q
  <1>3. none \in D /\ \A n \in 1..L : \A s \in D : after(n, s) \in D
    BY <1>2
  <1>4. step \in [Int \X D -> D] /\ \A n \in 1..L : \A s \in D : step[<<n, s>>] = after(n, s)
    <2> HIDE DEF after, D
    <2> QED
      BY <1>3
  <1> HIDE DEF step
  <1>5. 0 \in Int /\ L \in Int
    BY <1>1
  <1>6. PICK f \in [0..L -> D] : Loops(f, 0, L, none, step)
    <2> HIDE DEF D, none
    <2> QED
      BY <1>3, <1>4, <1>5, LoopIsDefined
  <1>7. ASSUME NEW n \in 0..L PROVE f[n] = IF n = 0 THEN none ELSE after(n, f[n - 1])
    <2>1. f[n] = IF n = 0 THEN none ELSE step[<<n, f[n - 1]>>]
      BY <1>6 DEF Loops
    <2>2. n # 0 => n \in 1..L /\ f[n - 1] \in D
      BY <1>1, <1>6
    <2> HIDE DEF D, none, after
    <2> QED
      BY <1>4, <2>1, <2>2
  <1>8. upTo = [n \in 0..L |-> IF n = 0 THEN none ELSE after(n, upTo[n - 1])]
    <2>1. f = [n \in 0..L |-> IF n = 0 THEN none ELSE after(n, f[n - 1])]
      BY <1>6, <1>7
    <2>2. f = [n \in 0..L |-> IF n = 0 THEN [id \in {"r1", "r2"} |-> "absent"]
                ELSE [id \in {"r1", "r2"} |->
                         IF \E r \in spans[n].rows : r[1] = id THEN (CHOOSE r \in spans[n].rows : r[1] = id)[2] ELSE f[n - 1][id]]]
      BY <2>1 DEF BothRequirements, SpanSays, StatusIn
    <2>3. upTo = [n \in 0..L |-> IF n = 0 THEN [id \in {"r1", "r2"} |-> "absent"]
                ELSE [id \in {"r1", "r2"} |->
                         IF \E r \in spans[n].rows : r[1] = id THEN (CHOOSE r \in spans[n].rows : r[1] = id)[2] ELSE upTo[n - 1][id]]]
      BY <2>2
    <2> HIDE DEF upTo
    <2> QED
      BY <2>3 DEF BothRequirements, SpanSays, StatusIn
  <1>9. policy_rules(spans) = [passed |-> of({"met"}), ran |-> of({"met", "unmet"})]
    BY DEF policy_rules, L
  <1> HIDE DEF upTo
  <1> DEFINE Right(n) == \A id \in BothRequirements :
                /\ (\A k \in 1..n : ~SpanSays(spans[k], id)) => upTo[n][id] = "absent"
                /\ \A k \in 1..n :
                      SpanSays(spans[k], id) /\ (\A m \in (k + 1)..n : ~SpanSays(spans[m], id)) => upTo[n][id] = StatusIn(spans[k], id)
             S == {n \in 0..L : upTo[n] \in D /\ Right(n)}
  <1>10. 0 \in S
    BY <1>1, <1>3, <1>8
  <1>11. ASSUME NEW n \in (0 + 1)..L, n - 1 \in S PROVE n \in S
    <2>1. n \in 1..L /\ n \in 0..L /\ n # 0 /\ upTo[n - 1] \in D /\ Right(n - 1)
      BY <1>1, <1>11
    <2>2. upTo[n] = after(n, upTo[n - 1])
      BY <1>8, <2>1
    <2>3. upTo[n] \in D
      <3> HIDE DEF D, after
      <3> QED
        BY <1>3, <2>1, <2>2
    <2>4. \A id \in BothRequirements : upTo[n][id] = IF SpanSays(spans[n], id) THEN StatusIn(spans[n], id) ELSE upTo[n - 1][id]
      BY <2>2
    <2> HIDE DEF D, after
    <2>5. ASSUME NEW id \in BothRequirements, \A k \in 1..n : ~SpanSays(spans[k], id) PROVE upTo[n][id] = "absent"
      <3>1. \A k \in 1..(n - 1) : k \in 1..n
        OBVIOUS
      <3> QED
        BY <2>1, <2>4, <2>5, <3>1
    <2>6. ASSUME NEW id \in BothRequirements, NEW k \in 1..n, SpanSays(spans[k], id), \A m \in (k + 1)..n : ~SpanSays(spans[m], id)
          PROVE  upTo[n][id] = StatusIn(spans[k], id)
      <3>1. CASE k = n
        BY <2>4, <2>6, <3>1
      <3>2. CASE k # n
        <4>1. k \in 1..(n - 1) /\ n \in (k + 1)..n /\ \A m \in (k + 1)..(n - 1) : m \in (k + 1)..n
          BY <3>2
        <4> QED
          BY <2>1, <2>4, <2>6, <4>1
      <3> QED
        BY <3>1, <3>2
    <2> QED
      BY <2>1, <2>3, <2>5, <2>6
  <1> HIDE DEF S
  <1>12. \A n \in 0..L : n \in S
    BY <1>5, <1>10, <1>11, UpFromTheFirst
  <1>13. L \in S
    BY <1>1, <1>12
  <1>14. upTo[L] \in D /\ LastSaid(upTo[L], spans)
    BY <1>13 DEF S, LastSaid, L
  <1>15. policy_rules(spans) = CountedStatuses(upTo[L])
    BY <1>9 DEF CountedStatuses, BothRequirements
  <1> QED
    BY <1>14, <1>15

\* A filter of the spans has at least as many entries as they name rules.
LEMMA RulesOfVerdicts ==
  ASSUME NEW T, NEW w \in Seq(T)
  PROVE  /\ IsFiniteSet({s.rule : s \in ToSet(w)}) /\ Cardinality({s.rule : s \in ToSet(w)}) \in Nat
         /\ Cardinality({s.rule : s \in ToSet(w)}) <= Len(w) /\ Len(w) \in Nat
         /\ Len(w) = 0 <=> {s.rule : s \in ToSet(w)} = {}
         /\ Cardinality({s.rule : s \in ToSet(w)}) = 0 <=> {s.rule : s \in ToSet(w)} = {}
  <1> DEFINE n == Len(w)
             rules == [k \in 1..n |-> w[k].rule]
             U == {w[k].rule : k \in 1..n}
  <1>1. n \in Nat /\ DOMAIN w = 1..n /\ ToSet(w) = {w[k] : k \in 1..n}
    BY DEF ToSet
  <1> HIDE DEF n
  <1>2. rules \in Seq(U) /\ Len(rules) = n /\ DOMAIN rules = 1..n /\ \A k \in 1..n : rules[k] = w[k].rule
    BY <1>1
  <1>3. ToSet(rules) = U
    <2>1. ToSet(rules) = {rules[k] : k \in 1..n}
      BY <1>2 DEF ToSet
    <2> HIDE DEF rules
    <2> QED
      BY <1>2, <2>1
  <1>4. {s.rule : s \in ToSet(w)} = U
    <2>1. \A x \in {s.rule : s \in ToSet(w)} : x \in U
      BY <1>1
    <2>2. \A x \in U : x \in {s.rule : s \in ToSet(w)}
      BY <1>1
    <2> QED
      BY <2>1, <2>2
  <1>5. n = 0 <=> U = {}
    <2>1. CASE n = 0
      BY <2>1
    <2>2. CASE n # 0
      <3>1. 1 \in 1..n
        BY <1>1, <2>2
      <3>2. w[1].rule \in U
        BY <3>1
      <3> QED
        BY <2>2, <3>2
    <2> QED
      BY <2>1, <2>2
  <1> HIDE DEF rules, U
  <1>6. IsFiniteSet(U) /\ Cardinality(U) \in Nat /\ Cardinality(U) <= n
    BY <1>2, <1>3, RangeIsFinite
  <1>7. Cardinality(U) = 0 <=> U = {}
    BY <1>6, FS_EmptySet
  <1> QED
    BY <1>1, <1>4, <1>5, <1>6, <1>7 DEF n

\* The two pages that count guardrails count alike.
LEMMA GuardrailsCount ==
  ASSUME NEW R, IsFiniteSet(R), Cardinality(R) <= SAFETY_RULES, NEW V, NEW I, NEW T, NEW spans \in Seq(TurnSpans(R, V, I, T))
  PROVE  LET checks == safety_checks(spans)
             verdicts == guardrail_verdicts(spans)
         IN  /\ checks.ran <= SAFETY_RULES /\ checks.ran <= verdicts.runs
             /\ 0 <= checks.passed /\ (verdicts.blocked = 0 <=> checks.passed = checks.ran)
             /\ checks.ran - checks.passed <= verdicts.blocked
  <1> DEFINE W == TurnSpans(R, V, I, T)
             P == {s \in W : s.kind = "guardrail"}
             Q == {s \in P : s.verdict # "allow"}
             w == Filter(spans, LAMBDA s : s.kind = "guardrail")
             b == Filter(w, LAMBDA s : s.verdict # "allow")
             ran == {s.rule : s \in ToSet(w)}
             blocked == {s.rule : s \in ToSet(b)}
  <1>1. DOMAIN spans = 1..Len(spans) /\ \A n \in DOMAIN spans : spans[n] \in W
    OBVIOUS
  <1>2. Subsequence(w, spans, P)
    <2>1. w = FlattenSeq([n \in DOMAIN spans |-> IF spans[n] \in P THEN <<spans[n]>> ELSE <<>>])
      <3>1. \A n \in DOMAIN spans : spans[n] \in P <=> spans[n].kind = "guardrail"
        BY <1>1
      <3> HIDE DEF P
      <3> QED
        BY <3>1 DEF Filter
    <2> HIDE DEF P, w
    <2> QED
      BY <2>1, FilterKeeps
  <1> HIDE DEF w
  <1>3. w \in Seq(P) /\ ToSet(w) = ToSet(spans) \cap P
    BY <1>2 DEF Subsequence
  <1>4. Subsequence(b, w, Q)
    <2>1. b = FlattenSeq([n \in DOMAIN w |-> IF w[n] \in Q THEN <<w[n]>> ELSE <<>>])
      <3>1. \A n \in DOMAIN w : w[n] \in Q <=> w[n].verdict # "allow"
        <4> HIDE DEF P
        <4> QED
          BY <1>3
      <3> HIDE DEF Q
      <3> QED
        BY <3>1 DEF Filter
    <2> HIDE DEF Q, P, b
    <2> QED
      BY <1>3, <2>1, FilterKeeps
  <1> HIDE DEF b
  <1>5. b \in Seq(Q) /\ ToSet(b) = ToSet(w) \cap Q
    BY <1>4 DEF Subsequence
  <1>6. guardrail_verdicts(spans) = [runs |-> Len(w), blocked |-> Len(b)]
    BY DEF guardrail_verdicts, w, b
  <1>7. {s \in ToSet(spans) : s.kind = "guardrail"} = ToSet(w)
    <2>1. \A s \in ToSet(spans) : s \in W
      BY <1>1 DEF ToSet
    <2> QED
      BY <1>3, <2>1
  <1>8. {s \in ToSet(w) : s.verdict # "allow"} = ToSet(b)
    BY <1>3, <1>5
  <1>9. safety_checks(spans) = [passed |-> Cardinality(ran) - Cardinality(blocked), ran |-> Cardinality(ran)]
    BY <1>7, <1>8 DEF safety_checks
  <1>10. blocked \subseteq ran /\ ran \subseteq R
    <2>1. \A s \in ToSet(b) : s \in ToSet(w)
      BY <1>5
    <2>2. \A s \in ToSet(w) : s.rule \in R
      BY <1>3 DEF TurnSpans
    <2> QED
      BY <2>1, <2>2
  <1>11. /\ IsFiniteSet(ran) /\ Cardinality(ran) \in Nat /\ Cardinality(ran) <= Len(w) /\ Len(w) \in Nat
         /\ IsFiniteSet(blocked) /\ Cardinality(blocked) \in Nat /\ Cardinality(blocked) <= Len(b) /\ Len(b) \in Nat
         /\ Len(b) = 0 <=> blocked = {}
         /\ Cardinality(blocked) = 0 <=> blocked = {}
    <2> HIDE DEF P, Q
    <2> QED
      BY <1>3, <1>5, RulesOfVerdicts
  <1> HIDE DEF ran, blocked
  <1>12. Cardinality(ran) <= Cardinality(R) /\ Cardinality(blocked) <= Cardinality(ran)
    BY <1>10, <1>11, FS_Subset
  <1>13. Cardinality(R) \in Nat
    BY FS_CardinalityType
  <1> DEFINE r == Cardinality(ran)
             k == Cardinality(blocked)
  <1>14. /\ safety_checks(spans).ran = r /\ safety_checks(spans).passed = r - k
         /\ guardrail_verdicts(spans).runs = Len(w) /\ guardrail_verdicts(spans).blocked = Len(b)
    BY <1>6, <1>9
  <1> HIDE DEF r, k
  <1>15. r \in Nat /\ k \in Nat /\ r <= Len(w) /\ k <= Len(b) /\ (Len(b) = 0 <=> k = 0) /\ r <= SAFETY_RULES /\ k <= r
    BY <1>11, <1>12, <1>13 DEF r, k, SAFETY_RULES
  <1> QED
    BY <1>11, <1>14, <1>15 DEF SAFETY_RULES

(***************************************************************************)
(* Of a turn with any number of spans no more rules have run than there    *)
(* are verdicts or rules, every check has passed exactly when none was     *)
(* blocked, a requirement is counted as it was scored last, and a turn     *)
(* scored twice counts as it did (safety_checks, guardrail_verdicts,       *)
(* policy_rules).                                                          *)
(***************************************************************************)
THEOREM CountsAlike ==
  ASSUME NEW R, IsFiniteSet(R), Cardinality(R) <= SAFETY_RULES, NEW V, NEW I, NEW T, NEW spans \in Seq(TurnSpans(R, V, I, T))
  PROVE  PagesCountAlike(spans)
  <1> DEFINE W == TurnSpans(R, V, I, T)
             L == Len(spans)
             twice == spans \o spans
  <1>1. L \in Nat /\ DOMAIN spans = 1..L /\ \A n \in 1..L : spans[n] \in W
    OBVIOUS
  <1>2. /\ twice \in Seq(W) /\ Len(twice) = L + L
        /\ \A n \in 1..L : twice[n] = spans[n] /\ twice[L + n] = spans[n]
    <2>1. \A n \in 1..(L + L) : twice[n] = IF n <= L THEN spans[n] ELSE spans[n - L]
      OBVIOUS
    <2>2. twice \in Seq(W) /\ Len(twice) = L + L
      OBVIOUS
    <2> HIDE DEF L, twice, W
    <2> QED
      BY <1>1, <2>1, <2>2
  <1> HIDE DEF twice, L, W
  <1>3. PICK s \in [BothRequirements -> T \cup {"absent"}] :
           /\ LastSaid(s, spans)
           /\ policy_rules(spans) = CountedStatuses(s)
    BY LastStatusCounts
  <1>2a. twice \in Seq(TurnSpans(R, V, I, T))
    BY <1>2 DEF W
  <1>4. PICK t \in [BothRequirements -> T \cup {"absent"}] :
           /\ LastSaid(t, twice)
           /\ policy_rules(twice) = CountedStatuses(t)
    BY <1>2a, LastStatusCounts
  <1>5. ASSUME NEW id \in BothRequirements PROVE s[id] = t[id]
    <2>1. CASE \A n \in 1..L : ~SpanSays(spans[n], id)
      <3>1. s[id] = "absent"
        BY <1>3, <2>1 DEF LastSaid, L
      <3>2. \A n \in 1..(L + L) : ~SpanSays(twice[n], id)
        <4> TAKE n \in 1..(L + L)
        <4>1. CASE n <= L
          BY <1>1, <1>2, <2>1, <4>1
        <4>2. CASE ~(n <= L)
          <5>1. n - L \in 1..L /\ L + (n - L) = n
            BY <1>1, <4>2
          <5> QED
            BY <1>2, <2>1, <5>1
        <4> QED
          BY <4>1, <4>2
      <3> QED
        BY <1>2, <1>4, <3>1, <3>2 DEF LastSaid
    <2>2. CASE \E n \in 1..L : SpanSays(spans[n], id)
      <3> DEFINE said == {n \in 1..L : SpanSays(spans[n], id)}
                 last == Max(said)
      <3>1. said \in SUBSET (0..L) /\ said # {}
        BY <1>1, <2>2
      <3>2. last \in said /\ \A x \in said : x <= last
        <4> HIDE DEF said
        <4> QED
          BY <1>1, <3>1, MaxIsGreatest
      <3> HIDE DEF last
      <3>3. last \in 1..L /\ SpanSays(spans[last], id)
        BY <3>2
      <3>4. \A m \in (last + 1)..L : ~SpanSays(spans[m], id)
        <4> TAKE m \in (last + 1)..L
        <4>1. m \in 1..L /\ ~(m <= last)
          BY <1>1, <3>3
        <4> QED
          BY <3>2, <4>1
      <3>5. s[id] = StatusIn(spans[last], id)
        BY <1>3, <3>3, <3>4 DEF LastSaid, L
      <3>6. L + last \in 1..(L + L) /\ twice[L + last] = spans[last]
        BY <1>1, <1>2, <3>3
      <3>7. \A m \in ((L + last) + 1)..(L + L) : ~SpanSays(twice[m], id)
        <4> TAKE m \in ((L + last) + 1)..(L + L)
        <4>1. m - L \in (last + 1)..L /\ m - L \in 1..L /\ L + (m - L) = m
          BY <1>1, <3>3
        <4> QED
          BY <1>2, <3>4, <4>1
      <3>8. t[id] = StatusIn(twice[L + last], id)
        BY <1>2, <1>4, <3>3, <3>6, <3>7 DEF LastSaid
      <3> QED
        BY <3>5, <3>6, <3>8
    <2> QED
      BY <2>1, <2>2
  <1>6. policy_rules(twice) = policy_rules(spans)
    <2>1. s = t
      BY <1>5
    <2> QED
      BY <1>3, <1>4, <2>1
  <1>7. safety_checks(twice) = safety_checks(spans)
    <2>1. ToSet(twice) = ToSet(spans)
      <3>1. ToSet(twice) = {twice[n] : n \in 1..(L + L)} /\ ToSet(spans) = {spans[n] : n \in 1..L}
        BY <1>1, <1>2, RangeIsFinite DEF L
      <3>2. \A n \in 1..L : n \in 1..(L + L)
        BY <1>1
      <3>3. \A n \in 1..(L + L) : \E m \in 1..L : twice[n] = spans[m]
        <4> TAKE n \in 1..(L + L)
        <4>1. CASE n <= L
          BY <1>1, <1>2, <4>1
        <4>2. CASE ~(n <= L)
          <5>1. n - L \in 1..L /\ L + (n - L) = n
            BY <1>1, <4>2
          <5> QED
            BY <1>2, <5>1
        <4> QED
          BY <4>1, <4>2
      <3> QED
        BY <1>2, <3>1, <3>2, <3>3
    <2> QED
      BY <2>1 DEF safety_checks
  <1> DEFINE met == {id \in BothRequirements : s[id] \in {"met"}}
             run == {id \in BothRequirements : s[id] \in {"met", "unmet"}}
  <1>8. /\ IsFiniteSet(met) /\ IsFiniteSet(run) /\ Cardinality(met) \in Nat /\ Cardinality(run) \in Nat
        /\ Cardinality(met) <= Cardinality(run)
        /\ (\E id \in run : id \notin met) => Cardinality(met) < Cardinality(run)
        /\ met # {} => Cardinality(met) >= 1
    <2>1. IsFiniteSet(BothRequirements)
      <3>1. IsFiniteSet({"r1"}) /\ IsFiniteSet({"r2"})
        BY FS_Singleton
      <3>2. IsFiniteSet({"r1"} \cup {"r2"})
        BY <3>1, FS_Union
      <3>3. BothRequirements = {"r1"} \cup {"r2"}
        BY DEF BothRequirements
      <3> QED
        BY <3>2, <3>3
    <2>2. met \subseteq run /\ run \subseteq BothRequirements
      OBVIOUS
    <2> HIDE DEF met, run
    <2>3. IsFiniteSet(run) /\ IsFiniteSet(met)
      BY <2>1, <2>2, FS_Subset
    <2>4. Cardinality(met) \in Nat /\ Cardinality(run) \in Nat /\ Cardinality(met) <= Cardinality(run)
      BY <2>2, <2>3, FS_Subset, FS_CardinalityType
    <2>5. Cardinality(met) = Cardinality(run) => met = run
      BY <2>2, <2>3, FS_Subset
    <2>6. met # {} => Cardinality(met) # 0
      BY <2>3, FS_EmptySet
    <2> QED
      BY <2>3, <2>4, <2>5, <2>6
  <1>9. policy_rules(spans).passed = Cardinality(met) /\ policy_rules(spans).ran = Cardinality(run)
    BY <1>3 DEF CountedStatuses
  <1>10. ASSUME NEW n \in DOMAIN spans, spans[n].kind = "tool_call",
                \A m \in (n + 1)..Len(spans) : spans[m].kind # "tool_call", NEW v, <<"r1", v>> \in spans[n].rows
         PROVE  s["r1"] = v
    <2>1. \A m \in 1..L : spans[m].kind # "tool_call" => spans[m].rows = {}
      BY <1>1 DEF W, TurnSpans
    <2>2. \A m \in (n + 1)..L : ~SpanSays(spans[m], "r1")
      <3> TAKE m \in (n + 1)..L
      <3>1. m \in 1..L
        BY <1>1
      <3> QED
        BY <1>10, <2>1, <3>1 DEF SpanSays, L
    <2>3. spans[n].rows \in Scorings(I, T)
      BY <1>1, <1>10 DEF W, TurnSpans
    <2>4. \A r \in spans[n].rows : r[1] = "r1" => r = <<"r1", v>>
      BY <1>10, <2>3 DEF Scorings
    <2>5. SpanSays(spans[n], "r1")
      BY <1>10 DEF SpanSays
    <2>6. StatusIn(spans[n], "r1") = v
      <3> DEFINE q == CHOOSE r \in spans[n].rows : r[1] = "r1"
      <3>1. q \in spans[n].rows /\ q[1] = "r1"
        BY <1>10
      <3> HIDE DEF q
      <3>2. q = <<"r1", v>>
        BY <2>4, <3>1
      <3>3. q[2] = v
        BY <3>2
      <3> QED
        BY <3>3 DEF StatusIn, q
    <2> QED
      BY <1>1, <1>3, <2>2, <2>5, <2>6 DEF LastSaid, L, BothRequirements
  <1>11. ASSUME NEW n \in DOMAIN spans, spans[n].kind = "tool_call",
                \A m \in (n + 1)..Len(spans) : spans[m].kind # "tool_call"
         PROVE  /\ <<"r1", "met">> \in spans[n].rows => policy_rules(spans).passed >= 1
                /\ <<"r1", "unmet">> \in spans[n].rows => policy_rules(spans).passed < policy_rules(spans).ran
    <2>1. <<"r1", "met">> \in spans[n].rows => met # {}
      <3>1. <<"r1", "met">> \in spans[n].rows => s["r1"] = "met"
        BY <1>10, <1>11
      <3> QED
        BY <3>1 DEF BothRequirements
    <2>2. <<"r1", "unmet">> \in spans[n].rows => "r1" \in run /\ "r1" \notin met
      <3>1. <<"r1", "unmet">> \in spans[n].rows => s["r1"] = "unmet"
        BY <1>10, <1>11
      <3> QED
        BY <3>1 DEF BothRequirements
    <2> HIDE DEF met, run
    <2> QED
      BY <1>8, <1>9, <2>1, <2>2
  <1> HIDE DEF met, run
  <1>12. policy_rules(spans).passed <= policy_rules(spans).ran
    BY <1>8, <1>9
  <1>13. LET checks == safety_checks(spans)
             verdicts == guardrail_verdicts(spans)
         IN  /\ checks.ran <= SAFETY_RULES /\ checks.ran <= verdicts.runs
             /\ 0 <= checks.passed /\ (verdicts.blocked = 0 <=> checks.passed = checks.ran)
             /\ checks.ran - checks.passed <= verdicts.blocked
    BY GuardrailsCount
  <1> QED
    BY <1>6, <1>7, <1>11, <1>12, <1>13 DEF PagesCountAlike, twice

-----------------------------------------------------------------------------
(* Pages: a turn as it is shown when it ends and when its page is loaded   *)
(* again.                                                                  *)
\* What a block may cite: what the turn noted, and what is no longer there.
CitedSources == {"known", "stale"}

\* A block as it may be given.
Sourced(Y, T) == [type : Y, text : T, cites : SUBSET CitedSources]

\* A block as it may be served: it cites what is known, and a fact cites something.
Fit(Y, T) == {b \in Sourced(Y \cup {"recommendation"}, T) : b.cites \subseteq {"known"} /\ (b.type = "policy_fact" => b.cites # {})}

\* _served leaves blocks that are fit, and not none of some.
LEMMA ServedAreFit ==
  ASSUME NEW Y, NEW T, NEW blocks \in Seq(Sourced(Y, T))
  PROVE  _served(blocks) \in Seq(Fit(Y, T)) /\ (blocks # <<>> => _served(blocks) # <<>>)
  <1> DEFINE N == Len(blocks)
             left(n) == [blocks[n] EXCEPT !.cites = @ \ {"stale"}]
             f == [n \in 1..N |-> IF left(n).type = "policy_fact" /\ left(n).cites = {} THEN <<>> ELSE <<left(n)>>]
             bare == [n \in 1..N |-> [blocks[n] EXCEPT !.type = "recommendation", !.cites = {}]]
             kept == FlattenSeq(f)
  <1>1. N \in Nat /\ DOMAIN blocks = 1..N /\ \A n \in 1..N : blocks[n] \in Sourced(Y, T)
    <2> DEFINE S == Sourced(Y, T)
    <2>1. blocks \in Seq(S)
      OBVIOUS
    <2> HIDE DEF S
    <2>2. N \in Nat /\ DOMAIN blocks = 1..N /\ \A n \in 1..N : blocks[n] \in S
      BY <2>1
    <2> QED
      BY <2>2 DEF S
  <1>2. _served(blocks) = IF kept # <<>> THEN kept ELSE bare
    BY <1>1 DEF _served
  <1>3. ASSUME NEW n \in 1..N
        PROVE  f[n] \in Seq(Fit(Y, T)) /\ bare[n] \in Fit(Y, T)
    <2>1. left(n) \in Sourced(Y \cup {"recommendation"}, T) /\ left(n).cites \subseteq {"known"}
      BY <1>1 DEF Sourced, CitedSources
    <2>2. bare[n] \in Sourced(Y \cup {"recommendation"}, T) /\ bare[n].cites = {} /\ bare[n].type = "recommendation"
      BY <1>1 DEF Sourced, CitedSources
    <2>3. f[n] = IF left(n).type = "policy_fact" /\ left(n).cites = {} THEN <<>> ELSE <<left(n)>>
      OBVIOUS
    <2>4. bare[n] \in Fit(Y, T)
      BY <2>2 DEF Fit
    <2> DEFINE b == left(n)
               S == Fit(Y, T)
               x == f[n]
    <2>5. ~(b.type = "policy_fact" /\ b.cites = {}) => b \in S
      BY <2>1 DEF Fit
    <2>6. x = IF b.type = "policy_fact" /\ b.cites = {} THEN <<>> ELSE <<b>>
      BY <2>3
    <2> HIDE DEF b, S, x
    <2>7. x \in Seq(S)
      BY <2>5, <2>6
    <2> QED
      BY <2>4, <2>7 DEF S, x
  <1> DEFINE S == Fit(Y, T)
  <1>4. f \in [1..N -> Seq(S)] /\ bare \in [1..N -> S]
    BY <1>3
  <1>5. blocks # <<>> => N > 0
    BY <1>1
  <1> HIDE DEF f, S, N, bare
  <1>6. kept \in Seq(S)
    BY <1>1, <1>4, FlattenSaysAll
  <1>7. bare \in Seq(S) /\ (N > 0 => bare # <<>>)
    BY <1>1, <1>4
  <1> HIDE DEF kept
  <1> QED
    BY <1>2, <1>5, <1>6, <1>7 DEF S

\* A block that cites nothing and is no policy fact is served as it is.
LEMMA ServedAsItIs ==
  ASSUME NEW text
  PROVE  _served(<<Block("notice", text, {})>>) = <<Block("notice", text, {})>>
  <1> DEFINE b == Block("notice", text, {})
             blocks == <<b>>
             left(n) == [blocks[n] EXCEPT !.cites = @ \ {"stale"}]
             f == [n \in DOMAIN blocks |-> IF left(n).type = "policy_fact" /\ left(n).cites = {} THEN <<>> ELSE <<left(n)>>]
  <1>1. b = [type |-> "notice", text |-> text, cites |-> {}] /\ [b EXCEPT !.cites = @ \ {"stale"}] = b /\ b.type # "policy_fact"
    BY DEF Block
  <1>2. _served(blocks) = IF FlattenSeq(f) # <<>> THEN FlattenSeq(f) ELSE [n \in DOMAIN blocks |-> [blocks[n] EXCEPT !.type = "recommendation", !.cites = {}]]
    BY DEF _served
  <1>3. f = <<<<b>>>>
    <2> HIDE DEF b
    <2>1. DOMAIN blocks = 1..1 /\ (\A i \in 1..1 : i = 1) /\ blocks[1] = b
      OBVIOUS
    <2>2. left(1) = b /\ ~(left(1).type = "policy_fact" /\ left(1).cites = {})
      BY <1>1, <2>1
    <2>3. \A i \in 1..1 : f[i] = <<b>>
      BY <2>1, <2>2
    <2>4. f = [i \in 1..1 |-> <<b>>]
      BY <2>1, <2>3
    <2> HIDE DEF f
    <2> QED
      BY <2>1, <2>4
  <1> HIDE DEF b, f
  <1>4. FlattenSeq(<<<<b>>>>) = <<b>>
    <2>1. <<b>> \in Seq({b})
      OBVIOUS
    <2> QED
      BY <2>1, FlattenOfOne
  <1> QED
    BY <1>2, <1>3, <1>4 DEF b

\* The steps a page shows of an answer: each said once and by no block.
ShownSteps(steps, response) ==
    /\ IsInjective(steps)
    /\ ToSet(steps) = IF response.outcome \in LABELLED_OUTCOMES THEN {}
                      ELSE {without_employee_ids(t) : t \in ToSet(response.next_steps)} \ {response.blocks[n].text : n \in DOMAIN response.blocks}

\* rendered_next_steps leaves those.
LEMMA StepsShown ==
  ASSUME NEW U, NEW response, response.next_steps \in Seq(U)
  PROVE  ShownSteps(rendered_next_steps(response), response)
  <1> DEFINE next == response.next_steps
             said == {response.blocks[n].text : n \in DOMAIN response.blocks}
             N == Len(next)
             bare == [n \in 1..N |-> without_employee_ids(next[n])]
             X == {without_employee_ids(t) : t \in U}
             K == {n \in 1..N : bare[n] \notin said /\ \A m \in 1..(n - 1) : bare[m] # bare[n]}
             f == [n \in 1..N |-> IF n \in K THEN <<bare[n]>> ELSE <<>>]
             out == FlattenSeq(f)
             steps == rendered_next_steps(response)
  <1>1. N \in Nat /\ DOMAIN next = 1..N /\ \A n \in 1..N : next[n] \in U
    OBVIOUS
  <1>2. steps = IF response.outcome \in LABELLED_OUTCOMES THEN <<>> ELSE out
    <2> DEFINE was == [n \in DOMAIN next |-> without_employee_ids(next[n])]
               new(n) == was[n] \notin said /\ \A m \in 1..(n - 1) : was[m] # was[n]
               h == [n \in DOMAIN was |-> IF new(n) THEN <<was[n]>> ELSE <<>>]
    <2>1. steps = IF response.outcome \in LABELLED_OUTCOMES THEN <<>> ELSE FlattenSeq(h)
      BY DEF rendered_next_steps
    <2>2. was = bare /\ DOMAIN was = 1..N
      BY <1>1
    <2>3. \A n \in 1..N : new(n) <=> n \in K
      BY <2>2
    <2> HIDE DEF new, K
    <2>4. h = f
      BY <2>2, <2>3
    <2> QED
      BY <2>1, <2>4
  <1>3. K \in SUBSET (1..N) /\ bare \in [1..N -> X]
    BY <1>1
  <1>4. \A n \in 1..N : n \in K <=> bare[n] \notin said /\ \A m \in 1..(n - 1) : bare[m] # bare[n]
    OBVIOUS
  <1>5. ToSet(<<>>) = {} /\ IsInjective(<<>>)
    BY DEF ToSet, IsInjective
  <1>6. {without_employee_ids(t) : t \in ToSet(next)} = {bare[n] : n \in 1..N}
    BY <1>1 DEF ToSet
  <1> HIDE DEF K, bare, X, N, next, said, steps
  <1>7. out \in Seq(X) /\ \E at : PickedBy(at, out, N, K, bare)
    BY <1>1, <1>3, FlattenPicks
  <1> HIDE DEF f, out
  <1>8. PICK at : PickedBy(at, out, N, K, bare)
    BY <1>7
  <1>9. Len(out) \in Nat /\ DOMAIN out = 1..Len(out) /\ ToSet(out) = {out[k] : k \in 1..Len(out)}
    BY <1>7 DEF ToSet
  <1>10. \A k \in 1..Len(out) : at[k] \in 1..N /\ at[k] \in K /\ out[k] = bare[at[k]]
    BY <1>3, <1>8 DEF PickedBy
  <1>11. \A j, k \in 1..Len(out) : j < k => out[j] # out[k]
    <2> TAKE j, k \in 1..Len(out)
    <2>1. SUFFICES ASSUME j < k PROVE out[j] # out[k]
      OBVIOUS
    <2>2. at[j] \in 1..(at[k] - 1)
      BY <1>1, <1>8, <1>10, <2>1 DEF PickedBy
    <2> QED
      BY <1>4, <1>10, <2>2
  <1>12. IsInjective(out)
    <2>1. \A j, k \in 1..Len(out) : j # k => j < k \/ k < j
      OBVIOUS
    <2>2. \A j, k \in DOMAIN out : out[j] = out[k] => j = k
      BY <1>9, <1>11, <2>1
    <2> QED
      BY <2>2 DEF IsInjective
  <1>13. ASSUME NEW n \in 1..N, bare[n] \notin said PROVE bare[n] \in ToSet(out)
    <2> DEFINE S == {m \in 1..N : bare[m] = bare[n]}
    <2>1. S \in SUBSET Nat /\ S # {}
      BY <1>1
    <2> DEFINE m == Min(S)
    <2>2. m \in S /\ \A x \in S : m <= x
      BY <2>1, MinIsLeast
    <2> HIDE DEF m
    <2>3. m \in 1..N /\ bare[m] = bare[n]
      BY <2>2
    <2>4. \A x \in 1..(m - 1) : x \in 1..N /\ ~(m <= x)
      BY <1>1, <2>3
    <2>5. \A x \in 1..(m - 1) : bare[x] # bare[m]
      BY <2>2, <2>3, <2>4
    <2>6. m \in K
      BY <1>4, <1>13, <2>3, <2>5
    <2>7. PICK k \in 1..Len(out) : at[k] = m
      BY <1>8, <2>6 DEF PickedBy
    <2> QED
      BY <1>9, <1>10, <2>3, <2>7
  <1>14. ToSet(out) = {bare[n] : n \in 1..N} \ said
    <2>1. ASSUME NEW x \in ToSet(out) PROVE x \in {bare[n] : n \in 1..N} \ said
      BY <1>4, <1>9, <1>10
    <2>2. ASSUME NEW x \in {bare[n] : n \in 1..N} \ said PROVE x \in ToSet(out)
      BY <1>13
    <2> QED
      BY <2>1, <2>2
  <1> QED
    BY <1>2, <1>5, <1>6, <1>12, <1>14 DEF ShownSteps, steps, next, said

\* What a question may be about.
AskedSlots == {"identity", "days"}

\* The slot a question was about is read off the question.
LEMMA SlotIsReadOff ==
  ASSUME NEW slots \in Seq(AskedSlots)
  PROVE  /\ SlotOf(slots) \in AskedSlots \cup {"fallback"} /\ (SlotOf(slots) = "identity" => "identity" \in ToSet(slots))
         /\ clarification_question(slots) \in {"who", "how many", "tell me more"}
         /\ clarify_slot_of(clarification_question(slots)) = SlotOf(slots)
  <1>1. slots # <<>> => Head(slots) \in AskedSlots /\ Head(slots) \in ToSet(slots)
    BY DEF ToSet
  <1>2. SlotOf(slots) \in {"identity", "days", "fallback"} /\ (SlotOf(slots) = "identity" => "identity" \in ToSet(slots))
    BY <1>1 DEF SlotOf, AskedSlots
  <1> DEFINE s == SlotOf(slots)
  <1> HIDE DEF s
  <1>5. CLARIFY_QUESTIONS["identity"] = "who" /\ CLARIFY_QUESTIONS["days"] = "how many" /\ CLARIFY_QUESTIONS["fallback"] = "tell me more"
    BY DEF CLARIFY_QUESTIONS
  <1>3. \A x \in {"identity", "days"} : CLARIFY_QUESTIONS[x] = CLARIFY_QUESTIONS[s] => x = s
    BY <1>2, <1>5 DEF s
  <1>4. clarify_slot_of(CLARIFY_QUESTIONS[s]) = s
    <2>1. CASE s = "fallback"
      BY <1>3, <2>1 DEF clarify_slot_of
    <2>2. CASE s \in {"identity", "days"}
      <3> DEFINE c == CHOOSE x \in {"identity", "days"} : CLARIFY_QUESTIONS[x] = CLARIFY_QUESTIONS[s]
      <3>1. c \in {"identity", "days"} /\ CLARIFY_QUESTIONS[c] = CLARIFY_QUESTIONS[s]
        BY <2>2
      <3>2. clarify_slot_of(CLARIFY_QUESTIONS[s]) = c
        BY <2>2 DEF clarify_slot_of
      <3> HIDE DEF c
      <3> QED
        BY <1>3, <3>1, <3>2
    <2> QED
      BY <1>2, <2>1, <2>2 DEF s
  <1> QED
    BY <1>2, <1>4, <1>5 DEF s, clarification_question, AskedSlots

\* The chips of a question are the same when they are made again.
LEMMA SameChips ==
  ASSUME NEW slots \in Seq(AskedSlots), NEW has_record \in BOOLEAN, has_record => "identity" \notin ToSet(slots)
  PROVE  LET slot == SlotOf(slots)
         IN  /\ clarify_chips(slot, slot # "identity") = clarify_chips(slot, has_record)
             /\ ~has_record => clarify_chips(slot, has_record) \cap NEEDS_A_RECORD = {}
  <1>1. SlotOf(slots) \in {"identity", "days", "fallback"} /\ (SlotOf(slots) = "identity" => "identity" \in ToSet(slots))
    BY SlotIsReadOff DEF AskedSlots
  <1> DEFINE s == SlotOf(slots)
  <1> HIDE DEF s
  <1>3. CLARIFY_CHIPS["days"] = {"three days", "one day"} /\ CLARIFY_CHIPS["fallback"] = {"my time off", "working elsewhere"}
    BY DEF CLARIFY_CHIPS
  <1>2. s \in {"days", "fallback"} => CLARIFY_CHIPS[s] \ NEEDS_A_RECORD = CLARIFY_CHIPS[s]
    BY <1>3 DEF NEEDS_A_RECORD
  <1> QED
    BY <1>1, <1>2 DEF s, clarify_chips

\* The kinds of line of a stored answer.
LineKinds == {"text", "lead", "bullet"}

\* A line of it.
Lined(X) == [line : LineKinds, text : X]

\* The places of the lines that lead a section of steps.
Leads(lines) == {n \in DOMAIN lines : lines[n].line = "lead"}

\* The last of them, or 0.
LEMMA LastLead ==
  ASSUME NEW X, NEW lines \in Seq(Lined(X))
  PROVE  /\ Max(Leads(lines) \cup {0}) \in 0..Len(lines)
         /\ \A n \in Leads(lines) : n <= Max(Leads(lines) \cup {0})
         /\ Max(Leads(lines) \cup {0}) \in Leads(lines) \cup {0}
  <1> DEFINE S == Leads(lines) \cup {0}
             T == Lined(X)
  <1>1. Len(lines) \in Nat /\ DOMAIN lines = 1..Len(lines)
    <2> HIDE DEF T
    <2>1. lines \in Seq(T)
      BY DEF T
    <2> QED
      BY <2>1
  <1>2. S \in SUBSET (0..Len(lines)) /\ S # {}
    BY <1>1 DEF Leads
  <1> HIDE DEF S
  <1>3. Max(S) \in S /\ \A x \in S : x <= Max(S)
    BY <1>1, <1>2, MaxIsGreatest
  <1> QED
    BY <1>2, <1>3 DEF S

\* What is read off an answer's lines are texts of it.
LEMMA ParsedTexts ==
  ASSUME NEW X, NEW lines \in Seq(Lined(X))
  PROVE  parse_next_steps(lines) \in Seq(X) /\ (Leads(lines) = {} => parse_next_steps(lines) = <<>>)
  <1> DEFINE last == Max(Leads(lines) \cup {0})
             N == Len(lines)
             tail == SubSeq(lines, last + 1, N)
             steps == Filter(tail, LAMBDA l : l.line = "bullet")
             T == Lined(X)
  <1>1. parse_next_steps(lines) = IF Leads(lines) = {} THEN <<>> ELSE [n \in DOMAIN steps |-> steps[n].text]
    BY DEF parse_next_steps, Leads
  <1>2. last \in 0..N /\ N \in Nat
    <2> HIDE DEF T
    <2>1. lines \in Seq(T)
      BY DEF T
    <2>2. Max(Leads(lines) \cup {0}) \in 0..Len(lines)
      BY LastLead
    <2>3. Len(lines) \in Nat
      BY <2>1
    <2> QED
      BY <2>2, <2>3
  <1> HIDE DEF last
  <1>3. tail \in Seq(T)
    <2> HIDE DEF T
    <2>1. \A i \in (last + 1)..N : lines[i] \in T
      <3>1. lines \in Seq(T)
        BY DEF T
      <3> QED
        BY <1>2, <3>1
    <2>2. last + 1 \in Int /\ N \in Int
      BY <1>2
    <2> HIDE DEF N
    <2> QED
      BY <2>1, <2>2, SubSeqProperties
  <1> HIDE DEF tail
  <1> DEFINE f == [i \in 1..Len(tail) |-> IF tail[i].line = "bullet" THEN <<tail[i]>> ELSE <<>>]
  <1>4. steps \in Seq(T)
    <2>1. steps = FlattenSeq(f)
      <3> HIDE DEF T
      <3>1. DOMAIN tail = 1..Len(tail)
        BY <1>3
      <3> QED
        BY <3>1 DEF Filter
    <2> HIDE DEF T, steps
    <2>2. Len(tail) \in Nat /\ \A i \in 1..Len(tail) : tail[i] \in T
      BY <1>3
    <2>3. f \in [1..Len(tail) -> Seq(T)]
      BY <2>2
    <2> HIDE DEF f
    <2>4. FlattenSeq(f) \in Seq(T)
      BY <2>2, <2>3, FlattenSaysAll
    <2> QED
      BY <2>1, <2>4
  <1> HIDE DEF steps
  <1>5. [n \in DOMAIN steps |-> steps[n].text] \in Seq(X)
    <2>1. Len(steps) \in Nat /\ DOMAIN steps = 1..Len(steps) /\ \A n \in 1..Len(steps) : steps[n] \in T
      <3> HIDE DEF T
      <3> QED
        BY <1>4
    <2>2. \A n \in 1..Len(steps) : steps[n].text \in X
      BY <2>1 DEF Lined
    <2> QED
      BY <2>1, <2>2
  <1> QED
    BY <1>1, <1>5

\* To keep all entries is to keep the sequence.
LEMMA AllKept ==
  ASSUME NEW T, NEW s \in Seq(T)
  PROVE  FlattenSeq([i \in DOMAIN s |-> <<s[i]>>]) = s
  <1> DEFINE n == Len(s)
             f == [i \in 1..n |-> <<s[i]>>]
  <1>1. n \in Nat /\ DOMAIN s = 1..n /\ \A i \in 1..n : s[i] \in T
    OBVIOUS
  <1>2. f \in [1..n -> Seq(T)] /\ \A i \in 1..n : f[i] = <<s[i]>>
    BY <1>1
  <1>3. FlattenSeq([i \in DOMAIN s |-> <<s[i]>>]) = FlattenSeq(f)
    BY <1>1
  <1> HIDE DEF f, n
  <1>4. PICK g \in [0..n -> Seq(T)] : /\ g[0] = <<>>
                                      /\ \A i \in 1..n : g[i] = g[i - 1] \o f[i]
                                      /\ FlattenSeq(f) = g[n]
    BY <1>1, <1>2, FlattenIsALoop
  <1> DEFINE Same(m) == Len(g[m]) = m /\ \A j \in 1..m : g[m][j] = s[j]
             S == {m \in 0..n : Same(m)}
  <1>5. 0 \in S
    BY <1>1, <1>4
  <1>6. ASSUME NEW m \in (0 + 1)..n, m - 1 \in S PROVE m \in S
    <2>1. m \in 1..n /\ m - 1 \in 0..n /\ m \in 0..n
      BY <1>1
    <2>2. g[m - 1] \in Seq(T) /\ g[m] = g[m - 1] \o <<s[m]>> /\ s[m] \in T
      BY <1>1, <1>2, <1>4, <2>1
    <2> DEFINE a == g[m - 1]
               x == s[m]
               b == a \o <<x>>
    <2>3. Len(a) = m - 1 /\ \A j \in 1..(m - 1) : a[j] = s[j]
      BY <1>6
    <2>4. a \in Seq(T) /\ x \in T
      BY <2>2
    <2> HIDE DEF a, x, S
    <2>5. Len(b) = m /\ b[m] = x /\ \A j \in 1..(m - 1) : b[j] = a[j]
      <3> DEFINE k == Len(a)
      <3>1. k \in Nat /\ Len(a \o <<x>>) = k + 1 /\ (a \o <<x>>)[k + 1] = x /\ \A j \in 1..k : (a \o <<x>>)[j] = a[j]
        BY <2>4
      <3>2. k = m - 1 /\ m \in Int
        BY <2>1, <2>3
      <3>3. k + 1 = m
        BY <3>2
      <3> HIDE DEF k
      <3> QED
        BY <3>1, <3>2, <3>3
    <2> HIDE DEF b
    <2>6. \A j \in 1..m : j \in 1..(m - 1) \/ j = m
      BY <2>1
    <2>7. \A j \in 1..m : b[j] = s[j]
      BY <2>3, <2>5, <2>6 DEF x
    <2>8. g[m] = b
      BY <2>2 DEF a, b, x
    <2> QED
      BY <2>1, <2>5, <2>7, <2>8 DEF S
  <1> HIDE DEF S
  <1>7. 0 \in Int /\ n \in Int /\ n \in 0..n
    BY <1>1
  <1>8. n \in S
    BY <1>5, <1>6, <1>7, UpFromTheFirst
  <1>9. g[n] \in Seq(T) /\ Len(g[n]) = n /\ \A j \in 1..n : g[n][j] = s[j]
    BY <1>4, <1>7, <1>8 DEF S
  <1>10. g[n] = s
    <2> DEFINE a == g[n]
    <2>1. a \in Seq(T) /\ Len(a) = n /\ \A j \in 1..n : a[j] = s[j]
      BY <1>9
    <2> HIDE DEF a
    <2>2. a = [j \in 1..n |-> a[j]] /\ s = [j \in 1..n |-> s[j]]
      BY <1>1, <2>1
    <2>3. a = s
      BY <2>1, <2>2
    <2> QED
      BY <2>3 DEF a
  <1> QED
    BY <1>3, <1>4, <1>10

\* The steps are the bullets of the last section.
LEMMA LastSection ==
  ASSUME NEW X, NEW lines \in Seq(Lined(X)), NEW p \in 1..Len(lines), lines[p].line = "lead",
         \A j \in (p + 1)..Len(lines) : lines[j].line = "bullet"
  PROVE  parse_next_steps(lines) = [n \in 1..(Len(lines) - p) |-> lines[p + n].text]
  <1> DEFINE last == Max(Leads(lines) \cup {0})
             N == Len(lines)
             tail == SubSeq(lines, last + 1, N)
             steps == Filter(tail, LAMBDA l : l.line = "bullet")
             T == Lined(X)
  <1>1. parse_next_steps(lines) = IF Leads(lines) = {} THEN <<>> ELSE [n \in DOMAIN steps |-> steps[n].text]
    BY DEF parse_next_steps, Leads
  <1>2. N \in Nat /\ DOMAIN lines = 1..N /\ \A i \in 1..N : lines[i] \in T
    <2> HIDE DEF T
    <2>1. lines \in Seq(T)
      BY DEF T
    <2> QED
      BY <2>1
  <1>3. last = p /\ p \in Leads(lines)
    <2>1. p \in Leads(lines)
      BY <1>2 DEF Leads
    <2>2. last \in 0..N /\ p <= last /\ last \in Leads(lines) \cup {0}
      <3> HIDE DEF last
      <3> QED
        BY <2>1, LastLead DEF last
    <2>3. ~(last \in (p + 1)..N)
      <3> HIDE DEF last
      <3>1. 0 \notin (p + 1)..N
        BY <1>2
      <3>2. \A j \in (p + 1)..N : j \notin Leads(lines)
        BY DEF Leads
      <3> QED
        BY <2>2, <3>1, <3>2
    <2> HIDE DEF last
    <2> QED
      BY <1>2, <2>1, <2>2, <2>3
  <1> HIDE DEF last, T
  <1>4. tail \in Seq(T) /\ Len(tail) = N - p /\ \A i \in 1..(N - p) : tail[i] = lines[p + i]
    <2> DEFINE lo == p + 1
    <2>1. \A i \in lo..N : lines[i] \in T
      BY <1>2
    <2>2. lo \in Int /\ N \in Int
      BY <1>2
    <2>3. tail = SubSeq(lines, lo, N)
      BY <1>3
    <2> HIDE DEF lo, tail
    <2>4. /\ tail \in Seq(T) /\ Len(tail) = (IF lo <= N THEN N - lo + 1 ELSE 0)
          /\ \A i \in 1..(N - lo + 1) : tail[i] = lines[lo + i - 1]
      BY <2>1, <2>2, <2>3, SubSeqProperties
    <2>5. Len(tail) = N - p
      <3>1. p \in Int /\ p <= N /\ N \in Int
        BY <1>2
      <3> HIDE DEF N
      <3>2. (IF lo <= N THEN N - lo + 1 ELSE 0) = N - p
        BY <3>1 DEF lo
      <3> QED
        BY <2>4, <3>2
    <2>6. \A i \in 1..(N - p) : i \in 1..(N - lo + 1) /\ lo + i - 1 = p + i
      BY <1>2 DEF lo
    <2> QED
      BY <2>4, <2>5, <2>6
  <1> HIDE DEF tail
  <1>5. steps = tail
    <2>1. DOMAIN tail = 1..(N - p)
      BY <1>4
    <2>2. \A i \in 1..(N - p) : tail[i].line = "bullet"
      <3>1. \A i \in 1..(N - p) : p + i \in (p + 1)..N
        BY <1>2
      <3> QED
        BY <1>4, <3>1
    <2>3. steps = FlattenSeq([i \in DOMAIN tail |-> IF tail[i].line = "bullet" THEN <<tail[i]>> ELSE <<>>])
      BY DEF Filter
    <2>4. [i \in DOMAIN tail |-> IF tail[i].line = "bullet" THEN <<tail[i]>> ELSE <<>>] = [i \in DOMAIN tail |-> <<tail[i]>>]
      BY <2>1, <2>2
    <2> HIDE DEF steps
    <2> QED
      BY <1>4, <2>3, <2>4, AllKept
  <1> HIDE DEF steps
  <1>6. [n \in DOMAIN steps |-> steps[n].text] = [n \in 1..(N - p) |-> lines[p + n].text]
    <2>1. DOMAIN tail = 1..(N - p)
      BY <1>2, <1>4
    <2> QED
      BY <1>4, <1>5, <2>1
  <1> QED
    BY <1>1, <1>3, <1>6

\* The texts a stored answer may have of texts X.
WrittenTexts(X) == X \cup {"", "other"}

\* The lines of the blocks.
BodyOf(blocks) == FlattenSeq([n \in DOMAIN blocks |-> TextLines(blocks[n].text)])

\* Lines, redacted.
RedactedIn(lines) == [n \in DOMAIN lines |-> [lines[n] EXCEPT !.text = Redacted(@)]]

\* The lines of an answer as they are stored.
StoredLines(blocks, steps) == RedactedIn(render_answer(blocks, steps))

\* Texts, redacted.
RedactedTexts(X) == {Redacted(t) : t \in X}

\* The entries of two sequences, one after the other.
LEMMA ConcatEntries ==
  ASSUME NEW T, NEW q \in Seq(T), NEW r \in Seq(T)
  PROVE  /\ q \o r \in Seq(T) /\ Len(q) \in Nat /\ Len(r) \in Nat /\ Len(q \o r) = Len(q) + Len(r)
         /\ \A i \in 1..Len(q) : (q \o r)[i] = q[i]
         /\ \A i \in 1..Len(r) : (q \o r)[Len(q) + i] = r[i]
  OBVIOUS

\* A sequence of one entry.
LEMMA OneEntry ==
  ASSUME NEW T, NEW x \in T
  PROVE  <<x>> \in Seq(T) /\ Len(<<x>>) = 1 /\ <<x>>[1] = x
  OBVIOUS

\* q is the texts, as lines of one kind.
AreLines(q, kind, X, texts) ==
    /\ q \in Seq([line : {kind}, text : X])
    /\ Len(q) = Len(texts)
    /\ \A n \in 1..Len(texts) : q[n].line = kind /\ q[n].text = texts[n]
    /\ kind \in LineKinds => q \in Seq(Lined(X))

\* Lines writes them.
LEMMA LinesOf ==
  ASSUME NEW kind, NEW X, NEW texts \in Seq(X)
  PROVE  AreLines(Lines(kind, texts), kind, X, texts)
  <1> DEFINE N == Len(texts)
             q == Lines(kind, texts)
  <1>1. N \in Nat /\ DOMAIN texts = 1..N /\ \A n \in 1..N : texts[n] \in X
    OBVIOUS
  <1>2. q = [n \in 1..N |-> [line |-> kind, text |-> texts[n]]]
    BY <1>1 DEF Lines
  <1> HIDE DEF q, N
  <1>3. \A n \in 1..N : q[n] \in [line : {kind}, text : X] /\ (kind \in LineKinds => q[n] \in Lined(X))
    BY <1>1, <1>2 DEF Lined
  <1> DEFINE A == [line : {kind}, text : X]
             B == Lined(X)
  <1> HIDE DEF A, B
  <1>4. \A n \in 1..N : q[n] \in A /\ (kind \in LineKinds => q[n] \in B)
    BY <1>3 DEF A, B
  <1>5. q \in Seq(A) /\ (kind \in LineKinds => q \in Seq(B)) /\ Len(q) = N
    BY <1>1, <1>2, <1>4
  <1>6. \A n \in 1..N : q[n].line = kind /\ q[n].text = texts[n]
    BY <1>2
  <1> QED
    BY <1>1, <1>2, <1>5, <1>6 DEF q, A, B, N, AreLines

\* A block's text is text, unless it reads like a section of steps.
LEMMA TextLinesOf ==
  ASSUME NEW X, NEW text \in X
  PROVE  /\ TextLines(text) \in Seq(Lined(WrittenTexts(X)))
         /\ text # "steps" => TextLines(text) \in Seq([line : {"text"}, text : X])
  <1> DEFINE T == Lined(WrittenTexts(X))
             A == [line : {"text"}, text : X]
  <1>1. <<"">> \in Seq(WrittenTexts(X)) /\ <<"other">> \in Seq(WrittenTexts(X)) /\ <<text>> \in Seq(WrittenTexts(X)) /\ <<text>> \in Seq(X)
    <2> DEFINE W == WrittenTexts(X)
    <2>1. "" \in W /\ "other" \in W /\ text \in W
      BY DEF WrittenTexts
    <2> HIDE DEF W
    <2>2. <<"">> \in Seq(W) /\ <<"other">> \in Seq(W) /\ <<text>> \in Seq(W) /\ <<text>> \in Seq(X)
      BY <2>1, OneEntry
    <2> QED
      BY <2>2 DEF W
  <1>2. /\ AreLines(Lines("lead", <<"">>), "lead", WrittenTexts(X), <<"">>)
        /\ AreLines(Lines("bullet", <<"other">>), "bullet", WrittenTexts(X), <<"other">>)
        /\ AreLines(Lines("text", <<text>>), "text", WrittenTexts(X), <<text>>)
        /\ AreLines(Lines("text", <<text>>), "text", X, <<text>>)
    BY <1>1, LinesOf
  <1>3. /\ Lines("lead", <<"">>) \in Seq(T) /\ Lines("bullet", <<"other">>) \in Seq(T) /\ Lines("text", <<text>>) \in Seq(T)
        /\ Lines("text", <<text>>) \in Seq(A)
    BY <1>2 DEF AreLines, LineKinds
  <1> HIDE DEF T, A
  <1>4. Lines("lead", <<"">>) \o Lines("bullet", <<"other">>) \in Seq(T)
    <2> DEFINE q == Lines("lead", <<"">>)
               r == Lines("bullet", <<"other">>)
    <2>1. q \in Seq(T) /\ r \in Seq(T)
      BY <1>3
    <2> HIDE DEF q, r
    <2>2. q \o r \in Seq(T)
      BY <2>1
    <2> QED
      BY <2>2 DEF q, r
  <1> QED
    BY <1>3, <1>4 DEF TextLines, T, A

\* So are the texts of the blocks.
LEMMA BodyLines ==
  ASSUME NEW X, NEW N \in Nat, NEW blocks, DOMAIN blocks = 1..N, \A n \in 1..N : blocks[n].text \in X
  PROVE  /\ BodyOf(blocks) \in Seq(Lined(WrittenTexts(X)))
         /\ (\A n \in 1..N : blocks[n].text # "steps") => BodyOf(blocks) \in Seq([line : {"text"}, text : X])
  <1> DEFINE T == Lined(WrittenTexts(X))
             A == [line : {"text"}, text : X]
             f == [n \in 1..N |-> TextLines(blocks[n].text)]
  <1>1. BodyOf(blocks) = FlattenSeq(f)
    BY DEF BodyOf
  <1>2. \A n \in 1..N : TextLines(blocks[n].text) \in Seq(T)
    BY TextLinesOf
  <1>3. (\A n \in 1..N : blocks[n].text # "steps") => \A n \in 1..N : TextLines(blocks[n].text) \in Seq(A)
    BY TextLinesOf
  <1> HIDE DEF T, A
  <1>4. f \in [1..N -> Seq(T)] /\ ((\A n \in 1..N : blocks[n].text # "steps") => f \in [1..N -> Seq(A)])
    BY <1>2, <1>3
  <1> HIDE DEF f
  <1>5. FlattenSeq(f) \in Seq(T)
    BY <1>4, FlattenSaysAll
  <1>6. f \in [1..N -> Seq(A)] => FlattenSeq(f) \in Seq(A)
    BY FlattenSaysAll
  <1> QED
    BY <1>1, <1>4, <1>5, <1>6 DEF T, A

\* Redaction leaves lines of the same kinds.
LEMMA RedactedLines ==
  ASSUME NEW X, NEW lines \in Seq(Lined(X))
  PROVE  /\ RedactedIn(lines) \in Seq(Lined(RedactedTexts(X))) /\ Len(RedactedIn(lines)) = Len(lines)
         /\ \A n \in 1..Len(lines) : RedactedIn(lines)[n].line = lines[n].line /\ RedactedIn(lines)[n].text = Redacted(lines[n].text)
  <1> DEFINE N == Len(lines)
             stored == RedactedIn(lines)
             S == Lined(X)
             T == Lined(RedactedTexts(X))
  <1>1. N \in Nat /\ DOMAIN lines = 1..N /\ \A n \in 1..N : lines[n] \in S
    <2> HIDE DEF S
    <2>1. lines \in Seq(S)
      BY DEF S
    <2> QED
      BY <2>1
  <1>2. \A n \in 1..N : /\ stored[n] \in T
                        /\ stored[n].line = lines[n].line /\ stored[n].text = Redacted(lines[n].text)
    BY <1>1 DEF RedactedTexts, RedactedIn, Lined
  <1>3. stored = [n \in 1..N |-> stored[n]]
    BY <1>1 DEF RedactedIn
  <1> HIDE DEF S, T, N, stored
  <1>4. stored \in Seq(T) /\ Len(stored) = N
    BY <1>1, <1>2, <1>3
  <1> QED
    BY <1>2, <1>4 DEF T, N, stored

\* The steps a row of the older schema gives back.
LEMMA RowSteps ==
  ASSUME NEW X, NEW N \in Nat, NEW blocks, DOMAIN blocks = 1..N, \A n \in 1..N : blocks[n].text \in X,
         NEW steps \in Seq(X)
  PROVE  /\ parse_next_steps(StoredLines(blocks, steps)) \in Seq(RedactedTexts(WrittenTexts(X)))
         /\ steps # <<>> \/ (\A n \in 1..N : blocks[n].text # "steps") =>
               parse_next_steps(StoredLines(blocks, steps)) = RedactedAll(steps)
  <1> DEFINE W == WrittenTexts(X)
             T == Lined(W)
             body == BodyOf(blocks)
             section == Lines("lead", <<"">>) \o Lines("bullet", steps)
             lines == render_answer(blocks, steps)
             stored == StoredLines(blocks, steps)
             b == Len(body)
             k == Len(steps)
  <1>1. lines = body \o (IF steps = <<>> THEN <<>> ELSE section)
    BY DEF render_answer, BodyOf
  <1>2. stored = RedactedIn(lines)
    BY DEF StoredLines
  <1>3. body \in Seq(T)
    BY BodyLines
  <1>4. k \in Nat /\ DOMAIN steps = 1..k /\ \A n \in 1..k : steps[n] \in X
    OBVIOUS
  <1>5. /\ Lines("lead", <<"">>) \in Seq(T) /\ Len(Lines("lead", <<"">>)) = 1
        /\ Lines("lead", <<"">>)[1].line = "lead"
    <2>1. <<"">> \in Seq(W) /\ Len(<<"">>) = 1 /\ 1 \in 1..1
      <3>1. "" \in W
        BY DEF WrittenTexts
      <3> HIDE DEF W
      <3>2. <<"">> \in Seq(W)
        BY ONLY <3>1, OneEntry
      <3>3. Len(<<"">>) = 1 /\ 1 \in 1..1
        OBVIOUS
      <3> QED
        BY <3>2, <3>3
    <2> HIDE DEF W
    <2>2. AreLines(Lines("lead", <<"">>), "lead", W, <<"">>)
      BY <2>1, LinesOf
    <2> QED
      BY <2>1, <2>2 DEF AreLines, LineKinds
  <1>6. /\ Lines("bullet", steps) \in Seq(T) /\ Len(Lines("bullet", steps)) = k
        /\ \A n \in 1..k : Lines("bullet", steps)[n].line = "bullet" /\ Lines("bullet", steps)[n].text = steps[n]
    <2>1. steps \in Seq(W)
      <3>1. \A n \in 1..k : steps[n] \in W
        BY <1>4 DEF WrittenTexts
      <3>2. steps = [n \in 1..k |-> steps[n]]
        BY <1>4
      <3> HIDE DEF W, k
      <3> QED
        BY <1>4, <3>1, <3>2
    <2> HIDE DEF W
    <2>2. AreLines(Lines("bullet", steps), "bullet", W, steps)
      BY <2>1, LinesOf
    <2> QED
      BY <2>2 DEF AreLines, LineKinds
  <1> DEFINE lead == Lines("lead", <<"">>)
             bullets == Lines("bullet", steps)
  <1>7. T = [line : LineKinds, text : W]
    BY DEF Lined
  <1> HIDE DEF T, body, lines, stored, lead, bullets, W, k
  <1>8. /\ section \in Seq(T) /\ Len(section) = k + 1 /\ section[1] = lead[1]
        /\ \A n \in 1..k : section[n + 1] = bullets[n]
    <2>1. section = lead \o bullets
      BY DEF lead, bullets
    <2>2. lead \in Seq(T) /\ bullets \in Seq(T) /\ Len(lead) = 1 /\ Len(bullets) = k
      BY <1>5, <1>6 DEF lead, bullets
    <2>3. \A n \in 1..k : n + 1 \in 1..(k + 1) /\ ~(n + 1 <= 1) /\ (n + 1) - 1 = n
      BY <1>4
    <2> HIDE DEF section
    <2>4. /\ section \in Seq(T) /\ Len(section) = Len(lead) + Len(bullets)
          /\ \A i \in 1..Len(lead) : section[i] = lead[i]
          /\ \A i \in 1..Len(bullets) : section[Len(lead) + i] = bullets[i]
      <3> HIDE DEF b
      <3>1. /\ lead \o bullets \in Seq(T) /\ Len(lead \o bullets) = Len(lead) + Len(bullets)
            /\ \A i \in 1..Len(lead) : (lead \o bullets)[i] = lead[i]
            /\ \A i \in 1..Len(bullets) : (lead \o bullets)[Len(lead) + i] = bullets[i]
        <4>1. lead \in Seq(T) /\ bullets \in Seq(T)
          BY <2>2
        <4> QED
          BY ONLY <4>1, ConcatEntries
      <3> QED
        BY ONLY <2>1, <3>1
    <2>5. 1 \in 1..Len(lead) /\ 1 + k = k + 1 /\ \A n \in 1..k : 1 + n = n + 1
      BY <1>4, <2>2
    <2>6. \A n \in 1..k : section[1 + n] = bullets[n]
      BY <2>2, <2>4
    <2> QED
      BY <2>2, <2>4, <2>5, <2>6
  <1> HIDE DEF section
  <1>9. lines \in Seq(T) /\ b \in Nat
    BY <1>1, <1>3, <1>8
  <1>10. /\ stored \in Seq(Lined(RedactedTexts(W))) /\ Len(stored) = Len(lines)
         /\ \A n \in 1..Len(lines) : stored[n].line = lines[n].line /\ stored[n].text = Redacted(lines[n].text)
    <2>1. lines \in Seq(Lined(W))
      BY <1>9 DEF T
    <2>2. /\ RedactedIn(lines) \in Seq(Lined(RedactedTexts(W))) /\ Len(RedactedIn(lines)) = Len(lines)
          /\ \A n \in 1..Len(lines) : RedactedIn(lines)[n].line = lines[n].line /\ RedactedIn(lines)[n].text = Redacted(lines[n].text)
      BY ONLY <2>1, RedactedLines
    <2> QED
      BY ONLY <1>2, <2>2
  <1>11. parse_next_steps(stored) \in Seq(RedactedTexts(W)) /\ (Leads(stored) = {} => parse_next_steps(stored) = <<>>)
    BY <1>10, ParsedTexts
  <1>12. CASE steps # <<>>
    <2> DEFINE p == b + 1
    <2>1. Len(lines) = b + (k + 1) /\ lines[p] = section[1] /\ \A n \in 1..k : lines[p + n] = section[n + 1]
      <3>1. lines = body \o section
        BY <1>1, <1>12
      <3>2. Len(lines) = b + Len(section) /\ \A i \in 1..Len(section) : lines[b + i] = section[i]
        <4>1. /\ Len(body \o section) = Len(body) + Len(section)
              /\ \A i \in 1..Len(section) : (body \o section)[Len(body) + i] = section[i]
          <5>1. body \in Seq(T) /\ section \in Seq(T)
            BY <1>3, <1>8
          <5> QED
            BY ONLY <5>1, ConcatEntries
        <4> QED
          BY ONLY <3>1, <4>1 DEF b
      <3>3. 1 \in 1..Len(section) /\ \A n \in 1..k : n + 1 \in 1..Len(section) /\ p + n = b + (n + 1)
        BY <1>4, <1>8, <1>9
      <3> HIDE DEF b
      <3>4. \A n \in 1..k : lines[p + n] = section[n + 1]
        BY <3>2, <3>3
      <3> QED
        BY <1>8, <3>2, <3>3, <3>4
    <2>2. p \in 1..Len(lines) /\ Len(lines) - p = k
      BY <1>4, <1>9, <2>1
    <2>3. stored[p].line = "lead"
      BY <1>5, <1>8, <1>10, <2>1, <2>2 DEF lead
    <2>4. \A n \in 1..k : p + n \in 1..Len(lines) /\ stored[p + n].line = "bullet" /\ stored[p + n].text = Redacted(steps[n])
      <3> TAKE n \in 1..k
      <3>1. p + n \in 1..Len(lines)
        BY <1>4, <1>9, <2>1
      <3>2. lines[p + n].line = "bullet" /\ lines[p + n].text = steps[n]
        <4>1. lines[p + n] = section[n + 1]
          BY ONLY <2>1
        <4> HIDE DEF lines, section, bullets, p
        <4>2. section[n + 1] = bullets[n]
          BY <1>8
        <4>3. bullets[n].line = "bullet" /\ bullets[n].text = steps[n]
          BY <1>6 DEF bullets, k
        <4> QED
          BY ONLY <4>1, <4>2, <4>3
      <3> QED
        BY <1>10, <3>1, <3>2
    <2>5. \A j \in (p + 1)..Len(stored) : stored[j].line = "bullet"
      <3> TAKE j \in (p + 1)..Len(stored)
      <3>1. j - p \in 1..k /\ p + (j - p) = j
        BY <1>4, <1>9, <1>10, <2>1
      <3> HIDE DEF p
      <3> QED
        BY <2>4, <3>1
    <2> HIDE DEF p
    <2>6. parse_next_steps(stored) = [n \in 1..(Len(stored) - p) |-> stored[p + n].text]
      BY <1>10, <2>2, <2>3, <2>5, LastSection
    <2>7. [n \in 1..(Len(stored) - p) |-> stored[p + n].text] = [n \in 1..k |-> Redacted(steps[n])]
      BY <1>10, <2>2, <2>4
    <2>8. RedactedAll(steps) = [n \in 1..k |-> Redacted(steps[n])]
      BY <1>4 DEF RedactedAll
    <2> QED
      BY <1>11, <2>6, <2>7, <2>8 DEF stored, W
  <1>13. CASE steps = <<>> /\ \A n \in 1..N : blocks[n].text # "steps"
    <2>1. body \in Seq([line : {"text"}, text : X])
      BY <1>13, BodyLines DEF body
    <2>2. lines = body
      <3>1. lines = body \o <<>>
        BY <1>1, <1>13
      <3> QED
        BY <1>3, <3>1
    <2> DEFINE A == [line : {"text"}, text : X]
    <2>3. \A n \in 1..Len(lines) : lines[n] \in A
      <3> HIDE DEF A
      <3>1. body \in Seq(A)
        BY <2>1 DEF A
      <3> QED
        BY <2>2, <3>1
    <2>4. \A n \in 1..Len(stored) : stored[n].line = "text"
      BY <1>10, <2>3
    <2>5. DOMAIN stored = 1..Len(stored)
      <3> DEFINE V == Lined(RedactedTexts(W))
      <3>1. stored \in Seq(V)
        BY <1>10
      <3> HIDE DEF V
      <3> QED
        BY <3>1
    <2>6. Leads(stored) = {}
      BY <2>4, <2>5 DEF Leads
    <2>7. RedactedAll(steps) = <<>>
      BY <1>13 DEF RedactedAll
    <2> QED
      BY <1>11, <2>6, <2>7 DEF stored, W
  <1>14. CASE steps = <<>> /\ ~(\A n \in 1..N : blocks[n].text # "steps")
    BY <1>11, <1>14 DEF stored, W
  <1> QED
    BY <1>12, <1>13, <1>14

\* The questions a turn may ask back.
ClarifyQuestions == {"who", "how many", "tell me more"}

\* Turns of any length, with any texts and types of block in them: a session with a
\* record is not asked who it is.
Endings(O, Y, X) ==
    {i \in [outcome : O, blocks : Seq(Sourced(Y, X)), steps : Seq(X), slots : Seq(AskedSlots), has_record : BOOLEAN, column : BOOLEAN] :
        i.outcome = "clarify" /\ i.has_record => "identity" \notin ToSet(i.slots)}

\* The blocks a turn is served with.
ServedBlocks(i) == _served(IF i.outcome = "clarify" THEN <<Block("notice", clarification_question(i.slots), {})>> ELSE i.blocks)

\* Blocks, redacted.
RedactedBlocks(B) == [n \in DOMAIN B |-> [B[n] EXCEPT !.text = Redacted(@)]]

\* What blocks cite.
CitedBy(B) == UNION {B[n].cites : n \in DOMAIN B}

\* The next steps a stored turn gives back: its column's or, of the older schema,
\* its text's.
Replayed(i) == IF i.column THEN RedactedAll(i.steps) ELSE parse_next_steps(StoredLines(ServedBlocks(i), i.steps))

\* The chips of a turn that asked back.
Replies(i) == IF i.outcome = "clarify" THEN clarify_chips(SlotOf(i.slots), i.has_record) ELSE {}

\* The texts of blocks.
TextsOf(B) == {B[n].text : n \in DOMAIN B}

\* What a page is given to show.
PageContext(outcome, blocks, steps, chips, cited, confirm) ==
    [outcome |-> outcome, labelled |-> outcome \in LABELLED_OUTCOMES, blocks |-> blocks, next_steps |-> steps,
     quick_replies |-> chips, citations_by_id |-> cited, sections_read |-> Cardinality(cited),
     decision_line |-> FALSE, confirm_fields |-> confirm]

\* Next steps, each shown once and none that a block says.
StepsOf(steps, outcome, given, B) ==
    /\ IsInjective(steps)
    /\ ToSet(steps) = IF outcome \in LABELLED_OUTCOMES THEN {} ELSE {without_employee_ids(t) : t \in ToSet(given)} \ TextsOf(B)

\* Some blocks are served of some, and a question is served as it is asked.
LEMMA WhatIsServed ==
  ASSUME NEW O, NEW Y, NEW X, "notice" \in Y, ClarifyQuestions \subseteq X, NEW i \in Endings(O, Y, X)
  PROVE  /\ ServedBlocks(i) \in Seq(Fit(Y, X)) /\ (i.blocks # <<>> => ServedBlocks(i) # <<>>)
         /\ i.outcome = "clarify" => ServedBlocks(i) = <<Block("notice", clarification_question(i.slots), {})>>
         /\ clarification_question(i.slots) \in ClarifyQuestions
  <1>1. i.blocks \in Seq(Sourced(Y, X)) /\ i.slots \in Seq(AskedSlots)
    BY DEF Endings
  <1> DEFINE asked == Block("notice", clarification_question(i.slots), {})
             S == Sourced(Y, X)
             given == IF i.outcome = "clarify" THEN <<asked>> ELSE i.blocks
  <1>2. clarification_question(i.slots) \in ClarifyQuestions
    BY <1>1, SlotIsReadOff DEF ClarifyQuestions
  <1>3. asked \in S
    BY <1>2 DEF Block, Sourced
  <1>4. <<asked>> \in Seq(S) /\ <<asked>> # <<>>
    <2> HIDE DEF asked, S
    <2> QED
      BY <1>3
  <1>5. given \in Seq(Sourced(Y, X)) /\ (i.blocks # <<>> => given # <<>>)
    <2> HIDE DEF asked
    <2> QED
      BY <1>1, <1>4 DEF S
  <1>6. _served(<<asked>>) = <<asked>>
    BY ServedAsItIs
  <1> HIDE DEF given
  <1>7. _served(given) \in Seq(Fit(Y, X)) /\ (given # <<>> => _served(given) # <<>>)
    BY <1>5, ServedAreFit
  <1>8. ServedBlocks(i) = _served(given)
    BY DEF ServedBlocks, given
  <1>9. i.outcome = "clarify" => ServedBlocks(i) = <<asked>>
    BY <1>6, <1>8 DEF given
  <1> QED
    BY <1>2, <1>5, <1>7, <1>8, <1>9

\* Redacted blocks are fit as they were, and the same if there was nothing to
\* redact.
LEMMA RedactedAreFit ==
  ASSUME NEW Y, NEW X, NEW B \in Seq(Fit(Y, X))
  PROVE  /\ DOMAIN B = 1..Len(B) /\ Len(B) \in Nat /\ DOMAIN RedactedBlocks(B) = 1..Len(B)
         /\ \A n \in 1..Len(B) : /\ B[n] \in Fit(Y, X) /\ B[n].text \in X
                                 /\ B[n].cites \subseteq {"known"} /\ (B[n].type = "policy_fact" => B[n].cites # {})
                                 /\ RedactedBlocks(B)[n].text = Redacted(B[n].text)
                                 /\ RedactedBlocks(B)[n].type = B[n].type /\ RedactedBlocks(B)[n].cites = B[n].cites
         /\ (\A n \in 1..Len(B) : ~Secret(B[n].text)) => RedactedBlocks(B) = B
  <1> DEFINE N == Len(B)
             F == Fit(Y, X)
             R == RedactedBlocks(B)
  <1>1. N \in Nat /\ DOMAIN B = 1..N /\ \A n \in 1..N : B[n] \in F
    <2> HIDE DEF F
    <2>1. B \in Seq(F)
      BY DEF F
    <2> QED
      BY <2>1
  <1>2. R = [n \in 1..N |-> [B[n] EXCEPT !.text = Redacted(@)]]
    BY <1>1 DEF RedactedBlocks
  <1>3. \A n \in 1..N : B[n] \in [type : Y \cup {"recommendation"}, text : X, cites : SUBSET CitedSources]
                        /\ B[n].cites \subseteq {"known"} /\ (B[n].type = "policy_fact" => B[n].cites # {})
    BY <1>1 DEF Fit, Sourced
  <1>4. \A n \in 1..N : R[n].text = Redacted(B[n].text) /\ R[n].type = B[n].type /\ R[n].cites = B[n].cites
    BY <1>2, <1>3
  <1>5. ASSUME \A n \in 1..N : ~Secret(B[n].text) PROVE R = B
    <2>1. \A n \in 1..N : R[n] = B[n]
      BY <1>2, <1>3, <1>5 DEF Redacted
    <2>2. B = [n \in 1..N |-> B[n]] /\ R = [n \in 1..N |-> R[n]]
      <3>1. B = [n \in 1..N |-> B[n]]
        <4> HIDE DEF F
        <4>1. B \in Seq(F)
          BY DEF F
        <4> HIDE DEF N
        <4> QED
          BY <1>1, <4>1
      <3>2. R = [n \in 1..N |-> R[n]]
        BY <1>2
      <3> QED
        BY <3>1, <3>2
    <2> QED
      BY <2>1, <2>2
  <1>6. DOMAIN R = 1..N
    BY <1>2
  <1> QED
    BY <1>1, <1>3, <1>4, <1>5, <1>6 DEF N, R, F

\* The steps given back are the steps redacted, save of a turn of the older schema
\* with no steps and a block that reads like a section of them.
LEMMA StepsReplayed ==
  ASSUME NEW O, NEW Y, NEW X, "notice" \in Y, ClarifyQuestions \subseteq X, NEW i \in Endings(O, Y, X)
  PROVE  /\ i.steps \in Seq(X) /\ Replayed(i) \in Seq(RedactedTexts(WrittenTexts(X)))
         /\ ~(~i.column /\ i.steps = <<>> /\ "steps" \in TextsOf(ServedBlocks(i))) => Replayed(i) = RedactedAll(i.steps)
  <1> DEFINE B == ServedBlocks(i)
             N == Len(B)
             steps == i.steps
             W == RedactedTexts(WrittenTexts(X))
  <1>1. steps \in Seq(X) /\ i.column \in BOOLEAN
    BY DEF Endings
  <1>2. B \in Seq(Fit(Y, X))
    BY WhatIsServed
  <1> HIDE DEF B
  <1>3. DOMAIN B = 1..N /\ N \in Nat /\ \A n \in 1..N : B[n].text \in X
    BY <1>2, RedactedAreFit
  <1> HIDE DEF N, steps
  <1>4. /\ parse_next_steps(StoredLines(B, steps)) \in Seq(W)
        /\ steps # <<>> \/ (\A n \in 1..N : B[n].text # "steps") => parse_next_steps(StoredLines(B, steps)) = RedactedAll(steps)
    BY <1>1, <1>3, RowSteps
  <1>5. RedactedAll(steps) \in Seq(W)
    <2>1. Len(steps) \in Nat /\ DOMAIN steps = 1..Len(steps) /\ \A n \in 1..Len(steps) : steps[n] \in X
      BY <1>1
    <2>2. \A n \in 1..Len(steps) : Redacted(steps[n]) \in W
      BY <2>1 DEF RedactedTexts, WrittenTexts
    <2>3. RedactedAll(steps) = [n \in 1..Len(steps) |-> Redacted(steps[n])]
      BY <2>1 DEF RedactedAll
    <2> HIDE DEF W
    <2> QED
      BY <2>1, <2>2, <2>3
  <1>6. Replayed(i) = IF i.column THEN RedactedAll(steps) ELSE parse_next_steps(StoredLines(B, steps))
    BY DEF Replayed, B, steps
  <1>7. "steps" \in TextsOf(B) <=> \E n \in 1..N : B[n].text = "steps"
    BY <1>3 DEF TextsOf
  <1> HIDE DEF W
  <1>8. Replayed(i) \in Seq(W)
    BY <1>4, <1>5, <1>6
  <1>9. ~(~i.column /\ steps = <<>> /\ "steps" \in TextsOf(B)) => Replayed(i) = RedactedAll(steps)
    BY <1>4, <1>6, <1>7
  <1> QED
    BY <1>1, <1>8, <1>9 DEF B, steps, W

\* What a page is given when the turn ends and when it is loaded again.
LEMMA TwoContexts ==
  ASSUME NEW O, NEW Y, NEW X, "notice" \in Y, ClarifyQuestions \subseteq X, NEW i \in Endings(O, Y, X)
  PROVE  LET B == ServedBlocks(i)
         IN  \E s, r :
                /\ _render_turn(_finish(i).response) = PageContext(i.outcome, B, s, Replies(i), CitedBy(B), i.outcome = "awaiting_confirmation")
                /\ _rehydrate_row(_finish(i).row) = PageContext(i.outcome, RedactedBlocks(B), r, Replies(i), CitedBy(B), FALSE)
                /\ StepsOf(s, i.outcome, i.steps, B) /\ StepsOf(r, i.outcome, Replayed(i), RedactedBlocks(B))
                /\ RedactedBlocks(B) = B /\ Replayed(i) = i.steps => r = s
  <1> DEFINE B == ServedBlocks(i)
             R == RedactedBlocks(B)
             C == CitedBy(B)
             response == _finish(i).response
             row == _finish(i).row
             s == rendered_next_steps(response)
             slot == _replayed_clarify_slot(row)
             again == [outcome |-> row.outcome, blocks |-> row.blocks, next_steps |-> _replayed_next_steps(row),
                       citations |-> row.citations, confirmation |-> FALSE,
                       quick_replies |-> IF row.outcome = "clarify" THEN clarify_chips(slot, slot # "identity") ELSE {}]
             r == rendered_next_steps(again)
  <1>1. /\ response.outcome = i.outcome /\ response.blocks = B /\ response.next_steps = i.steps /\ response.citations = C
        /\ response.quick_replies = Replies(i) /\ response.confirmation = (i.outcome = "awaiting_confirmation")
    BY DEF _finish, ServedBlocks, CitedBy, Replies
  <1>2. /\ row.outcome = i.outcome /\ row.blocks = R /\ row.citations = C /\ _replayed_next_steps(row) = Replayed(i)
    BY DEF _finish, ServedBlocks, RedactedBlocks, CitedBy, Replayed, _replayed_next_steps, StoredLines, RedactedIn
  <1>3. _render_turn(response) = _turn_context(response, FALSE) /\ _rehydrate_row(row) = _turn_context(again, FALSE)
    BY DEF _render_turn, _rehydrate_row
  <1>4. i.slots \in Seq(AskedSlots) /\ i.has_record \in BOOLEAN /\ (i.outcome = "clarify" /\ i.has_record => "identity" \notin ToSet(i.slots))
    BY DEF Endings
  <1>5. i.outcome = "clarify" => clarify_chips(slot, slot # "identity") = Replies(i)
    <2> SUFFICES ASSUME i.outcome = "clarify" PROVE clarify_chips(slot, slot # "identity") = Replies(i)
      OBVIOUS
    <2> DEFINE q == clarification_question(i.slots)
               b == Block("notice", q, {})
    <2>1. B = <<b>> /\ q \in ClarifyQuestions
      BY WhatIsServed
    <2>2. Redacted(q) = q
      BY <2>1 DEF Redacted, Secret, ClarifyQuestions
    <2>3. Head(R).text = q
      <3>1. b.text = q
        BY DEF Block
      <3>2. R = [n \in DOMAIN B |-> [B[n] EXCEPT !.text = Redacted(@)]] /\ DOMAIN B = 1..1 /\ B[1] = b
        BY <2>1 DEF RedactedBlocks
      <3>3. R = [n \in 1..1 |-> [B[n] EXCEPT !.text = Redacted(@)]]
        BY <3>2
      <3>4. R[1] = [b EXCEPT !.text = Redacted(@)] /\ Head(R) = R[1]
        <4> HIDE DEF b, B
        <4>1. 1 \in 1..1
          OBVIOUS
        <4> QED
          BY <3>2, <3>3, <4>1
      <3>5. [b EXCEPT !.text = Redacted(@)].text = q
        BY <2>2 DEF Block
      <3> HIDE DEF R, b
      <3> QED
        BY <3>4, <3>5
    <2>4. slot = SlotOf(i.slots)
      <3>1. slot = clarify_slot_of(q)
        <4> HIDE DEF R, q
        <4> QED
          BY <1>2, <2>3 DEF _replayed_clarify_slot
      <3> QED
        BY <1>4, <3>1, SlotIsReadOff
    <2>5. clarify_chips(SlotOf(i.slots), SlotOf(i.slots) # "identity") = clarify_chips(SlotOf(i.slots), i.has_record)
      BY <1>4, SameChips
    <2> HIDE DEF slot
    <2> QED
      BY <2>4, <2>5 DEF Replies
  <1>6. i.outcome # "clarify" => Replies(i) = {}
    BY DEF Replies
  <1> HIDE DEF response, row, slot, B, R, C
  <1>7. /\ again.outcome = i.outcome /\ again.blocks = R /\ again.next_steps = Replayed(i) /\ again.citations = C
        /\ again.quick_replies = Replies(i) /\ again.confirmation = FALSE
    BY <1>2, <1>5, <1>6
  <1> HIDE DEF again
  <1>8. _turn_context(response, FALSE) = PageContext(i.outcome, B, s, Replies(i), C, i.outcome = "awaiting_confirmation")
    BY <1>1 DEF _turn_context, PageContext
  <1>9. _turn_context(again, FALSE) = PageContext(i.outcome, R, r, Replies(i), C, FALSE)
    BY <1>7 DEF _turn_context, PageContext
  <1>10. R = B /\ Replayed(i) = i.steps => r = s
    BY <1>1, <1>7 DEF rendered_next_steps
  <1>11. response.next_steps \in Seq(X) /\ again.next_steps \in Seq(RedactedTexts(WrittenTexts(X)))
    BY <1>1, <1>7, StepsReplayed
  <1>12. ShownSteps(s, response) /\ ShownSteps(r, again)
    BY <1>11, StepsShown
  <1> HIDE DEF s, r
  <1>13. StepsOf(s, i.outcome, i.steps, B) /\ StepsOf(r, i.outcome, Replayed(i), R)
    BY <1>1, <1>7, <1>12 DEF StepsOf, ShownSteps, TextsOf
  <1> QED
    BY <1>3, <1>8, <1>9, <1>10, <1>13 DEF response, row, B, R, C

\* A text that was redacted is no secret, and one that is none is not changed.
LEMMA RedactionsAreSafe ==
  ASSUME NEW t
  PROVE  /\ ~Secret(Redacted(t)) /\ ~Secret(without_employee_ids(Redacted(t)))
         /\ ~Secret(t) => Redacted(t) = t /\ ~Secret(without_employee_ids(t))
         /\ Secret(t) => without_employee_ids(t) = t /\ Redacted(t) = "redacted" /\ without_employee_ids("redacted") = "redacted"
  BY DEF Secret, Redacted, without_employee_ids

\* The nine fields of a page's context.
ContextFields(o, l, b, s, q, C, n, e, c) ==
    [outcome |-> o, labelled |-> l, blocks |-> b, next_steps |-> s, quick_replies |-> q, citations_by_id |-> C,
     sections_read |-> n, decision_line |-> e, confirm_fields |-> c]

\* A context with another card, with other steps, and with all three changed.
NoCard(r, f) == [r EXCEPT !.confirm_fields = f]

WithSteps(r, t) == [r EXCEPT !.next_steps = t]

Blanked(r, f, t, d) == [r EXCEPT !.confirm_fields = f, !.next_steps = t, !.blocks = d]

\* What changing one does to the others: nothing.
LEMMA FieldsChanged ==
  /\ \A o, l, b, s, q, C, n, e, c, f : NoCard(ContextFields(o, l, b, s, q, C, n, e, c), f) = ContextFields(o, l, b, s, q, C, n, e, f)
  /\ \A o, l, b, s, q, C, n, e, c, t : WithSteps(ContextFields(o, l, b, s, q, C, n, e, c), t) = ContextFields(o, l, b, t, q, C, n, e, c)
  /\ \A o, l, b, s, q, C, n, e, c, f, t, d : Blanked(ContextFields(o, l, b, s, q, C, n, e, c), f, t, d) = ContextFields(o, l, d, t, q, C, n, e, f)
  <1>1. \A o, l, b, s, q, C, n, e, c, f : NoCard(ContextFields(o, l, b, s, q, C, n, e, c), f) = ContextFields(o, l, b, s, q, C, n, e, f)
    BY DEF ContextFields, NoCard
  <1>2. \A o, l, b, s, q, C, n, e, c, t : WithSteps(ContextFields(o, l, b, s, q, C, n, e, c), t) = ContextFields(o, l, b, t, q, C, n, e, c)
    BY DEF ContextFields, WithSteps
  <1>3. \A o, l, b, s, q, C, n, e, c, d : [ContextFields(o, l, b, s, q, C, n, e, c) EXCEPT !.blocks = d] = ContextFields(o, l, d, s, q, C, n, e, c)
    BY DEF ContextFields
  <1>4. \A r, f, t, d : Blanked(r, f, t, d) = [WithSteps(NoCard(r, f), t) EXCEPT !.blocks = d]
    BY DEF Blanked, WithSteps, NoCard
  <1>5. \A o, l, b, s, q, C, n, e, c, f, t, d : Blanked(ContextFields(o, l, b, s, q, C, n, e, c), f, t, d) = ContextFields(o, l, d, t, q, C, n, e, f)
    BY <1>1, <1>2, <1>3, <1>4
  <1> QED
    BY <1>1, <1>2, <1>5

\* So of the card of a page's context.
LEMMA CardTaken ==
  ASSUME NEW o, NEW b, NEW s, NEW q, NEW C, NEW c, NEW f
  PROVE  NoCard(PageContext(o, b, s, q, C, c), f) = PageContext(o, b, s, q, C, f)
  <1> DEFINE l == o \in LABELLED_OUTCOMES
             n == Cardinality(C)
             z == FALSE
  <1>1. PageContext(o, b, s, q, C, c) = ContextFields(o, l, b, s, q, C, n, z, c)
    BY Zenon DEF PageContext, ContextFields
  <1>2. PageContext(o, b, s, q, C, f) = ContextFields(o, l, b, s, q, C, n, z, f)
    BY Zenon DEF PageContext, ContextFields
  <1> HIDE DEF l, n, z
  <1> QED
    BY ONLY <1>1, <1>2, FieldsChanged

\* So of its steps.
LEMMA StepsTaken ==
  ASSUME NEW o, NEW b, NEW s, NEW q, NEW C, NEW c, NEW t
  PROVE  WithSteps(PageContext(o, b, s, q, C, c), t) = PageContext(o, b, t, q, C, c)
  <1> DEFINE l == o \in LABELLED_OUTCOMES
             n == Cardinality(C)
             z == FALSE
  <1>1. PageContext(o, b, s, q, C, c) = ContextFields(o, l, b, s, q, C, n, z, c)
    BY Zenon DEF PageContext, ContextFields
  <1>2. PageContext(o, b, t, q, C, c) = ContextFields(o, l, b, t, q, C, n, z, c)
    BY Zenon DEF PageContext, ContextFields
  <1> HIDE DEF l, n, z
  <1> QED
    BY ONLY <1>1, <1>2, FieldsChanged

\* So of the card, the steps and the blocks.
LEMMA AllTaken ==
  ASSUME NEW o, NEW b, NEW s, NEW q, NEW C, NEW c, NEW f, NEW t, NEW d
  PROVE  Blanked(PageContext(o, b, s, q, C, c), f, t, d) = PageContext(o, d, t, q, C, f)
  <1> DEFINE l == o \in LABELLED_OUTCOMES
             n == Cardinality(C)
             z == FALSE
  <1>1. PageContext(o, b, s, q, C, c) = ContextFields(o, l, b, s, q, C, n, z, c)
    BY Zenon DEF PageContext, ContextFields
  <1>2. PageContext(o, d, t, q, C, f) = ContextFields(o, l, d, t, q, C, n, z, f)
    BY Zenon DEF PageContext, ContextFields
  <1> HIDE DEF l, n, z
  <1> QED
    BY ONLY <1>1, <1>2, FieldsChanged

\* Two contexts of one turn differ in no more than these.
LEMMA ContextsCompared ==
  ASSUME NEW o, NEW b, NEW s, NEW q, NEW C, NEW c, NEW R, NEW r, NEW f, NEW live, NEW again,
         live = PageContext(o, b, s, q, C, c), again = PageContext(o, R, r, q, C, f)
  PROVE  /\ R = b /\ r = s => again = NoCard(live, f)
         /\ WithSteps(again, <<>>) = Blanked(live, f, <<>>, R)
  <1>2. NoCard(live, f) = PageContext(o, b, s, q, C, f)
    BY ONLY CardTaken, live = PageContext(o, b, s, q, C, c)
  <1>3. Blanked(live, f, <<>>, R) = PageContext(o, R, <<>>, q, C, f)
    BY ONLY AllTaken, live = PageContext(o, b, s, q, C, c)
  <1>4. WithSteps(again, <<>>) = PageContext(o, R, <<>>, q, C, f)
    BY ONLY StepsTaken, again = PageContext(o, R, r, q, C, f)
  <1> QED
    BY ONLY <1>2, <1>3, <1>4, again = PageContext(o, R, r, q, C, f)

(***************************************************************************)
(* A turn of any length and of any texts reads the same when its page is   *)
(* loaded again, save the card: with no secret in it, it is the same but   *)
(* for an answer that opens a section of next steps in a row without a     *)
(* column for them; with one, only that text is redacted and no secret is  *)
(* shown; every source it names opens, and no step repeats a block or      *)
(* another step (_finish, _render_turn, _rehydrate).                       *)
(***************************************************************************)
THEOREM ReloadShows ==
  ASSUME NEW O, NEW Y, NEW X, "notice" \in Y, ClarifyQuestions \subseteq X, NEW i \in Endings(O, Y, X)
  PROVE  ReloadShowsTheTurn(i)
  <1> DEFINE B == ServedBlocks(i)
             R == RedactedBlocks(B)
             C == CitedBy(B)
             live == _render_turn(_finish(i).response)
             again == _rehydrate_row(_finish(i).row)
             L == i.outcome \in LABELLED_OUTCOMES
             N == Len(B)
  <1>1. PICK s, r :
                /\ live = PageContext(i.outcome, B, s, Replies(i), C, i.outcome = "awaiting_confirmation")
                /\ again = PageContext(i.outcome, R, r, Replies(i), C, FALSE)
                /\ StepsOf(s, i.outcome, i.steps, B) /\ StepsOf(r, i.outcome, Replayed(i), R)
                /\ R = B /\ Replayed(i) = i.steps => r = s
    BY TwoContexts
  <1>2. B \in Seq(Fit(Y, X)) /\ (i.blocks # <<>> => B # <<>>)
    BY WhatIsServed
  <1> DEFINE steps == i.steps
             next == Replayed(i)
             ownSection == ~i.column /\ steps = <<>> /\ \E n \in DOMAIN B : B[n].text = "steps"
  <1>3. steps \in Seq(X) /\ next \in Seq(RedactedTexts(WrittenTexts(X))) /\ (~ownSection => next = RedactedAll(steps))
    <2>1. (\E n \in DOMAIN B : B[n].text = "steps") <=> "steps" \in TextsOf(B)
      BY DEF TextsOf
    <2>2. /\ i.steps \in Seq(X) /\ Replayed(i) \in Seq(RedactedTexts(WrittenTexts(X)))
          /\ ~(~i.column /\ i.steps = <<>> /\ "steps" \in TextsOf(ServedBlocks(i))) => Replayed(i) = RedactedAll(i.steps)
      BY StepsReplayed
    <2> QED
      BY <2>1, <2>2
  <1>4. i.slots \in Seq(AskedSlots) /\ i.has_record \in BOOLEAN /\ (i.outcome = "clarify" /\ i.has_record => "identity" \notin ToSet(i.slots))
    BY DEF Endings
  <1> HIDE DEF live, again, B, R, C, steps, next
  <1>5. /\ DOMAIN B = 1..N /\ N \in Nat /\ DOMAIN R = 1..N
        /\ \A n \in 1..N : /\ B[n].text \in X
                           /\ B[n].cites \subseteq {"known"} /\ (B[n].type = "policy_fact" => B[n].cites # {})
                           /\ R[n].text = Redacted(B[n].text) /\ R[n].type = B[n].type /\ R[n].cites = B[n].cites
        /\ (\A n \in 1..N : ~Secret(B[n].text)) => R = B
    BY <1>2, RedactedAreFit DEF R
  <1>6. /\ live.blocks = B /\ live.next_steps = s /\ live.citations_by_id = C
        /\ again.blocks = R /\ again.next_steps = r /\ again.citations_by_id = C /\ again.quick_replies = Replies(i)
    BY <1>1 DEF PageContext
  <1>7. /\ IsInjective(s) /\ ToSet(s) = (IF L THEN {} ELSE {without_employee_ids(t) : t \in ToSet(steps)} \ TextsOf(B))
        /\ IsInjective(r) /\ ToSet(r) = (IF L THEN {} ELSE {without_employee_ids(t) : t \in ToSet(next)} \ TextsOf(R))
    BY <1>1 DEF StepsOf, steps, next
  <1>8. Len(steps) \in Nat /\ DOMAIN steps = 1..Len(steps) /\ ToSet(steps) = {steps[n] : n \in 1..Len(steps)}
    BY <1>3 DEF ToSet
  <1>9. RedactedAll(steps) = [n \in 1..Len(steps) |-> Redacted(steps[n])]
    BY <1>8 DEF RedactedAll
  <1>10. ToSet(RedactedAll(steps)) = {Redacted(t) : t \in ToSet(steps)}
    BY <1>8, <1>9 DEF ToSet
  <1>11. (\A t \in ToSet(steps) : ~Secret(t)) => RedactedAll(steps) = steps
    <2> SUFFICES ASSUME \A t \in ToSet(steps) : ~Secret(t) PROVE RedactedAll(steps) = steps
      OBVIOUS
    <2>1. \A n \in 1..Len(steps) : Redacted(steps[n]) = steps[n]
      BY <1>8, RedactionsAreSafe
    <2>2. steps = [n \in 1..Len(steps) |-> steps[n]]
      BY <1>3
    <2>3. RedactedAll(steps) = [n \in 1..Len(steps) |-> steps[n]]
      BY <1>9, <2>1
    <2> QED
      BY <2>2, <2>3
  <1>12. TextsOf(R) = {Redacted(t) : t \in TextsOf(B)}
    BY <1>5 DEF TextsOf
  <1>13. \A t \in ToSet(next) : ~Secret(without_employee_ids(t))
    <2>1. \A n \in DOMAIN next : next[n] \in RedactedTexts(WrittenTexts(X))
      <3> DEFINE T == RedactedTexts(WrittenTexts(X))
      <3>1. next \in Seq(T)
        BY <1>3
      <3> HIDE DEF T
      <3>2. \A n \in DOMAIN next : next[n] \in T
        BY <3>1
      <3> QED
        BY <3>2 DEF T
    <2> QED
      BY <2>1, RedactionsAreSafe DEF ToSet, RedactedTexts
  <1> DEFINE o == i.outcome
             q == Replies(i)
             c == (i.outcome = "awaiting_confirmation")
             f == FALSE
  <1>25. live = PageContext(o, B, s, q, C, c) /\ again = PageContext(o, R, r, q, C, f)
    BY <1>1
  <1> HIDE DEF o, q, c, f
  <1>26. (R = B /\ r = s => again = NoCard(live, f)) /\ WithSteps(again, <<>>) = Blanked(live, f, <<>>, R)
    BY ONLY <1>25, ContextsCompared
  <1> DEFINE texts(context) == {context.blocks[n].text : n \in DOMAIN context.blocks} \cup ToSet(context.next_steps)
             secret == \E t \in texts(live) \cup ToSet(steps) : Secret(t)
  <1>14. texts(live) = TextsOf(B) \cup ToSet(s) /\ texts(again) = TextsOf(R) \cup ToSet(r)
    BY <1>6 DEF TextsOf
  <1> HIDE DEF texts
  <1>15. (~secret /\ ~ownSection) => again = [live EXCEPT !.confirm_fields = FALSE]
    <2> SUFFICES ASSUME ~secret, ~ownSection PROVE again = [live EXCEPT !.confirm_fields = FALSE]
      OBVIOUS
    <2>1. (\A t \in TextsOf(B) : ~Secret(t)) /\ \A t \in ToSet(steps) : ~Secret(t)
      BY <1>14 DEF secret
    <2>2. R = B
      BY <1>5, <2>1 DEF TextsOf
    <2>3. next = steps
      BY <1>3, <1>11, <2>1
    <2>4. r = s
      BY <1>1, <2>2, <2>3 DEF next, steps
    <2> QED
      <3>2. again = NoCard(live, FALSE)
        BY <1>26, <2>2, <2>4 DEF f
      <3> QED
        BY ONLY <3>2, Zenon DEF NoCard
  <1>16. \A t \in texts(again) : ~Secret(t)
    <2>1. \A t \in ToSet(r) : ~Secret(t)
      BY <1>7, <1>13
    <2>2. \A t \in TextsOf(R) : ~Secret(t)
      BY <1>12, RedactionsAreSafe
    <2> QED
      BY <1>14, <2>1, <2>2
  <1>17. [again EXCEPT !.next_steps = <<>>] =
            [live EXCEPT !.confirm_fields = FALSE, !.next_steps = <<>>,
                         !.blocks = [n \in DOMAIN live.blocks |-> [live.blocks[n] EXCEPT !.text = Redacted(@)]]]
    <2>1. [n \in DOMAIN live.blocks |-> [live.blocks[n] EXCEPT !.text = Redacted(@)]] = R
      BY <1>6 DEF R, RedactedBlocks
    <2> DEFINE D == [n \in DOMAIN live.blocks |-> [live.blocks[n] EXCEPT !.text = Redacted(@)]]
    <2> HIDE DEF D
    <2>2. [again EXCEPT !.next_steps = <<>>] = [live EXCEPT !.confirm_fields = FALSE, !.next_steps = <<>>, !.blocks = D]
      <3>1. D = R
        BY <2>1 DEF D
      <3> QED
        <4>3. WithSteps(again, <<>>) = Blanked(live, FALSE, <<>>, D)
          BY <1>26, <3>1 DEF f
        <4> QED
          BY ONLY <4>3, Zenon DEF WithSteps, Blanked
    <2> QED
      BY <2>2 DEF D
  <1>18. ~ownSection => ToSet(again.next_steps) \subseteq {Redacted(t) : t \in ToSet(live.next_steps)}
    <2> SUFFICES ASSUME ~ownSection, NEW x \in ToSet(r) PROVE \E t \in ToSet(s) : x = Redacted(t)
      BY <1>6
    <2>1. ~L /\ x \notin TextsOf(R) /\ \E u \in ToSet(next) : x = without_employee_ids(u)
      BY <1>7
    <2>2. PICK t \in ToSet(steps) : x = without_employee_ids(Redacted(t))
      BY <1>3, <1>10, <2>1
    <2> DEFINE w == without_employee_ids(t)
    <2>3. x = Redacted(w)
      BY <2>2, RedactionsAreSafe
    <2>4. w \notin TextsOf(B)
      BY <1>12, <2>1, <2>3
    <2> HIDE DEF w
    <2>5. w \in ToSet(s)
      BY <1>7, <2>1, <2>4 DEF w
    <2> QED
      BY <2>3, <2>5
  <1>19. (~i.has_record /\ i.slots # <<>>) => again.quick_replies \cap NEEDS_A_RECORD = {}
    <2> SUFFICES ASSUME ~i.has_record PROVE Replies(i) \cap NEEDS_A_RECORD = {}
      BY <1>6
    <2>1. CASE i.outcome = "clarify"
      <3>1. ~i.has_record => clarify_chips(SlotOf(i.slots), i.has_record) \cap NEEDS_A_RECORD = {}
        BY <1>4, <2>1, SameChips
      <3> QED
        BY <2>1, <3>1 DEF Replies
    <2>2. CASE i.outcome # "clarify"
      BY <2>2 DEF Replies
    <2> QED
      BY <2>1, <2>2
  <1>20. \A context \in {live, again} :
              /\ \A n \in DOMAIN context.blocks :
                    /\ context.blocks[n].cites \subseteq context.citations_by_id \cap {"known"}
                    /\ context.blocks[n].type = "policy_fact" => context.blocks[n].cites # {}
              /\ IsInjective(context.next_steps)
              /\ \A n \in DOMAIN context.blocks : context.blocks[n].text \notin ToSet(context.next_steps)
    <2>1. C = UNION {B[n].cites : n \in 1..N}
      BY <1>5 DEF C, CitedBy
    <2>2. \A n \in 1..N : B[n].cites \subseteq C \cap {"known"} /\ (B[n].type = "policy_fact" => B[n].cites # {})
      BY <1>5, <2>1
    <2>3. \A n \in 1..N : R[n].cites \subseteq C \cap {"known"} /\ (R[n].type = "policy_fact" => R[n].cites # {})
      BY <1>5, <2>2
    <2>4. \A n \in 1..N : B[n].text \notin ToSet(s) /\ R[n].text \notin ToSet(r)
      BY <1>5, <1>7 DEF TextsOf
    <2>5. /\ \A n \in DOMAIN live.blocks :
                /\ live.blocks[n].cites \subseteq live.citations_by_id \cap {"known"}
                /\ live.blocks[n].type = "policy_fact" => live.blocks[n].cites # {}
          /\ IsInjective(live.next_steps)
          /\ \A n \in DOMAIN live.blocks : live.blocks[n].text \notin ToSet(live.next_steps)
      BY <1>5, <1>6, <1>7, <2>2, <2>4
    <2>6. /\ \A n \in DOMAIN again.blocks :
                /\ again.blocks[n].cites \subseteq again.citations_by_id \cap {"known"}
                /\ again.blocks[n].type = "policy_fact" => again.blocks[n].cites # {}
          /\ IsInjective(again.next_steps)
          /\ \A n \in DOMAIN again.blocks : again.blocks[n].text \notin ToSet(again.next_steps)
      BY <1>5, <1>6, <1>7, <2>3, <2>4
    <2> QED
      BY <2>5, <2>6
  <1>21. i.blocks # <<>> => Len(live.blocks) > 0
    <2> DEFINE F == Fit(Y, X)
    <2>1. B \in Seq(F) /\ (i.blocks # <<>> => B # <<>>)
      BY <1>2
    <2> HIDE DEF F
    <2> QED
      BY <1>6, <2>1
  <1>22. ownSection <=> ~i.column /\ i.steps = <<>> /\ \E n \in DOMAIN live.blocks : live.blocks[n].text = "steps"
    BY <1>6 DEF steps
  <1>23. secret <=> \E t \in texts(live) \cup ToSet(i.steps) : Secret(t)
    BY DEF steps
  <1> HIDE DEF secret, ownSection
  <1>24. /\ (~(\E t \in texts(live) \cup ToSet(i.steps) : Secret(t))
             /\ ~(~i.column /\ i.steps = <<>> /\ \E n \in DOMAIN live.blocks : live.blocks[n].text = "steps"))
               => again = [live EXCEPT !.confirm_fields = FALSE]
         /\ ~(~i.column /\ i.steps = <<>> /\ \E n \in DOMAIN live.blocks : live.blocks[n].text = "steps")
               => ToSet(again.next_steps) \subseteq {Redacted(t) : t \in ToSet(live.next_steps)}
    BY ONLY <1>15, <1>18, <1>22, <1>23
  <1> HIDE DEF B, R, C, L, N
  <1> QED
    BY ONLY <1>16, <1>17, <1>19, <1>20, <1>21, <1>24, Zenon DEF ReloadShowsTheTurn, live, again, texts

-----------------------------------------------------------------------------
(* What the questions of Answers are asked of is among these inputs.       *)
\* The answers that are put beside a verdict are among those.
LEMMA AskedOfVerdicts ==
  ASSUME NEW i \in ComplianceInputs
  PROVE  AnswerKeepsTheVerdict(i)
  <1> DEFINE S == VerdictSayings
  <1>1. Claims \subseteq S
    <2>1. \A about \in SUBSET RowIds, polarity \in {"denies", "asserts"}, reader \in BOOLEAN : Sentence(about, polarity, reader, 0, FALSE) \in S
      BY DEF Sentence, VerdictSayings
    <2> SUFFICES ASSUME NEW s \in Claims PROVE s \in S
      OBVIOUS
    <2>2. PICK about \in SUBSET RowIds, polarity \in {"denies", "asserts"}, reader \in BOOLEAN : s = Sentence(about, polarity, reader, 0, FALSE)
      BY DEF Claims, Sentence
    <2> HIDE DEF S
    <2> QED
      BY <2>1, <2>2
  <1>2. Amounts \subseteq S
    <2>1. \A ceiling \in Nat, lower \in BOOLEAN : Sentence({}, "none", FALSE, ceiling, lower) \in S
      BY DEF Sentence, VerdictSayings
    <2> SUFFICES ASSUME NEW s \in Amounts PROVE s \in S
      OBVIOUS
    <2>2. PICK ceiling \in {0, 1, 3}, lower \in BOOLEAN : s = Sentence({}, "none", FALSE, ceiling, lower)
      BY DEF Amounts, Sentence
    <2>3. ceiling \in Nat
      OBVIOUS
    <2> HIDE DEF S
    <2> QED
      BY <2>1, <2>2, <2>3
  <1>3. Sentence({1}, "denies", FALSE, 0, FALSE) \in S
    BY DEF Sentence, VerdictSayings, RowIds
  <1>4. NotStatedLine(2) \in S
    BY DEF NotStatedLine, VerdictSayings, RowIds
  <1>5. Sentence({}, "none", FALSE, 1, TRUE) \in S
    BY DEF Sentence, VerdictSayings
  <1>6. NotMandated \in [RowIds -> Int]
    BY DEF NotMandated
  <1>7. \A rows \in [RowIds -> Rows], s \in S, t \in S, c \in BOOLEAN, o \in [RowIds -> Int] :
           [rows |-> rows, text |-> <<s, t>>, covering |-> c, overlap |-> o] \in DecidedAnswers
    <2> SUFFICES ASSUME NEW rows \in [RowIds -> Rows], NEW s \in S, NEW t \in S, NEW c \in BOOLEAN, NEW o \in [RowIds -> Int]
                 PROVE  [rows |-> rows, text |-> <<s, t>>, covering |-> c, overlap |-> o] \in DecidedAnswers
      OBVIOUS
    <2>1. <<s, t>> \in Seq(S)
      <3> HIDE DEF S
      <3> QED
        BY ShortLists
    <2> QED
      BY <2>1 DEF DecidedAnswers
  <1>8. i \in ClaimInputs \cup AmountInputs
    BY DEF ComplianceInputs
  <1>9. ASSUME i \in ClaimInputs PROVE i \in DecidedAnswers
    <2>1. PICK rows \in [RowIds -> Rows], s \in Claims, t \in BesideAClaim :
             i = [rows |-> rows, text |-> <<s, t>>, covering |-> TRUE, overlap |-> NotMandated]
      BY <1>9 DEF ClaimInputs
    <2>2. s \in S /\ t \in S
      <3> HIDE DEF S
      <3> QED
        BY <1>1, <1>2, <1>3, <1>4 DEF BesideAClaim
    <2> HIDE DEF S
    <2> QED
      BY <1>6, <1>7, <2>1, <2>2
  <1>10. ASSUME i \in AmountInputs PROVE i \in DecidedAnswers
    <2>1. PICK rows \in [RowIds -> Rows], s \in Amounts, t \in {Sentence({}, "none", FALSE, 1, TRUE)}, c \in BOOLEAN,
               o \in [RowIds -> {2, 3, 4}] :
             i = [rows |-> rows, text |-> <<s, t>>, covering |-> c, overlap |-> o]
      BY <1>10 DEF AmountInputs, Sentence
    <2>2. s \in S /\ t \in S
      <3> HIDE DEF S
      <3> QED
        BY <1>2, <1>5
    <2>3. o \in [RowIds -> Int]
      OBVIOUS
    <2> HIDE DEF S
    <2> QED
      BY <1>7, <2>1, <2>2, <2>3
  <1> QED
    BY <1>8, <1>9, <1>10, VerdictIsKept

\* So are the answers about a write.
LEMMA AskedOfWrites ==
  ASSUME NEW i \in OutcomeInputs
  PROVE  OneAccountOfTheWrite(i)
  <1> DEFINE E == {Gated, Balance, Created, Failed, Unrendered}
             S == Worded
             T == {"recommendation", "policy_fact", "escalation", "performed"}
             B == [type : T, text : Seq(S), policy_claim : BOOLEAN, cited : BOOLEAN]
             X == AccountTexts
             Y == AccountAgainTexts
  <1>1. OutcomeSentences \subseteq S
    <2>1. Plain \in S
      BY DEF Plain, Worded
    <2>2. Submit \in S /\ SubmitIt \in S /\ OpenThePolicy \in S /\ YouMustSubmit \in S /\ TrackTheId \in S
      BY DEF Submit, SubmitIt, OpenThePolicy, YouMustSubmit, TrackTheId, Plain, Worded
    <2>3. IdWasCreated \in S /\ ICannotFile \in S /\ CannotHandle \in S
      BY DEF IdWasCreated, ICannotFile, CannotHandle, Plain, Worded
    <2>4. AskPeopleOps \in S /\ YouHaveDays \in S /\ YourManagerIs \in S
      BY DEF AskPeopleOps, YouHaveDays, YourManagerIs, Plain, Worded
    <2> HIDE DEF S
    <2> QED
      BY <2>1, <2>2, <2>3, <2>4 DEF OutcomeSentences
  <1>2. X \subseteq Seq(S) /\ Y \subseteq Seq(S)
    <2>1. Submit \in S /\ YouMustSubmit \in S
      BY <1>1 DEF OutcomeSentences
    <2>2. \A s \in S : <<s>> \in Seq(S) /\ \A t \in S : <<s, t>> \in Seq(S)
      <3> HIDE DEF S
      <3> QED
        BY ShortLists
    <2> HIDE DEF S
    <2>3. ASSUME NEW x \in X PROVE x \in Seq(S)
      <3>1. CASE \E s \in OutcomeSentences, t \in OutcomeSentences : x = <<s, t>>
        BY <1>1, <2>2, <3>1
      <3>2. CASE \E s \in OutcomeSentences : x = <<s>>
        BY <1>1, <2>2, <3>2
      <3> QED
        BY <3>1, <3>2 DEF AccountTexts
    <2>4. ASSUME NEW x \in Y PROVE x \in Seq(S)
      <3>1. PICK s \in OutcomeSentences, t \in {Submit, YouMustSubmit} : x = <<s, t>>
        BY DEF AccountAgainTexts
      <3> QED
        BY <1>1, <2>1, <2>2, <3>1
    <2> QED
      BY <2>3, <2>4
  <1>3. <<Gated, Balance>> \in Seq(E) /\ <<Balance, Gated, Created>> \in Seq(E) /\ <<Failed, Unrendered>> \in Seq(E)
    <2>1. Gated \in E /\ Balance \in E /\ Created \in E /\ Failed \in E /\ Unrendered \in E
      OBVIOUS
    <2> HIDE DEF E
    <2> QED
      BY <2>1
  <1>4. \A texts \in SUBSET Seq(S) : Blocks(texts) \subseteq B
    <2> HIDE DEF S
    <2> QED
      BY DEF Blocks
  <1> DEFINE D == {<<Gated, Balance>>, <<Balance, Gated, Created>>, <<Failed, Unrendered>>}
  <1>5. /\ i = [block |-> i.block, envelopes |-> i.envelopes, prior_write |-> i.prior_write]
        /\ i.prior_write \in BOOLEAN /\ i.block \in Blocks(X) \cup Blocks(Y)
        /\ i.envelopes \in D
    <2> DEFINE G == {b \in Blocks(X) : b.policy_claim => (b.type = "recommendation" /\ ~b.cited)}
               H == {b \in Blocks(Y) : ~b.policy_claim}
    <2>1. G \subseteq Blocks(X) /\ H \subseteq Blocks(Y)
      OBVIOUS
    <2>2. <<Gated, Balance>> \in D
      OBVIOUS
    <2>3. AccountInputs = [block : G, envelopes : D, prior_write : {FALSE}]
      BY DEF AccountInputs
    <2>4. AccountAgainInputs = [block : H, envelopes : {<<Gated, Balance>>}, prior_write : {TRUE}]
      BY DEF AccountAgainInputs
    <2> HIDE DEF G, H, D, X, Y
    <2>5. CASE i \in AccountInputs
      BY <2>1, <2>3, <2>5
    <2>6. CASE i \in AccountAgainInputs
      BY <2>1, <2>2, <2>4, <2>6
    <2> QED
      BY <2>5, <2>6 DEF OutcomeInputs
  <1>6. i.block \in B
    <2> HIDE DEF X, Y, B, S
    <2> QED
      BY <1>2, <1>4, <1>5
  <1>7. i.envelopes \in Seq(E)
    <2>1. i.envelopes \in D
      BY <1>5
    <2>2. CASE i.envelopes = <<Gated, Balance>>
      BY <1>3, <2>2
    <2>3. CASE i.envelopes = <<Balance, Gated, Created>>
      BY <1>3, <2>3
    <2>4. CASE i.envelopes = <<Failed, Unrendered>>
      BY <1>3, <2>4
    <2> HIDE DEF E
    <2> QED
      BY <2>1, <2>2, <2>3, <2>4
  <1>8. i \in Accounts(E)
    <2> HIDE DEF E, X, Y, D
    <2> QED
      BY <1>5, <1>6, <1>7 DEF Accounts
  <1> QED
    BY <1>8, OneAccount

\* So are the texts that are said once.
LEMMA AskedToDrop ==
  ASSUME NEW texts \in DedupeInputs
  PROVE  SaidOnceAndCited(texts)
  <1> DEFINE L == LedeSentences
             A == {<<s>> : s \in LedeSentences} \cup {<<[core |-> c, lede |-> FALSE], t>> : c \in Cores, t \in LedeSentences}
  <1>1. \A c \in Cores : [core |-> c, lede |-> FALSE] \in L
    BY DEF LedeSentences
  <1>2. A \subseteq Texts
    <2>1. \A s \in L : <<s>> \in Seq(L) /\ <<s>> # <<>>
      <3> HIDE DEF L
      <3> QED
        BY ShortLists
    <2>2. \A s \in L, t \in L : <<s, t>> \in Seq(L) /\ <<s, t>> # <<>>
      <3> HIDE DEF L
      <3> QED
        BY ShortLists
    <2> SUFFICES ASSUME NEW x \in A PROVE x \in Seq(L) \ {<<>>}
      BY DEF Texts
    <2>3. CASE \E s \in LedeSentences : x = <<s>>
      BY <2>1, <2>3
    <2>4. CASE \E c \in Cores, t \in LedeSentences : x = <<[core |-> c, lede |-> FALSE], t>>
      <3>1. PICK c \in Cores, t \in L : x = <<[core |-> c, lede |-> FALSE], t>>
        BY <2>4
      <3> DEFINE s == [core |-> c, lede |-> FALSE]
      <3>2. s \in L /\ x = <<s, t>>
        BY <1>1, <3>1
      <3> HIDE DEF s, L
      <3> QED
        BY <2>2, <3>2
    <2> QED
      BY <2>3, <2>4
  <1>3. texts \in [1..4 -> A]
    BY DEF DedupeInputs
  <1>4. texts \in Seq(Texts)
    <2> HIDE DEF A
    <2> QED
      BY <1>2, <1>3
  <1> QED
    BY <1>4, SaidOnce

\* So are the visits to a page.
LEMMA AskedToVisit ==
  ASSUME NEW i \in VisitInputs
  PROVE  OnlyOnesOwn(i)
  <1>1. PICK q \in {"absent", "malformed", "unknown", "known"}, o \in {"e1", "e2"}, a \in {"e1", "e2"}, d \in BOOLEAN,
             e \in SeqOf(BOOLEAN, 3) :
             i = [requested |-> q, owner |-> o, actor |-> a, is_admin |-> d, ended |-> e]
    BY DEF VisitInputs
  <1>2. e \in Seq(BOOLEAN)
    BY ListsAreSequences
  <1> QED
    BY <1>1, <1>2, OwnOnly

\* So are the spans of a turn.
LEMMA AskedToCount ==
  ASSUME NEW spans \in SpanInputs
  PROVE  PagesCountAlike(spans)
  <1> DEFINE R == {"G1", "G2"}
             V == {"allow", "strip"}
             I == {"r1", "r2"}
             T == {"met", "unmet", "not_stated"}
             S == {Verdict(r, v) : r \in R, v \in V}
                    \cup {Scored(rows) : rows \in {{<<"r1", "met">>}, {<<"r1", "unmet">>}, {<<"r1", "not_stated">>, <<"r2", "met">>}}}
             W == TurnSpans(R, V, I, T)
  <1>1. IsFiniteSet(R) /\ Cardinality(R) <= SAFETY_RULES
    <2>1. IsFiniteSet({"G1"}) /\ Cardinality({"G1"}) = 1
      BY FS_Singleton
    <2>2. IsFiniteSet({"G1"} \cup {"G2"}) /\ Cardinality({"G1"} \cup {"G2"}) = 2
      BY <2>1, FS_AddElement
    <2>3. {"G1"} \cup {"G2"} = R
      OBVIOUS
    <2> QED
      BY <2>2, <2>3 DEF SAFETY_RULES
  <1>2. S \subseteq W
    <2>1. \A r \in R, v \in V : Verdict(r, v) \in W
      BY DEF Verdict, TurnSpans
    <2>2. \A rows \in Scorings(I, T) : Scored(rows) \in W
      BY DEF Scored, TurnSpans
    <2>3. {<<"r1", "met">>} \in Scorings(I, T) /\ {<<"r1", "unmet">>} \in Scorings(I, T)
          /\ {<<"r1", "not_stated">>, <<"r2", "met">>} \in Scorings(I, T)
      BY DEF Scorings
    <2> HIDE DEF W, I, T
    <2> QED
      BY <2>1, <2>2, <2>3
  <1>3. spans \in Seq(S)
    <2>1. spans \in SeqOf(S, 4)
      BY DEF SpanInputs
    <2> HIDE DEF S
    <2> QED
      BY <2>1, ListsAreSequences
  <1>4. spans \in Seq(W)
    <2> HIDE DEF W, S
    <2> QED
      BY <1>2, <1>3
  <1> QED
    BY <1>1, <1>4, CountsAlike

\* So are the ends of a turn.
LEMMA AskedToShow ==
  ASSUME NEW i \in AnswerInputs
  PROVE  ReloadShowsTheTurn(i)
  <1> DEFINE O == {"answered", "refused", "awaiting_confirmation", "clarify"}
             Y == {"policy_fact", "notice"}
             X == {"plain", "secret1", "secret2", "other", "steps", "with_id", "who", "how many", "tell me more"}
             B == Sourced(Y, X)
             R == [outcome : O, blocks : Seq(B), steps : Seq(X), slots : Seq(AskedSlots), has_record : BOOLEAN, column : BOOLEAN]
  <1>1. FactBlocks \cup Notices \subseteq B
    <2>1. \A y \in Y, t \in X, c \in SUBSET CitedSources : Block(y, t, c) \in B
      BY DEF Block, Sourced
    <2>2. {"known"} \in SUBSET CitedSources /\ {"stale"} \in SUBSET CitedSources /\ {"known", "stale"} \in SUBSET CitedSources /\ {} \in SUBSET CitedSources
      BY DEF CitedSources
    <2> HIDE DEF B
    <2>3. ASSUME NEW b \in FactBlocks PROVE b \in B
      <3>1. PICK t \in {"plain", "secret1"}, c \in {{"known"}, {"stale"}, {"known", "stale"}} : b = Block("policy_fact", t, c)
        BY DEF FactBlocks
      <3>2. t \in X /\ c \in SUBSET CitedSources /\ "policy_fact" \in Y
        BY <2>2
      <3> QED
        BY <2>1, <3>1, <3>2
    <2>4. ASSUME NEW b \in Notices PROVE b \in B
      <3>1. "notice" \in Y /\ "other" \in X
        OBVIOUS
      <3>2. CASE \E t \in {"plain", "other", "secret2", "steps"} : b = Block("notice", t, {})
        BY <2>1, <2>2, <3>1, <3>2
      <3>3. CASE b = Block("notice", "other", {"stale"})
        BY <2>1, <2>2, <3>1, <3>3
      <3> QED
        BY <3>2, <3>3 DEF Notices
    <2> QED
      BY <2>3, <2>4
  <1>2. <<"other">> \in Seq(X) /\ <<>> \in Seq(X) /\ <<>> \in Seq(B) /\ <<>> \in Seq(AskedSlots) /\ SlotsAsked \subseteq Seq(AskedSlots)
    <2>1. "other" \in X /\ "identity" \in AskedSlots /\ "days" \in AskedSlots
      BY DEF AskedSlots
    <2> HIDE DEF X, B
    <2> QED
      BY <2>1, ShortLists DEF SlotsAsked
  <1>3. <<Block("notice", "plain", {})>> \in Seq(B)
    <2> DEFINE b == Block("notice", "plain", {})
    <2>1. b \in B
      BY <1>1 DEF Notices
    <2> HIDE DEF B, b
    <2>2. <<b>> \in Seq(B)
      BY <2>1, ShortLists
    <2> QED
      BY <2>2 DEF b
  <1>4. \A o \in O, b \in Seq(B), s \in Seq(X), t \in Seq(AskedSlots), r \in BOOLEAN, m \in BOOLEAN : Answer(o, b, s, t, r, m) \in R
    <2> HIDE DEF O, B, X
    <2> QED
      BY DEF Answer
  <1>5. ASSUME i \in R, i.outcome = "clarify" /\ i.has_record => "identity" \notin ToSet(i.slots) PROVE i \in Endings(O, Y, X)
    BY <1>5 DEF Endings
  <1>6. "notice" \in Y /\ ClarifyQuestions \subseteq X
    BY DEF ClarifyQuestions
  <1>7. CASE i \in AnsweredInputs
    <2>1. PICK o \in {"answered", "refused"}, b \in ServedAnswers, s \in StepLists, m \in BOOLEAN :
             i = Answer(o, b, s, <<>>, TRUE, m)
      BY <1>7 DEF AnsweredInputs, Answer
    <2>2. b \in Seq(FactBlocks \cup Notices) /\ s \in Seq({"plain", "with_id", "secret1", "secret2"})
      BY ListsAreSequences DEF ServedAnswers, StepLists
    <2>3. {"plain", "with_id", "secret1", "secret2"} \subseteq X /\ o \in O /\ o # "clarify"
      OBVIOUS
    <2> HIDE DEF O, B, X
    <2>4. b \in Seq(B) /\ s \in Seq(X)
      BY <1>1, <2>2, <2>3
    <2>5. i \in R
      BY <1>2, <1>4, <2>1, <2>3, <2>4
    <2>6. i.outcome # "clarify"
      BY <2>1, <2>3 DEF Answer
    <2>7. i \in Endings(O, Y, X)
      BY <1>5, <2>5, <2>6
    <2> QED
      BY <1>6, <2>7, ReloadShows
  <1>8. CASE i \in ParkedInputs
    <2>1. PICK m \in BOOLEAN : i = Answer("awaiting_confirmation", <<Block("notice", "plain", {})>>, <<>>, <<>>, TRUE, m)
      BY <1>8 DEF ParkedInputs, Answer
    <2>2. "awaiting_confirmation" \in O
      OBVIOUS
    <2> HIDE DEF O, B, X
    <2>3. i \in R
      BY <1>2, <1>3, <1>4, <2>1, <2>2
    <2>4. i.outcome # "clarify"
      BY <2>1 DEF Answer
    <2>5. i \in Endings(O, Y, X)
      BY <1>5, <2>3, <2>4
    <2> QED
      BY <1>6, <2>5, ReloadShows
  <1>9. CASE i \in ClarifyingInputs
    <2>1. PICK s \in SlotsAsked, r \in BOOLEAN, m \in BOOLEAN :
             i = Answer("clarify", <<>>, <<"other">>, s, r, m)
      BY <1>9 DEF ClarifyingInputs, Answer
    <2>2. "clarify" \in O
      OBVIOUS
    <2> HIDE DEF O, B, X
    <2>3. i \in R
      BY <1>2, <1>4, <2>1, <2>2
    <2>4. i.has_record => "identity" \notin ToSet(i.slots)
      BY <1>9 DEF ClarifyingInputs
    <2>5. i \in Endings(O, Y, X)
      BY <1>5, <2>3, <2>4
    <2> QED
      BY <1>6, <2>5, ReloadShows
  <1> QED
    BY <1>7, <1>8, <1>9 DEF AnswerInputs
=============================================================================
