-------------------------------- MODULE Retrieval --------------------------------
(***************************************************************************)
(* From a policy document to a ranked passage: its headings and blocks     *)
(* (rag/parse), the windows a long block is cut into (rag/chunk.py), the   *)
(* two arms over the index fused into one ranking (rag/index.py,           *)
(* rag/retrieve.py), and the topic backfill of search_policy_documents.    *)
(***************************************************************************)
EXTENDS Filters

-----------------------------------------------------------------------------
(* Parsing. A line is a title (level 0), a heading of level 1 or 2, a code *)
(* fence, text or blank; a # inside a fence is text.                       *)
DocLines == {"title", "h1", "h2", "fence", "text", "blank"}
ParseInputs == UNION {[1..n -> DocLines] : n \in 1..5}
Level(line) == CASE line = "title" -> 0 [] line = "h1" -> 1 [] line = "h2" -> 2 [] OTHER -> 9

\* md.lines: the level of each line, 9 for a line of the body.
Levels(lines) ==
    LET fences(i) == Cardinality({j \in 1..(i - 1) : lines[j] = "fence"})
    IN  [i \in DOMAIN lines |-> IF fences(i) % 2 = 1 THEN 9 ELSE Level(lines[i])]

\* The open headings, outermost first, each the line it is on, after line i.
OpenLevels(levels) ==
    LET open[i \in 0..Len(levels)] ==
            IF i = 0 \/ levels[i] = 0 THEN <<>>
            ELSE IF levels[i] = 9 THEN open[i - 1]
            ELSE Append(Filter(open[i - 1], LAMBDA h : levels[h] < levels[i]), i)
    IN  open

\* The line before each section: none is before the first, the others are their headings.
StartLines(levels) == <<0>> \o Filter([i \in DOMAIN levels |-> i], LAMBDA i : levels[i] # 9)

\* _clean_body: how long the n-th section's body is. Of its blank lines those at the start,
\* at the end and after another are dropped.
BodyLength(lines, starts, n) ==
    LET last == IF n = Len(starts) THEN Len(lines) ELSE starts[n + 1] - 1
        all == {i \in (starts[n] + 1)..last : lines[i] # "blank"}
    IN  IF all = {} THEN 0
        ELSE Cardinality(all) + Cardinality({i \in Min(all)..Max(all) : lines[i] = "blank" /\ lines[i - 1] # "blank"})

\* assemble: a block for each section that has a body, and where the body is in the text.
\* Two characters are between what is in the text and what is put behind it: the title,
\* each heading and each body.
assemble(lines) ==
    LET levels == Levels(lines)
        open == OpenLevels(levels)
        starts == StartLines(levels)
        body(n) == BodyLength(lines, starts, n)
        heading(n) == IF starts[n] # 0 /\ levels[starts[n]] # 0 THEN 1 ELSE 0
        filled[n \in 0..Len(starts)] ==
            IF n = 0 THEN IF \E i \in DOMAIN lines : levels[i] = 0 THEN 3 ELSE 0
            ELSE filled[n - 1] + 3 * heading(n) + IF body(n) = 0 THEN 0 ELSE body(n) + 2
        offset(n) == filled[n - 1] + 3 * heading(n)
        block(n) == [path |-> open[starts[n]], start |-> offset(n), end |-> offset(n) + body(n), at |-> starts[n]]
    IN  FlattenSeq([n \in DOMAIN starts |-> IF body(n) = 0 THEN <<>> ELSE <<block(n)>>])

\* These blocks are those of lines of these levels.
BlocksAreUnder(lines, levels, blocks) ==
    LET above(h, at) == /\ h <= at /\ levels[h] \in 1..2
                        /\ \A i \in (h + 1)..at : levels[i] > levels[h]
    IN  /\ \A n \in DOMAIN blocks :
              /\ ToSet(blocks[n].path) = {h \in 1..blocks[n].at : above(h, blocks[n].at)}
              /\ \A m \in 1..(n - 1) : blocks[m].end + 2 <= blocks[n].start
        /\ \A i \in DOMAIN lines : (levels[i] = 9 /\ lines[i] # "blank") =>
              \E b \in ToSet(blocks) : b.at < i /\ \A j \in (b.at + 1)..i : levels[j] = 9

(***************************************************************************)
(* Each block is under the nearest heading of every lower level since the  *)
(* last title, the blocks follow one another without overlap, and none of  *)
(* the body's lines is lost (parse.assemble).                              *)
(***************************************************************************)
BlocksAreUnderTheirHeadings(lines) == BlocksAreUnder(lines, Levels(lines), assemble(lines))

-----------------------------------------------------------------------------
(* Windows. A character is a letter, a space or the end of a sentence; a   *)
(* block has no run of spaces, as long as one would be a window of none.   *)
MaxChars == 4
WindowChars == 4
OverlapChars == 1
MinChars == 2
WindowInputs == {text \in UNION {[1..n -> {"a", " ", "."}] : n \in {3, 5, 7, 9}} :
                    \A n \in 1..(Len(text) - 1) : text[n] # " " \/ text[n + 1] # " "}

\* The end of the last sentence that ends in low..high, else after the last space. A full
\* stop just before high ends one whatever follows, as the search stops at high.
_cut(text, low, high) ==
    LET at(i) == text[i + 1]
        ends == {i + 1 : i \in {j \in low..(high - 1) : at(j) = "." /\ (j + 1 = high \/ at(j + 1) = " ")}}
        spaces == {i \in low..(high - 1) : at(i) = " "}
    IN  IF ends # {} THEN Max(ends)
        ELSE IF spaces # {} /\ Max(spaces) > low THEN Max(spaces) + 1 ELSE high

Larger(a, b) == IF a > b THEN a ELSE b
Smaller(a, b) == IF a < b THEN a ELSE b

\* The window that starts at start: its end never goes back behind the one before it.
WindowEnd(text, start, previous) ==
    LET full == Smaller(start + WindowChars, Len(text))
        end == IF Len(text) - full < MinChars THEN Len(text) ELSE full
        low == Larger(start + MinChars, previous + 1)
    IN  IF end < Len(text) /\ low < end THEN _cut(text, low, end) ELSE end

\* A window is <<first, last + 1>>; the next begins in what it overlaps.
NextStart(w) == Larger(w[2] - OverlapChars, w[1] + 1)
NextWindow(text, before) == <<NextStart(before), WindowEnd(text, NextStart(before), before[2])>>

\* The windows, before each is stripped, up to the one after which the loop ends.
WindowSpans(text) ==
    LET window[n \in 1..Len(text)] ==
            IF n = 1 THEN <<0, WindowEnd(text, 0, 0)>> ELSE NextWindow(text, window[n - 1])
        ends == {n \in 1..Len(text) : window[n][2] >= Len(text) \/ NextStart(window[n]) >= Len(text)}
    IN  IF Len(text) <= MaxChars THEN <<<<0, Len(text)>>>> ELSE SubSeq(window, 1, Min(ends))

\* windows: where each stripped piece starts and ends; all space is no piece.
windows(text) ==
    LET spans == WindowSpans(text)
        letters(w) == {i \in w[1]..(w[2] - 1) : text[i + 1] # " "}
        piece(w) == IF letters(w) = {} THEN <<>> ELSE <<<<Min(letters(w)), Max(letters(w)) + 1>>>>
    IN  IF Len(text) <= MaxChars THEN <<<<0, Len(text)>>>>
        ELSE FlattenSeq([n \in DOMAIN spans |-> piece(spans[n])])

\* These pieces of the windows spans leave out nothing of text, and none is another.
PiecesCover(text, pieces, spans) ==
    /\ \A i \in DOMAIN text : text[i] # " " => \E n \in DOMAIN pieces : pieces[n][1] < i /\ i <= pieces[n][2]
    /\ \A n \in DOMAIN pieces : pieces[n][2] - pieces[n][1] <= Larger(MaxChars, WindowChars + MinChars - 1)
    /\ \A m, n \in DOMAIN pieces : m < n => pieces[m] # pieces[n] /\ pieces[m][1] <= pieces[n][1]
    /\ \A n \in DOMAIN spans : n > 1 => spans[n][2] > spans[n - 1][2]

(***************************************************************************)
(* Every character that is not space is in some piece, no piece is longer  *)
(* than a window and a short tail, and no two are the same, so that no two *)
(* chunks of a block have one id (chunk.windows).                          *)
(***************************************************************************)
WindowsCoverTheText(text) == PiecesCover(text, windows(text), WindowSpans(text))

-----------------------------------------------------------------------------
(* Ranking. Four chunks in two documents; the dense score of each, the     *)
(* order of the lexical arm, the topic's chunks.                           *)
Rowids == 1..4
DocOf == <<"d1", "d1", "d1", "d2">>
ARM_K == 3
RRF_K0 == 60
SearchInputs == [score : [Rowids -> 0..2], lexical : {<<>>, <<4, 1>>, <<2, 1>>, <<3, 4>>},
                 topic : {{}, {1, 2}, {1, 4}}, k : 1..3, floor : {1}, injected : {{1}}]

\* Members by falling weight: no two weigh the same.
ByWeight(S, weight) ==
    [n \in 1..Cardinality(S) |-> CHOOSE x \in S : Cardinality({y \in S : weight[y] > weight[x]}) = n - 1]
FirstOf(s, n) == SubSeq(s, 1, Smaller(n, Len(s)))

\* The dense score of a chunk, and among equals the smaller row first.
Closeness == [s \in [Rowids -> 0..2] |-> [r \in Rowids |-> 10 * s[r] + 9 - r]]

\* The place of a chunk in each arm's ARM_K, 0 when the arm did not find it.
dense_knn(i, rowids, r) ==
    LET place == Cardinality({s \in rowids : Closeness[i.score][s] >= Closeness[i.score][r]})
    IN  IF place > ARM_K THEN 0 ELSE place
bm25_top(i, rowids, r) ==
    LET place == Cardinality({n \in DOMAIN i.lexical : i.lexical[n] \in rowids
                                 /\ \E m \in DOMAIN i.lexical : i.lexical[m] = r /\ n <= m})
    IN  IF place > ARM_K THEN 0 ELSE place

\* rrf_score in parts of 61 * 62 * 63: 1 / (60 + rank) of each arm that found it.
rrf_score(rank) == IF rank = 0 THEN 0 ELSE (61 * 62 * 63) \div (RRF_K0 + rank)

\* The floor is on the dense score, and the k best are taken of what passes it.
retrieve(i, rowids, k) ==
    LET found == {r \in rowids : dense_knn(i, rowids, r) > 0 \/ bm25_top(i, rowids, r) > 0}
        kept == {r \in found : i.score[r] >= i.floor}
        weight == [r \in kept |-> 100 * (rrf_score(dense_knn(i, rowids, r)) + rrf_score(bm25_top(i, rowids, r)))
                                    + Closeness[i.score][r]]
    IN  FirstOf(ByWeight(kept, weight), k)

backfill_reason_for(hits, k) ==
    IF Len(hits) < k THEN "fewer_than_k"
    ELSE IF Cardinality({DocOf[r] : r \in ToSet(hits)}) = 1 THEN "single_document" ELSE "none"

merge_backfill(filtered, unfiltered, k, reason) ==
    LET keep == IF reason = "fewer_than_k" THEN filtered ELSE FirstOf(filtered, (k + 1) \div 2)
        docs == {DocOf[r] : r \in ToSet(keep)}
        fresh == Filter(unfiltered, LAMBDA r : r \notin ToSet(keep))
        rest == Filter(filtered, LAMBDA r : r \notin ToSet(keep) \cup ToSet(fresh))
    IN  FirstOf(keep \o Filter(fresh, LAMBDA r : DocOf[r] \notin docs)
                     \o Filter(fresh, LAMBDA r : DocOf[r] \in docs) \o rest, k)

\* A quarantined hit is shown without its text.
_hit(i, r) == [row |-> r, text |-> r \notin i.injected, quarantined |-> r \in i.injected]

_search(i) ==
    LET filtered == retrieve(i, IF i.topic = {} THEN Rowids ELSE i.topic, i.k)
        reason == IF i.topic = {} THEN "none" ELSE backfill_reason_for(filtered, i.k)
        ranked == IF reason = "none" THEN filtered
                  ELSE merge_backfill(filtered, retrieve(i, Rowids, 2 * i.k), i.k, reason)
        backfilled == ToSet(ranked) \ ToSet(filtered) # {}
    IN  [hits |-> [n \in DOMAIN ranked |-> _hit(i, ranked[n])], backfilled |-> backfilled,
         reason |-> IF backfilled THEN reason ELSE "none"]

\* The answer out, which names these rows, is one that i may have.
FoundAsPromised(i, out, rows) ==
    LET strong == {r \in Rowids : i.score[r] >= i.floor}
        own == {r \in i.topic : r \in strong}
        best == {r \in strong : Cardinality({s \in Rowids : i.score[s] > i.score[r] \/ (i.score[s] = i.score[r] /\ s < r)}) < ARM_K}
        need == Smaller(Cardinality(own), (i.k + 1) \div 2)
    IN  /\ Len(rows) <= i.k /\ Cardinality(ToSet(rows)) = Len(rows) /\ ToSet(rows) \subseteq strong
        /\ Len(rows) < i.k => best \subseteq ToSet(rows)
        /\ \A n \in DOMAIN rows : (n <= need /\ i.topic # {}) => rows[n] \in i.topic
        /\ (i.topic # {} /\ i.k > 1 /\ Len(rows) = i.k /\ \A r \in own : DocOf[r] = "d1") =>
              (4 \in ToSet(retrieve(i, Rowids, 2 * i.k)) => 4 \in ToSet(rows))
        /\ out.backfilled => ~(ToSet(rows) \subseteq i.topic) /\ i.topic # {}
        /\ \A h \in ToSet(out.hits) : h.text = (h.row \notin i.injected)

(***************************************************************************)
(* A search gives k passages whenever so many are above the floor and      *)
(* reached by an arm, each once and none below it; a topic's own passages  *)
(* come first, at least half of what was asked for; a topic that has but   *)
(* one document does not hide another above the floor; and a quarantined   *)
(* passage has no text (retrieve, merge_backfill, _search).                *)
(***************************************************************************)
SearchKeepsItsPromises(i) ==
    LET out == _search(i) IN FoundAsPromised(i, out, [n \in DOMAIN out.hits |-> out.hits[n].row])
=============================================================================
