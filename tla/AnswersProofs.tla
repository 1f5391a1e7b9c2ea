---------------------------- MODULE AnswersProofs ----------------------------
(***************************************************************************)
(* What VerdictProofs, BackedProofs and StatedProofs say of every input,   *)
(* and what is proved here of passages and searches (Retrieval), as        *)
(* invariants of Answers: no question that is put is answered with a       *)
(* verdict that is not earned, in words that are not backed, or from       *)
(* evidence that is not exact.                                             *)
(***************************************************************************)
EXTENDS Answers, BackedProofs, StatedProofs

-----------------------------------------------------------------------------
(* Windows.                                                                *)
\* A text without a run of spaces.
Spaced(text) == \A n \in 1..(Len(text) - 1) : text[n] # " " \/ text[n + 1] # " "

\* Where a window of a text of N characters may end that starts at s, the one before it
\* ending at p.
EndsWell(e, s, p, N) ==
    /\ e \in Int /\ p < e
    /\ \/ e = N /\ N - s <= WindowChars + MinChars - 1
       \/ e <= N - MinChars /\ s + 3 <= e /\ e <= s + WindowChars

\* A window ends at the end of the text or after a cut that goes on.
LEMMA WindowGoesOn ==
  ASSUME NEW C, NEW text \in Seq(C), NEW s \in Int, NEW p \in Int,
         0 <= s, s + 3 <= Len(text), 0 <= p, p <= s + 1
  PROVE  EndsWell(WindowEnd(text, s, p), s, p, Len(text))
  <1> DEFINE N == Len(text)
             full == Smaller(s + WindowChars, N)
             end == IF N - full < MinChars THEN N ELSE full
             low == Larger(s + MinChars, p + 1)
             e == WindowEnd(text, s, p)
  <1>1. N \in Nat /\ WindowChars = 4 /\ MinChars = 2
    BY DEF WindowChars, MinChars
  <1>2. e = IF end < N /\ low < end THEN _cut(text, low, end) ELSE end
    BY DEF WindowEnd
  <1> HIDE DEF N, e
  <1>3. full = (IF s + 4 < N THEN s + 4 ELSE N) /\ low = s + 2
    BY <1>1 DEF Smaller, Larger
  <1> HIDE DEF full, low
  <1>4. CASE end = N
    <2>1. e = N /\ N - s <= 5
      BY <1>1, <1>2, <1>3, <1>4
    <2> QED
      BY <1>1, <2>1 DEF EndsWell, N, e
  <1>5. CASE end # N
    <2>1. end = s + 4 /\ end <= N - 2 /\ low < end /\ e = _cut(text, low, end)
      BY <1>1, <1>2, <1>3, <1>5
    <2> HIDE DEF end
    <2> DEFINE at(i) == text[i + 1]
               stops == {j \in low..(end - 1) : at(j) = "." /\ (j + 1 = end \/ at(j + 1) = " ")}
               ends == {i + 1 : i \in stops}
               spaces == {i \in low..(end - 1) : at(i) = " "}
    <2>2. e = IF ends # {} THEN Max(ends) ELSE IF spaces # {} /\ Max(spaces) > low THEN Max(spaces) + 1 ELSE end
      BY <2>1 DEF _cut
    <2>3. low..(end - 1) = {s + 2, s + 3}
      BY <1>3, <2>1
    <2>4. ends \subseteq {s + 3, s + 4} /\ spaces \subseteq {s + 2, s + 3}
      <3>1. stops \subseteq low..(end - 1) /\ spaces \subseteq low..(end - 1)
        BY Zenon
      <3> HIDE DEF stops, spaces
      <3> QED
        BY <2>3, <3>1
    <2> HIDE DEF ends, spaces
    <2>5. s + 4 \in Nat /\ {s + 3, s + 4} \subseteq 0..(s + 4) /\ {s + 2, s + 3} \subseteq 0..(s + 4)
      OBVIOUS
    <2>6. ends # {} => Max(ends) \in {s + 3, s + 4}
      BY <2>4, <2>5, MaxIsGreatest
    <2>7. spaces # {} => Max(spaces) \in {s + 2, s + 3}
      BY <2>4, <2>5, MaxIsGreatest
    <2>8. e \in {s + 3, s + 4}
      <3>1. CASE ends # {}
        BY <2>2, <2>6, <3>1
      <3>2. CASE ends = {} /\ spaces # {} /\ Max(spaces) > low
        <4>1. Max(spaces) = s + 3
          BY <1>3, <2>7, <3>2
        <4>2. e = Max(spaces) + 1
          BY <2>2, <3>2
        <4> QED
          BY <4>1, <4>2
      <3>3. CASE ends = {} /\ ~(spaces # {} /\ Max(spaces) > low)
        BY <2>1, <2>2, <3>3
      <3> QED
        BY <3>1, <3>2, <3>3
    <2> QED
      BY <1>1, <2>1, <2>8 DEF EndsWell, N, e
  <1> QED
    BY <1>4, <1>5

\* Wherever a window may start, it ends somewhere.
LEMMA WindowEnds ==
  ASSUME NEW C, NEW text \in Seq(C), NEW s \in Nat, NEW p \in Nat
  PROVE  WindowEnd(text, s, p) \in Nat
  <1> DEFINE N == Len(text)
             full == Smaller(s + WindowChars, N)
             end == IF N - full < MinChars THEN N ELSE full
             low == Larger(s + MinChars, p + 1)
             at(i) == text[i + 1]
             stops == {j \in low..(end - 1) : at(j) = "." /\ (j + 1 = end \/ at(j + 1) = " ")}
             ends == {i + 1 : i \in stops}
             spaces == {i \in low..(end - 1) : at(i) = " "}
  <1>1. WindowEnd(text, s, p) = IF end < N /\ low < end
                                THEN IF ends # {} THEN Max(ends) ELSE IF spaces # {} /\ Max(spaces) > low THEN Max(spaces) + 1 ELSE end
                                ELSE end
    BY DEF WindowEnd, _cut
  <1>2. end \in Nat /\ low \in Nat
    BY DEF Smaller, Larger, WindowChars, MinChars
  <1> HIDE DEF end, low
  <1>3. ends \subseteq 0..end /\ spaces \subseteq 0..end
    <2>1. stops \subseteq low..(end - 1) /\ spaces \subseteq low..(end - 1)
      BY Zenon
    <2> HIDE DEF stops, spaces
    <2> QED
      BY <1>2, <2>1
  <1> HIDE DEF ends, spaces
  <1>4. (ends # {} => Max(ends) \in 0..end) /\ (spaces # {} => Max(spaces) \in 0..end)
    BY <1>2, <1>3, MaxIsGreatest
  <1>5. \A n \in 0..end : n \in Nat /\ n + 1 \in Nat
    BY <1>2
  <1>6. CASE end < N /\ low < end /\ ends # {}
    BY <1>1, <1>4, <1>5, <1>6
  <1>7. CASE end < N /\ low < end /\ ends = {} /\ spaces # {} /\ Max(spaces) > low
    BY <1>1, <1>4, <1>5, <1>7
  <1>8. CASE ~(end < N /\ low < end /\ ends # {}) /\ ~(end < N /\ low < end /\ ends = {} /\ spaces # {} /\ Max(spaces) > low)
    BY <1>1, <1>2, <1>8
  <1> QED
    BY <1>6, <1>7, <1>8

LEMMA NextWindowIsOne ==
  ASSUME NEW C, NEW text \in Seq(C), NEW w \in Nat \X Nat
  PROVE  NextWindow(text, w) \in Nat \X Nat
  <1>1. w[1] \in Nat /\ w[2] \in Nat
    OBVIOUS
  <1>2. NextStart(w) \in Nat
    BY <1>1 DEF NextStart, Larger, OverlapChars
  <1>3. WindowEnd(text, NextStart(w), w[2]) \in Nat
    BY <1>1, <1>2, WindowEnds
  <1> QED
    BY <1>2, <1>3 DEF NextWindow

\* The first m windows of a text of N characters.
Covers(w, m, N) ==
    /\ \A n \in 1..m : /\ w[n] \in Nat \X Nat /\ w[n][1] + 3 <= w[n][2] /\ w[n][2] <= N
                       /\ w[n][2] - w[n][1] <= WindowChars + MinChars - 1
    /\ \A n \in 1..(m - 1) : w[n + 1][1] = w[n][2] - 1 /\ w[n][2] < w[n + 1][2] /\ w[n][2] <= N - MinChars
    /\ w[1][1] = 0 /\ w[m][2] = N

\* w is how the loop goes on.
Windowed(w, text) ==
    \A n \in 1..Len(text) : w[n] = IF n = 1 THEN <<0, WindowEnd(text, 0, 0)>> ELSE NextWindow(text, w[n - 1])

\* The loop is defined.
LEMMA WindowsAreALoop ==
  ASSUME NEW C, NEW text \in Seq(C), MaxChars < Len(text)
  PROVE  \E w \in [1..Len(text) -> Nat \X Nat] :
            /\ Windowed(w, text)
            /\ WindowSpans(text) = SubSeq(w, 1, Min({n \in 1..Len(text) : w[n][2] >= Len(text) \/ NextStart(w[n]) >= Len(text)}))
  <1> DEFINE N == Len(text)
             D == Nat \X Nat
             b == <<0, WindowEnd(text, 0, 0)>>
             Window[n \in 1..N] == IF n = 1 THEN <<0, WindowEnd(text, 0, 0)>> ELSE NextWindow(text, Window[n - 1])
             step == [x \in Int \X D |-> NextWindow(text, x[2])]
  <1>1. N \in Nat /\ 1 \in Int /\ N \in Int /\ ~(N <= MaxChars)
    BY DEF MaxChars
  <1>2. b \in D
    BY WindowEnds
  <1>3. step \in [Int \X D -> D]
    <2>1. ASSUME NEW x \in Int \X D PROVE NextWindow(text, x[2]) \in D
      BY NextWindowIsOne
    <2> QED
      BY <2>1
  <1>4. \A n \in Int : \A x \in D : step[<<n, x>>] = NextWindow(text, x)
    OBVIOUS
  <1>5. PICK f \in [1..N -> D] : Loops(f, 1, N, b, step)
    <2> HIDE DEF N, D, b, step
    <2> QED
      BY <1>1, <1>2, <1>3, LoopIsDefined
  <1>6. ASSUME NEW n \in 1..N PROVE f[n] = IF n = 1 THEN b ELSE NextWindow(text, f[n - 1])
    <2> HIDE DEF step, b, D
    <2>1. f[n] = IF n = 1 THEN b ELSE step[<<n, f[n - 1]>>]
      BY <1>5 DEF Loops
    <2>2. n # 1 => n \in Int /\ f[n - 1] \in D
      BY <1>1, <1>5
    <2> QED
      BY <1>4, <2>1, <2>2
  <1>7. f = [n \in 1..N |-> IF n = 1 THEN <<0, WindowEnd(text, 0, 0)>> ELSE NextWindow(text, f[n - 1])]
    <2> HIDE DEF D, step
    <2> QED
      BY <1>5, <1>6
  <1>8. Window = [n \in 1..N |-> IF n = 1 THEN <<0, WindowEnd(text, 0, 0)>> ELSE NextWindow(text, Window[n - 1])]
    BY <1>7
  <1>9. WindowSpans(text) = SubSeq(Window, 1, Min({n \in 1..N : Window[n][2] >= N \/ NextStart(Window[n]) >= N}))
    BY <1>1 DEF WindowSpans
  <1> HIDE DEF Window
  <1>10. \A n \in 1..N : Window[n] = IF n = 1 THEN b ELSE NextWindow(text, Window[n - 1])
    BY <1>8
  <1>11. \A n \in 1..N : Window[n] \in D
    <2> DEFINE S == {n \in 1..N : Window[n] \in D}
    <2>1. 1..N # {} => 1 \in S
      <3>1. ASSUME NEW n \in 1..N PROVE 1 \in 1..N
        BY <1>1
      <3> QED
        BY <1>2, <1>10, <3>1
    <2>2. ASSUME NEW n \in (1 + 1)..N, n - 1 \in S PROVE n \in S
      <3>1. n \in 1..N /\ n # 1 /\ Window[n - 1] \in D
        BY <1>1, <2>2
      <3>2. NextWindow(text, Window[n - 1]) \in D
        BY <3>1, NextWindowIsOne
      <3> QED
        BY <1>10, <3>1, <3>2
    <2>3. 1..N = {} \/ \A n \in 1..N : n \in S
      <3> HIDE DEF S
      <3> QED
        BY <1>1, <2>1, <2>2, UpFromTheFirst
    <2> QED
      BY <2>3
  <1>12. Window \in [1..N -> D]
    BY <1>8, <1>11
  <1> QED
    BY <1>9, <1>10, <1>12 DEF Windowed

\* A window like the others: long enough, and the end of the text or well before it.
Window(w, n, N) ==
    /\ w \in Nat \X Nat /\ w[1] + 3 <= w[2] /\ w[2] - w[1] <= WindowChars + MinChars - 1 /\ n + 2 <= w[2]
    /\ w[2] = N \/ w[2] <= N - MinChars

LEMMA FirstWindow ==
  ASSUME NEW C, NEW text \in Seq(C), MaxChars < Len(text)
  PROVE  Window(<<0, WindowEnd(text, 0, 0)>>, 1, Len(text))
  <1> DEFINE e == WindowEnd(text, 0, 0)
             N == Len(text)
  <1>1. N \in Nat /\ 4 < N /\ WindowChars = 4 /\ MinChars = 2
    BY DEF MaxChars, WindowChars, MinChars
  <1>2. EndsWell(e, 0, 0, N)
    BY <1>1, WindowGoesOn
  <1>3. e \in Nat
    BY WindowEnds
  <1> HIDE DEF e, N
  <1>4. 3 <= e /\ e <= 5 /\ (e = N \/ e <= N - 2)
    BY <1>1, <1>2, <1>3 DEF EndsWell
  <1>5. <<0, e>> \in Nat \X Nat /\ <<0, e>>[1] = 0 /\ <<0, e>>[2] = e
    BY <1>3
  <1> QED
    BY <1>1, <1>3, <1>4, <1>5 DEF Window, e, N

LEMMA WindowAfter ==
  ASSUME NEW C, NEW text \in Seq(C), NEW n \in Nat, NEW w, Window(w, n, Len(text)), w[2] < Len(text)
  PROVE  /\ Window(NextWindow(text, w), n + 1, Len(text))
         /\ NextWindow(text, w)[1] = w[2] - 1 /\ w[2] < NextWindow(text, w)[2] /\ w[2] <= Len(text) - MinChars
  <1> DEFINE N == Len(text)
             s == NextStart(w)
             a == w[1]
             b == w[2]
             e == WindowEnd(text, s, b)
  <1>1. N \in Nat /\ WindowChars = 4 /\ MinChars = 2 /\ OverlapChars = 1
    BY DEF WindowChars, MinChars, OverlapChars
  <1>2. /\ a \in Nat /\ b \in Nat /\ a + 3 <= b /\ b - a <= 5 /\ n + 2 <= b /\ b < N /\ b <= N - 2
    BY <1>1 DEF Window
  <1>3. s = (IF b - 1 > a + 1 THEN b - 1 ELSE a + 1)
    BY <1>1 DEF NextStart, Larger
  <1>4. NextWindow(text, w) = <<s, e>>
    BY DEF NextWindow
  <1> HIDE DEF a, b, s, N
  <1>5. s = b - 1 /\ s \in Nat /\ s + 3 <= N
    BY <1>1, <1>2, <1>3
  <1>6. EndsWell(e, s, b, N) /\ e \in Nat
    <2>1. s \in Int /\ b \in Int /\ 0 <= s /\ s + 3 <= Len(text) /\ 0 <= b /\ b <= s + 1
      BY <1>2, <1>5 DEF N
    <2>2. EndsWell(e, s, b, Len(text))
      BY <2>1, WindowGoesOn
    <2>3. e \in Nat
      BY <1>2, <1>5, WindowEnds
    <2> QED
      BY <2>2, <2>3 DEF N
  <1> HIDE DEF e
  <1>7. s + 3 <= e /\ e - s <= 5 /\ (e = N \/ e <= N - 2) /\ b < e /\ n + 1 + 2 <= e
    BY <1>1, <1>2, <1>5, <1>6 DEF EndsWell
  <1>8. <<s, e>> \in Nat \X Nat /\ <<s, e>>[1] = s /\ <<s, e>>[2] = e
    BY <1>5, <1>6
  <1>9. Window(<<s, e>>, n + 1, N)
    BY <1>1, <1>7, <1>8 DEF Window
  <1> QED
    BY <1>1, <1>2, <1>4, <1>5, <1>7, <1>8, <1>9 DEF N, b

\* The windows cover the text, each from the last character of the one before.
LEMMA WindowsCover ==
  ASSUME NEW C, NEW text \in Seq(C), MaxChars < Len(text)
  PROVE  \E m \in 1..Len(text) : /\ WindowSpans(text) \in Seq(Nat \X Nat) /\ Len(WindowSpans(text)) = m
                               /\ Covers(WindowSpans(text), m, Len(text))
  <1> DEFINE N == Len(text)
             D == Nat \X Nat
  <1>1. N \in Nat /\ 1 \in 1..N /\ 1 \in Int /\ N \in Int
    BY DEF MaxChars
  <1> HIDE DEF N, D
  <1>2. PICK w \in [1..N -> D] :
          /\ Windowed(w, text)
          /\ WindowSpans(text) = SubSeq(w, 1, Min({n \in 1..N : w[n][2] >= N \/ NextStart(w[n]) >= N}))
    BY WindowsAreALoop DEF N, D
  <1> DEFINE Over == {n \in 1..N : w[n][2] >= N \/ NextStart(w[n]) >= N}
             Reached(n) == \A k \in 1..(n - 1) : k \notin Over
             S == {n \in 1..N : Reached(n) => Window(w[n], n, N)}
  <1>3. w[1] = <<0, WindowEnd(text, 0, 0)>> /\ \A n \in 1..N : n # 1 => w[n] = NextWindow(text, w[n - 1])
    BY <1>1, <1>2 DEF Windowed, N
  <1>4. 1 \in S
    BY <1>1, <1>3, FirstWindow DEF N
  <1>5. ASSUME NEW n \in 1..N, n # 1, Reached(n), Window(w[n - 1], n - 1, N)
        PROVE  /\ Window(w[n], n, N) /\ w[n][1] = w[n - 1][2] - 1 /\ w[n - 1][2] < w[n][2] /\ w[n - 1][2] <= N - MinChars
    <2>1. n - 1 \in Nat /\ n - 1 \in 1..(n - 1) /\ n - 1 \in 1..N /\ (n - 1) + 1 = n
      BY <1>1, <1>5
    <2>2. n - 1 \notin Over
      BY <1>5, <2>1
    <2>3. w[n - 1][2] \in Nat
      BY <1>5 DEF Window
    <2>4. w[n - 1][2] < N
      BY <1>1, <2>1, <2>2, <2>3
    <2> QED
      BY <1>3, <1>5, <2>1, <2>4, WindowAfter DEF N
  <1>6. ASSUME NEW n \in (1 + 1)..N, n - 1 \in S PROVE n \in S
    <2>1. n \in 1..N /\ n # 1
      BY <1>1
    <2>2. ASSUME Reached(n) PROVE Window(w[n], n, N)
      <3>1. Reached(n - 1)
        BY <2>1, <2>2
      <3>2. Window(w[n - 1], n - 1, N)
        BY <1>6, <3>1
      <3> QED
        BY <1>5, <2>1, <2>2, <3>2
    <2> QED
      BY <2>1, <2>2
  <1>7. \A n \in 1..N : n \in S
    <2> HIDE DEF S
    <2> QED
      BY <1>1, <1>4, <1>6, UpFromTheFirst
  <1>8. \A n \in 1..N : Reached(n) => Window(w[n], n, N)
    BY <1>7
  <1>9. Over # {}
    <2> SUFFICES ASSUME Over = {} PROVE FALSE
      OBVIOUS
    <2>1. N \in 1..N /\ Reached(N)
      BY <1>1
    <2>2. Window(w[N], N, N)
      BY <1>8, <2>1
    <2> QED
      BY <1>1, <2>2 DEF Window, MinChars
  <1> DEFINE m == Min(Over)
  <1>10. m \in Over /\ \A k \in Over : m <= k
    <2>1. Over \in SUBSET Nat
      BY <1>1
    <2> HIDE DEF Over
    <2> QED
      BY <1>9, <2>1, MinIsLeast
  <1>12. m \in 1..N /\ WindowSpans(text) = SubSeq(w, 1, m)
    BY <1>2, <1>10
  <1> HIDE DEF m
  <1>13. \A n \in 1..m : n \in 1..N /\ Reached(n)
    <2>1. ASSUME NEW n \in 1..m, NEW k \in 1..(n - 1), k \in Over PROVE FALSE
      BY <1>1, <1>10, <1>12, <2>1
    <2> QED
      BY <1>1, <1>12, <2>1
  <1>14. w[m][2] >= N \/ NextStart(w[m]) >= N
    BY <1>10
  <1> HIDE DEF Reached, Over, S
  <1>15. \A n \in 1..m : Window(w[n], n, N)
    BY <1>8, <1>13
  <1>16. w[m][2] = N
    <2>1. Window(w[m], m, N)
      BY <1>12, <1>15
    <2> QED
      BY <1>1, <1>14, <2>1 DEF Window, NextStart, Larger, MinChars, OverlapChars
  <1>17. ASSUME NEW n \in 1..(m - 1)
         PROVE  w[n + 1][1] = w[n][2] - 1 /\ w[n][2] < w[n + 1][2] /\ w[n][2] <= N - MinChars
    <2>1. n + 1 \in 1..m /\ n + 1 \in 1..N /\ n + 1 # 1 /\ (n + 1) - 1 = n /\ n \in 1..m
      BY <1>1, <1>12
    <2> QED
      BY <1>5, <1>13, <1>15, <2>1
  <1> DEFINE out == WindowSpans(text)
  <1>18. w \in Seq(D) /\ Len(w) = N
    BY <1>1, <1>2
  <1>19. out \in Seq(D) /\ Len(out) = m /\ \A n \in 1..m : out[n] = w[n]
    BY <1>1, <1>12, <1>18
  <1> HIDE DEF out
  <1>20. Covers(out, m, N)
    <2>1. ASSUME NEW n \in 1..m
          PROVE  /\ out[n] \in Nat \X Nat /\ out[n][1] + 3 <= out[n][2] /\ out[n][2] <= N
                 /\ out[n][2] - out[n][1] <= WindowChars + MinChars - 1
      <3>1. Window(w[n], n, N) /\ out[n] = w[n]
        BY <1>15, <1>19
      <3> QED
        BY <1>1, <3>1 DEF Window, MinChars
    <2>2. ASSUME NEW n \in 1..(m - 1)
          PROVE  out[n + 1][1] = out[n][2] - 1 /\ out[n][2] < out[n + 1][2] /\ out[n][2] <= N - MinChars
      <3>1. n \in 1..m /\ n + 1 \in 1..m
        BY <1>1, <1>12
      <3> QED
        BY <1>17, <1>19, <3>1
    <2>3. out[1][1] = 0 /\ out[m][2] = N
      <3>1. 1 \in 1..m /\ m \in 1..m
        BY <1>1, <1>12
      <3> QED
        BY <1>3, <1>16, <1>19, <3>1
    <2> QED
      BY <2>1, <2>2, <2>3 DEF Covers
  <1> QED
    BY <1>12, <1>19, <1>20 DEF out, N, D

\* What of a window is not space.
LettersOf(text, w) == {i \in w[1]..(w[2] - 1) : text[i + 1] # " "}

\* A window of three characters or more starts and ends with a letter or next to one.
LEMMA LettersOfAWindow ==
  ASSUME NEW C, NEW text \in Seq(C), Spaced(text), NEW w \in Nat \X Nat, w[1] + 3 <= w[2], w[2] <= Len(text)
  PROVE  LET L == LettersOf(text, w)
         IN  /\ L # {} /\ Min(L) \in L /\ Max(L) \in L /\ \A i \in L : Min(L) <= i /\ i <= Max(L)
             /\ Min(L) \in w[1]..(w[1] + 1)
  <1> DEFINE L == LettersOf(text, w)
             a == w[1]
             b == w[2]
  <1>1. a \in Nat /\ b \in Nat /\ a + 3 <= b /\ b <= Len(text) /\ Len(text) \in Nat
    OBVIOUS
  <1>2. \A i : i \in L <=> i \in a..(b - 1) /\ text[i + 1] # " "
    BY DEF LettersOf
  <1> HIDE DEF L, a, b
  <1>3. a \in L \/ a + 1 \in L
    <2>1. a + 1 \in 1..(Len(text) - 1) /\ (a + 1) + 1 = (a + 1) + 1
      BY <1>1
    <2>2. text[a + 1] # " " \/ text[(a + 1) + 1] # " "
      BY <2>1 DEF Spaced
    <2>3. a \in a..(b - 1) /\ a + 1 \in a..(b - 1)
      BY <1>1
    <2> QED
      BY <1>2, <2>2, <2>3
  <1>4. L \in SUBSET (0..b) /\ L \in SUBSET Nat /\ L # {} /\ \A i \in L : a <= i
    <2>1. \A i \in a..(b - 1) : i \in 0..b /\ i \in Nat /\ a <= i
      BY <1>1
    <2> QED
      BY <1>2, <1>3, <2>1
  <1>5. Min(L) \in L /\ \A i \in L : Min(L) <= i
    BY <1>4, MinIsLeast
  <1>6. Max(L) \in L /\ \A i \in L : i <= Max(L)
    BY <1>1, <1>4, MaxIsGreatest
  <1>7. Min(L) \in a..(a + 1)
    <2> DEFINE x == Min(L)
    <2>1. x \in Nat /\ a <= x /\ (x <= a \/ x <= a + 1)
      BY <1>3, <1>4, <1>5
    <2> HIDE DEF x
    <2>2. x \in a..(a + 1)
      BY <1>1, <2>1
    <2> QED
      BY <2>2 DEF x
  <1> QED
    BY <1>4, <1>5, <1>6, <1>7 DEF L, a

\* Of windows that cover a text one has each character in it.
LEMMA EachIsInOne ==
  ASSUME NEW N \in Nat, NEW m \in 1..N, NEW w, Covers(w, m, N), NEW x \in 0..(N - 1)
  PROVE  \E n \in 1..m : x \in w[n][1]..(w[n][2] - 1)
  <1>1. m \in Nat /\ m \in 1..m /\ 1 \in 1..m /\ x \in Nat /\ x <= N - 1
    OBVIOUS
  <1>2. \A n \in 1..m : w[n][1] \in Nat /\ w[n][2] \in Nat
    BY DEF Covers
  <1>3. w[1][1] = 0 /\ w[m][2] = N /\ \A n \in 1..(m - 1) : w[n + 1][1] = w[n][2] - 1
    BY DEF Covers
  <1> DEFINE T == {n \in 1..m : x < w[n][2]}
             k == Min(T)
  <1>4. m \in T /\ T \in SUBSET Nat
    BY <1>1, <1>3
  <1>5. k \in T /\ \A n \in T : k <= n
    <2> HIDE DEF T
    <2> QED
      BY <1>4, MinIsLeast
  <1> HIDE DEF k
  <1>6. k \in 1..m /\ x < w[k][2]
    BY <1>5
  <1>7. w[k][1] <= x
    <2>1. CASE k = 1
      BY <1>1, <1>3, <2>1
    <2>2. CASE k # 1
      <3>1. k - 1 \in 1..m /\ k - 1 \in 1..(m - 1) /\ (k - 1) + 1 = k /\ ~(k <= k - 1)
        BY <1>1, <1>6, <2>2
      <3>2. ~(x < w[k - 1][2])
        BY <1>5, <3>1
      <3>3. w[k][1] = w[k - 1][2] - 1
        BY <1>3, <3>1
      <3> QED
        BY <1>1, <1>2, <3>1, <3>2, <3>3
    <2> QED
      BY <2>1, <2>2
  <1> QED
    BY <1>1, <1>2, <1>6, <1>7

\* Each window begins two characters or more after the one before.
LEMMA WindowsGoOn ==
  ASSUME NEW N \in Nat, NEW m \in 1..N, NEW w, Covers(w, m, N), NEW j \in 1..m
  PROVE  \A k \in (j + 1)..m : w[j][1] + 2 <= w[k][1]
  <1>1. \A n \in 1..m : w[n][1] \in Nat /\ w[n][2] \in Nat /\ w[n][1] + 3 <= w[n][2]
    BY DEF Covers
  <1>2. \A n \in 1..(m - 1) : w[n + 1][1] = w[n][2] - 1
    BY DEF Covers
  <1>3. ASSUME NEW n \in 2..m PROVE w[n - 1][1] + 2 <= w[n][1]
    <2>1. n - 1 \in 1..m /\ n - 1 \in 1..(m - 1) /\ (n - 1) + 1 = n
      OBVIOUS
    <2> QED
      BY <1>1, <1>2, <2>1
  <1> DEFINE S == {k \in (j + 1)..m : w[j][1] + 2 <= w[k][1]}
  <1>4. ASSUME j + 1 <= m PROVE j + 1 \in S
    <2>1. j + 1 \in 2..m /\ (j + 1) - 1 = j /\ j + 1 \in (j + 1)..m
      BY <1>4
    <2> QED
      BY <1>3, <2>1
  <1>5. ASSUME NEW n \in ((j + 1) + 1)..m, n - 1 \in S PROVE n \in S
    <2>1. n \in 2..m /\ n \in (j + 1)..m /\ n \in 1..m /\ n - 1 \in 1..m
      OBVIOUS
    <2>2. w[n - 1][1] + 2 <= w[n][1] /\ w[j][1] + 2 <= w[n - 1][1]
      BY <1>3, <1>5, <2>1
    <2> QED
      BY <1>1, <2>1, <2>2
  <1>6. j + 1 \in Int /\ m \in Int
    OBVIOUS
  <1> HIDE DEF S
  <1>7. CASE j + 1 <= m
    <2>1. \A k \in (j + 1)..m : k \in S
      BY <1>4, <1>5, <1>6, <1>7, UpFromTheFirst
    <2> QED
      BY <2>1 DEF S
  <1>8. CASE ~(j + 1 <= m)
    BY <1>8
  <1> QED
    BY <1>7, <1>8

(***************************************************************************)
(* However long a section is, its windows leave out no word, none is       *)
(* longer than a window and a short tail, and no two are one (windows).    *)
(***************************************************************************)
THEOREM WindowsKeepTheText ==
  ASSUME NEW C, NEW text \in Seq(C), Spaced(text)
  PROVE  WindowsCoverTheText(text)
  <1> DEFINE N == Len(text)
             pieces == windows(text)
             spans == WindowSpans(text)
  <1>1. N \in Nat /\ DOMAIN text = 1..N
    OBVIOUS
  <1>2. Larger(MaxChars, WindowChars + MinChars - 1) = 5 /\ MaxChars = 4
    BY DEF Larger, MaxChars, WindowChars, MinChars
  <1>3. CASE N <= MaxChars
    <2>1. pieces = <<<<0, N>>>> /\ spans = <<<<0, N>>>>
      BY <1>3 DEF windows, WindowSpans
    <2> HIDE DEF N, pieces, spans
    <2>2. DOMAIN pieces = {1} /\ pieces[1] = <<0, N>> /\ DOMAIN spans = {1} /\ <<0, N>>[1] = 0 /\ <<0, N>>[2] = N
      BY <2>1
    <2>3. \A i \in 1..N : 0 < i /\ i <= N
      BY <1>1
    <2>4. N - 0 <= 5
      BY <1>1, <1>2, <1>3
    <2>5. \A i \in DOMAIN text : \E n \in DOMAIN pieces : pieces[n][1] < i /\ i <= pieces[n][2]
      BY <1>1, <2>2, <2>3
    <2>6. \A m, n \in DOMAIN pieces : ~(m < n)
      BY <2>2
    <2>7. \A n \in DOMAIN spans : ~(n > 1)
      BY <2>2
    <2>8. \A n \in DOMAIN pieces : pieces[n][2] - pieces[n][1] <= 5
      BY <2>2, <2>4
    <2>9. \A n \in DOMAIN windows(text) : windows(text)[n][2] - windows(text)[n][1] <= Larger(MaxChars, WindowChars + MinChars - 1)
      BY <1>2, <2>8 DEF pieces
    <2> QED
      BY <2>5, <2>6, <2>7, <2>9 DEF WindowsCoverTheText, PiecesCover, pieces, spans
  <1>4. CASE ~(N <= MaxChars)
    <2>1. PICK m \in 1..N : spans \in Seq(Nat \X Nat) /\ Len(spans) = m /\ Covers(spans, m, N)
      <3>1. MaxChars < Len(text)
        BY <1>2, <1>4
      <3> QED
        BY <3>1, WindowsCover
    <2> DEFINE L(n) == LettersOf(text, spans[n])
               piece(n) == <<Min(L(n)), Max(L(n)) + 1>>
               g == [n \in 1..m |-> piece(n)]
               f == [n \in 1..m |-> IF n \in 1..m THEN <<g[n]>> ELSE <<>>]
    <2>2. m \in Nat /\ DOMAIN spans = 1..m
      BY <2>1
    <2>3. ASSUME NEW n \in 1..m
          PROVE  /\ spans[n] \in Nat \X Nat /\ spans[n][1] + 3 <= spans[n][2] /\ spans[n][2] <= N
                 /\ spans[n][2] - spans[n][1] <= 5
      BY <1>2, <2>1 DEF Covers, WindowChars, MinChars
    <2> HIDE DEF spans
    <2>4. ASSUME NEW n \in 1..m
          PROVE  /\ L(n) # {} /\ Min(L(n)) \in L(n) /\ Max(L(n)) \in L(n) /\ \A i \in L(n) : Min(L(n)) <= i /\ i <= Max(L(n))
                 /\ Min(L(n)) \in spans[n][1]..(spans[n][1] + 1)
      BY <2>3, LettersOfAWindow
    <2>5. pieces = FlattenSeq(f)
      <3>1. pieces = FlattenSeq([n \in DOMAIN spans |-> IF L(n) = {} THEN <<>> ELSE <<piece(n)>>])
        BY <1>4 DEF windows, LettersOf, spans
      <3>2. [n \in DOMAIN spans |-> IF L(n) = {} THEN <<>> ELSE <<piece(n)>>] = f
        <4> HIDE DEF L
        <4> QED
          BY <2>2, <2>4
      <3> QED
        BY <3>1, <3>2
    <2> HIDE DEF L, pieces
    <2>6. \A n \in 1..m : \A i \in L(n) : i \in spans[n][1]..(spans[n][2] - 1) /\ i \in Nat
      <3> SUFFICES ASSUME NEW n \in 1..m, NEW i \in L(n) PROVE i \in spans[n][1]..(spans[n][2] - 1) /\ i \in Nat
        OBVIOUS
      <3>1. i \in spans[n][1]..(spans[n][2] - 1)
        BY DEF L, LettersOf
      <3> HIDE DEF L
      <3>2. spans[n][1] \in Nat /\ spans[n][2] \in Nat
        BY <2>3
      <3> QED
        BY <3>1, <3>2
    <2>7. ASSUME NEW n \in 1..m
          PROVE  /\ g[n] = piece(n) /\ g[n] \in Nat \X Nat /\ g[n][1] = Min(L(n)) /\ g[n][2] = Max(L(n)) + 1
                 /\ g[n][2] - g[n][1] <= 5
      <3>1. Min(L(n)) \in spans[n][1]..(spans[n][2] - 1) /\ Max(L(n)) \in spans[n][1]..(spans[n][2] - 1)
            /\ Min(L(n)) \in Nat /\ Max(L(n)) \in Nat
        BY <2>4, <2>6
      <3> DEFINE x == Min(L(n))
                 y == Max(L(n))
      <3>2. x \in Nat /\ y \in Nat /\ (y + 1) - x <= 5
        <4> HIDE DEF x, y
        <4> QED
          BY <2>3, <3>1 DEF x, y
      <3> HIDE DEF x, y
      <3>3. g[n] = <<x, y + 1>>
        BY DEF x, y
      <3>4. g[n] \in Nat \X Nat /\ g[n][1] = x /\ g[n][2] = y + 1
        BY <3>2, <3>3
      <3> QED
        BY <3>2, <3>4 DEF x, y
    <2>8. g \in [1..m -> Nat \X Nat]
      BY <2>7
    <2>9. pieces \in Seq(Nat \X Nat) /\ \E at : PickedBy(at, pieces, m, 1..m, g)
      <3> DEFINE K == 1..m
      <3>1. f = [n \in 1..m |-> IF n \in K THEN <<g[n]>> ELSE <<>>] /\ K \in SUBSET (1..m)
        OBVIOUS
      <3> HIDE DEF g, f, K
      <3>2. FlattenSeq(f) \in Seq(Nat \X Nat) /\ \E at : PickedBy(at, FlattenSeq(f), m, K, g)
        BY <2>2, <2>8, <3>1, FlattenPicks
      <3> QED
        BY <2>5, <3>2 DEF K
    <2>10. PICK at : PickedBy(at, pieces, m, 1..m, g)
      BY <2>9
    <2> HIDE DEF g, f
    <2>11. /\ DOMAIN pieces = 1..Len(pieces) /\ \A k \in DOMAIN pieces : at[k] \in 1..m /\ pieces[k] = g[at[k]]
           /\ \A j, k \in DOMAIN pieces : j < k => at[j] < at[k]
           /\ \A n \in 1..m : \E k \in DOMAIN pieces : at[k] = n
      <3>1. DOMAIN pieces = 1..Len(pieces)
        BY <2>9
      <3> QED
        BY <2>10, <3>1 DEF PickedBy
    <2>12. ASSUME NEW i \in 1..N, text[i] # " " PROVE \E n \in DOMAIN pieces : pieces[n][1] < i /\ i <= pieces[n][2]
      <3>1. i - 1 \in 0..(N - 1) /\ (i - 1) + 1 = i
        BY <1>1
      <3>2. PICK n \in 1..m : i - 1 \in spans[n][1]..(spans[n][2] - 1)
        BY <1>1, <2>1, <3>1, EachIsInOne DEF spans
      <3>3. i - 1 \in L(n)
        BY <2>12, <3>1, <3>2 DEF L, LettersOf
      <3>4. Min(L(n)) <= i - 1 /\ i - 1 <= Max(L(n))
        BY <2>4, <3>3
      <3>5. g[n][1] < i /\ i <= g[n][2]
        <4> DEFINE x == Min(L(n))
                   y == Max(L(n))
        <4>1. x \in Nat /\ y \in Nat
          BY <2>4, <2>6
        <4> HIDE DEF x, y
        <4>2. x < i /\ i <= y + 1
          BY <1>1, <3>4, <4>1 DEF x, y
        <4> QED
          BY <2>7, <4>2 DEF x, y
      <3> QED
        BY <2>11, <3>5
    <2>13. ASSUME NEW j \in DOMAIN pieces, NEW k \in DOMAIN pieces, j < k
           PROVE  pieces[j] # pieces[k] /\ pieces[j][1] <= pieces[k][1]
      <3>1. at[j] \in 1..m /\ at[k] \in 1..m /\ at[j] < at[k] /\ at[k] \in (at[j] + 1)..m
        BY <2>2, <2>11, <2>13
      <3>2. spans[at[j]][1] + 2 <= spans[at[k]][1]
        BY <1>1, <2>1, <3>1, WindowsGoOn
      <3>3. /\ g[at[j]][1] \in spans[at[j]][1]..(spans[at[j]][1] + 1) /\ g[at[k]][1] \in spans[at[k]][1]..(spans[at[k]][1] + 1)
            /\ spans[at[j]][1] \in Nat /\ spans[at[k]][1] \in Nat
        BY <2>3, <2>4, <2>7, <3>1
      <3>4. g[at[j]][1] # g[at[k]][1] /\ g[at[j]][1] <= g[at[k]][1]
        <4> DEFINE a == spans[at[j]][1]
                   b == spans[at[k]][1]
                   x == g[at[j]][1]
                   y == g[at[k]][1]
        <4>1. a \in Nat /\ b \in Nat /\ a + 2 <= b /\ x \in a..(a + 1) /\ y \in b..(b + 1)
          BY <3>2, <3>3
        <4> HIDE DEF a, b, x, y
        <4>2. x # y /\ x <= y
          BY <4>1
        <4> QED
          BY <4>2 DEF x, y
      <3>5. pieces[j] = g[at[j]] /\ pieces[k] = g[at[k]]
        BY <2>11
      <3> QED
        BY <3>4, <3>5
    <2>14. \A n \in DOMAIN pieces : pieces[n][2] - pieces[n][1] <= Larger(MaxChars, WindowChars + MinChars - 1)
      BY <1>2, <2>7, <2>11
    <2>15. ASSUME NEW n \in DOMAIN spans, n > 1 PROVE spans[n][2] > spans[n - 1][2]
      <3>1. n - 1 \in 1..(m - 1) /\ (n - 1) + 1 = n /\ n \in 1..m /\ n - 1 \in 1..m
        BY <2>2, <2>15
      <3>2. spans[n - 1][2] < spans[n][2]
        BY <2>1, <3>1 DEF Covers
      <3> QED
        BY <2>3, <3>1, <3>2
    <2> QED
      BY <1>1, <2>12, <2>13, <2>14, <2>15 DEF WindowsCoverTheText, PiecesCover, pieces, spans
  <1> QED
    BY <1>3, <1>4

-----------------------------------------------------------------------------
(* Parsing.                                                                *)
\* A list of some is a list of all.
LEMMA WiderSequence ==
  ASSUME NEW S, NEW P, P \subseteq S, NEW s \in Seq(P)
  PROVE  s \in Seq(S)
  OBVIOUS

\* Every line has a level.
LEMMA LevelsOfLines ==
  ASSUME NEW lines \in Seq(DocLines)
  PROVE  Levels(lines) \in [1..Len(lines) -> {0, 1, 2, 9}]
  <1>1. \A line : Level(line) \in {0, 1, 2, 9}
    BY DEF Level
  <1> DEFINE fences(i) == Cardinality({j \in 1..(i - 1) : lines[j] = "fence"})
             odd(i) == fences(i) % 2 = 1
  <1>2. Levels(lines) = [i \in DOMAIN lines |-> IF odd(i) THEN 9 ELSE Level(lines[i])]
    BY DEF Levels
  <1>3. DOMAIN lines = 1..Len(lines)
    OBVIOUS
  <1> HIDE DEF odd
  <1>4. \A i \in 1..Len(lines) : (IF odd(i) THEN 9 ELSE Level(lines[i])) \in {0, 1, 2, 9}
    BY <1>1
  <1> QED
    BY <1>2, <1>3, <1>4

\* h is open at a line: no heading since is of its level or above.
Above(levels, h, at) ==
    h <= at /\ levels[h] \in 1..2 /\ \A i \in (h + 1)..at : levels[i] > levels[h]

\* What one line does to the headings that are open.
OpenAfter(levels, i, open) ==
    IF levels[i] = 0 THEN <<>> ELSE IF levels[i] = 9 THEN open
    ELSE Append(Filter(open, LAMBDA h : levels[h] < levels[i]), i)

LEMMA OneLineMore ==
  ASSUME NEW N \in Nat, NEW levels \in [1..N -> {0, 1, 2, 9}], NEW i \in 1..N, NEW open \in Seq(1..N)
  PROVE  /\ OpenAfter(levels, i, open) \in Seq(1..N)
         /\ ToSet(open) = {h \in 1..(i - 1) : Above(levels, h, i - 1)}
              => ToSet(OpenAfter(levels, i, open)) = {h \in 1..i : Above(levels, h, i)}
  <1> DEFINE out == OpenAfter(levels, i, open)
             P == {h \in 1..N : levels[h] < levels[i]}
             f == [k \in DOMAIN open |-> IF open[k] \in P THEN <<open[k]>> ELSE <<>>]
             left == FlattenSeq(f)
  <1>1. levels[i] \in {0, 1, 2, 9} /\ \A h \in 1..N : levels[h] \in {0, 1, 2, 9}
    OBVIOUS
  <1>2. out = IF levels[i] = 0 THEN <<>> ELSE IF levels[i] = 9 THEN open ELSE Append(left, i)
    <2>1. \A k \in DOMAIN open : open[k] \in P <=> levels[open[k]] < levels[i]
      OBVIOUS
    <2>2. out = IF levels[i] = 0 THEN <<>> ELSE IF levels[i] = 9 THEN open
                ELSE Append(FlattenSeq([k \in DOMAIN open |-> IF levels[open[k]] < levels[i] THEN <<open[k]>> ELSE <<>>]), i)
      BY DEF OpenAfter, Filter
    <2> HIDE DEF P
    <2> QED
      BY <2>1, <2>2
  <1>3. Subsequence(left, open, P)
    <2> HIDE DEF P
    <2> QED
      BY FilterKeeps
  <1>4. left \in Seq(1..N) /\ ToSet(left) = ToSet(open) \cap P
    <2>1. left \in Seq(P) /\ ToSet(left) = ToSet(open) \cap P
      BY <1>3 DEF Subsequence
    <2>2. P \subseteq 1..N
      OBVIOUS
    <2> HIDE DEF left, P
    <2> QED
      BY <2>1, <2>2, WiderSequence
  <1> HIDE DEF left, out, f
  <1>5. out \in Seq(1..N)
    <2> DEFINE R == 1..N
    <2>1. i \in R /\ open \in Seq(R) /\ left \in Seq(R)
      BY <1>4
    <2> HIDE DEF R
    <2>2. <<>> \in Seq(R) /\ Append(left, i) \in Seq(R)
      BY <2>1
    <2> QED
      BY <1>2, <2>1, <2>2 DEF R
  <1>6. ASSUME ToSet(open) = {h \in 1..(i - 1) : Above(levels, h, i - 1)} PROVE ToSet(out) = {h \in 1..i : Above(levels, h, i)}
    <2>1. \A h \in 1..i : Above(levels, h, i) <=>
               \/ h = i /\ levels[i] \in 1..2
               \/ h \in 1..(i - 1) /\ Above(levels, h, i - 1) /\ levels[i] > levels[h]
      <3> SUFFICES ASSUME NEW h \in 1..i
                   PROVE  Above(levels, h, i) <=> \/ h = i /\ levels[i] \in 1..2
                                                  \/ h \in 1..(i - 1) /\ Above(levels, h, i - 1) /\ levels[i] > levels[h]
        OBVIOUS
      <3>1. CASE h = i
        BY <3>1 DEF Above
      <3>2. CASE h # i
        <4>1. h \in 1..(i - 1) /\ h <= i /\ h <= i - 1
          BY <3>2
        <4>2. (h + 1)..i = ((h + 1)..(i - 1)) \cup {i}
          BY <4>1
        <4> QED
          BY <3>2, <4>1, <4>2 DEF Above
      <3> QED
        BY <3>1, <3>2
    <2>2. CASE levels[i] = 0
      <3>1. {h \in 1..i : Above(levels, h, i)} = {}
        <4>1. \A h \in 1..(i - 1) : ~(levels[i] > levels[h])
          BY <1>1, <2>2
        <4> QED
          BY <2>1, <2>2, <4>1
      <3>2. ToSet(<<>>) = {}
        BY DEF ToSet
      <3> QED
        BY <1>2, <2>2, <3>1, <3>2
    <2>3. CASE levels[i] = 9
      <3>1. \A h \in 1..(i - 1) : Above(levels, h, i - 1) => levels[i] > levels[h]
        BY <2>3 DEF Above
      <3>2. {h \in 1..i : Above(levels, h, i)} = {h \in 1..(i - 1) : Above(levels, h, i - 1)}
        <4>1. \A h \in 1..(i - 1) : h \in 1..i
          OBVIOUS
        <4>2. ~(levels[i] \in 1..2)
          BY <2>3
        <4> QED
          BY <2>1, <3>1, <4>1, <4>2
      <3> QED
        BY <1>2, <1>6, <2>3, <3>2
    <2>4. CASE levels[i] \in 1..2
      <3>1. out = Append(left, i)
        BY <1>2, <2>4
      <3>2. ToSet(out) = ToSet(left) \cup {i}
        <4>1. Len(left) \in Nat /\ Len(out) = Len(left) + 1 /\ DOMAIN left = 1..Len(left) /\ DOMAIN out = 1..(Len(left) + 1)
              /\ \A k \in 1..(Len(left) + 1) : out[k] = IF k = Len(left) + 1 THEN i ELSE left[k]
          BY <1>4, <3>1
        <4>2. \A k \in 1..(Len(left) + 1) : k \in 1..Len(left) \/ k = Len(left) + 1
          BY <4>1
        <4>3. Len(left) + 1 \in 1..(Len(left) + 1) /\ \A k \in 1..Len(left) : k \in 1..(Len(left) + 1) /\ k # Len(left) + 1
          BY <4>1
        <4> QED
          BY <4>1, <4>2, <4>3 DEF ToSet
      <3>3. \A h : h \in ToSet(left) <=> h \in 1..(i - 1) /\ Above(levels, h, i - 1) /\ levels[i] > levels[h]
        <4>1. \A h \in 1..(i - 1) : h \in 1..N /\ (levels[i] > levels[h] <=> levels[h] < levels[i])
          BY <1>1
        <4> QED
          BY <1>4, <1>6, <4>1
      <3>4. \A h \in 1..(i - 1) : h \in 1..i /\ i \in 1..i
        OBVIOUS
      <3>5. i \in 1..i
        OBVIOUS
      <3> QED
        BY <2>1, <2>4, <3>2, <3>3, <3>4, <3>5
    <2> QED
      BY <1>1, <2>2, <2>3, <2>4
  <1> QED
    BY <1>5, <1>6 DEF out

\* The headings that are open after each line.
LEMMA OpenHeadings ==
  ASSUME NEW N \in Nat, NEW levels \in [1..N -> {0, 1, 2, 9}]
  PROVE  \A i \in 0..N : /\ OpenLevels(levels)[i] \in Seq(1..N)
                         /\ ToSet(OpenLevels(levels)[i]) = {h \in 1..i : Above(levels, h, i)}
  <1> DEFINE T == Seq(1..N)
             Open[i \in 0..N] ==
                 IF i = 0 \/ levels[i] = 0 THEN <<>> ELSE IF levels[i] = 9 THEN Open[i - 1]
                 ELSE Append(Filter(Open[i - 1], LAMBDA h : levels[h] < levels[i]), i)
             step == [x \in Int \X T |-> IF x[1] \in 1..N THEN OpenAfter(levels, x[1], x[2]) ELSE x[2]]
  <1>1. Len(levels) = N /\ N \in Int /\ 0 \in Int /\ <<>> \in T
    <2>1. levels \in Seq({0, 1, 2, 9})
      OBVIOUS
    <2> QED
      OBVIOUS
  <1>2. step \in [Int \X T -> T]
    <2> SUFFICES ASSUME NEW x \in Int \X T, x[1] \in 1..N PROVE OpenAfter(levels, x[1], x[2]) \in T
      OBVIOUS
    <2>1. x[2] \in Seq(1..N)
      OBVIOUS
    <2> QED
      BY <2>1, OneLineMore
  <1>3. \A i \in 1..N : \A x \in T : step[<<i, x>>] = OpenAfter(levels, i, x)
    OBVIOUS
  <1> HIDE DEF step
  <1>4. PICK f \in [0..N -> T] : Loops(f, 0, N, <<>>, step)
    <2> HIDE DEF T
    <2> QED
      BY <1>1, <1>2, LoopIsDefined
  <1>5. ASSUME NEW i \in 0..N
        PROVE  f[i] = IF i = 0 \/ levels[i] = 0 THEN <<>> ELSE IF levels[i] = 9 THEN f[i - 1]
                      ELSE Append(Filter(f[i - 1], LAMBDA h : levels[h] < levels[i]), i)
    <2>1. f[i] = IF i = 0 THEN <<>> ELSE step[<<i, f[i - 1]>>]
      BY <1>4 DEF Loops
    <2>2. i # 0 => i \in 1..N /\ f[i - 1] \in T
      BY <1>4
    <2>3. i # 0 => f[i] = OpenAfter(levels, i, f[i - 1])
      BY <1>3, <2>1, <2>2
    <2>4. CASE i = 0
      BY <2>1, <2>4
    <2>5. CASE i # 0
      BY <2>3, <2>5 DEF OpenAfter
    <2> QED
      BY <2>4, <2>5
  <1>6. Open = [i \in 0..N |-> IF i = 0 \/ levels[i] = 0 THEN <<>> ELSE IF levels[i] = 9 THEN Open[i - 1]
                               ELSE Append(Filter(Open[i - 1], LAMBDA h : levels[h] < levels[i]), i)]
    <2>1. f = [i \in 0..N |-> IF i = 0 \/ levels[i] = 0 THEN <<>> ELSE IF levels[i] = 9 THEN f[i - 1]
                              ELSE Append(Filter(f[i - 1], LAMBDA h : levels[h] < levels[i]), i)]
      BY <1>4, <1>5
    <2> QED
      BY <2>1
  <1>7. OpenLevels(levels) = Open
    BY <1>1 DEF OpenLevels
  <1> HIDE DEF Open
  <1>8. Open[0] = <<>>
    BY <1>6
  <1>9. ASSUME NEW i \in 1..N PROVE Open[i] = OpenAfter(levels, i, Open[i - 1])
    <2>1. i \in 0..N /\ i # 0
      OBVIOUS
    <2>2. Open[i] = IF i = 0 \/ levels[i] = 0 THEN <<>> ELSE IF levels[i] = 9 THEN Open[i - 1]
                    ELSE Append(Filter(Open[i - 1], LAMBDA h : levels[h] < levels[i]), i)
      BY <1>6, <2>1
    <2> QED
      BY <2>1, <2>2 DEF OpenAfter
  <1> DEFINE S == {i \in 0..N : Open[i] \in Seq(1..N) /\ ToSet(Open[i]) = {h \in 1..i : Above(levels, h, i)}}
  <1>10. 0 \in S
    <2>1. ToSet(<<>>) = {} /\ <<>> \in Seq(1..N) /\ 0 \in 0..N
      BY DEF ToSet
    <2>2. {h \in 1..0 : Above(levels, h, 0)} = {}
      OBVIOUS
    <2>3. Open[0] \in Seq(1..N) /\ ToSet(Open[0]) = {h \in 1..0 : Above(levels, h, 0)}
      BY <1>8, <2>1, <2>2
    <2> QED
      BY <2>1, <2>3
  <1>11. \A i \in (0 + 1)..N : i - 1 \in S => i \in S
    <2> SUFFICES ASSUME NEW i \in 1..N, i - 1 \in S PROVE i \in S
      OBVIOUS
    <2> DEFINE before == Open[i - 1]
    <2>1. before \in Seq(1..N) /\ ToSet(before) = {h \in 1..(i - 1) : Above(levels, h, i - 1)}
      OBVIOUS
    <2>2. Open[i] = OpenAfter(levels, i, before)
      BY <1>9
    <2> HIDE DEF before
    <2>4. OpenAfter(levels, i, before) \in Seq(1..N) /\ ToSet(OpenAfter(levels, i, before)) = {h \in 1..i : Above(levels, h, i)}
      BY <2>1, OneLineMore
    <2>3. Open[i] \in Seq(1..N) /\ ToSet(Open[i]) = {h \in 1..i : Above(levels, h, i)}
      BY <2>2, <2>4
    <2> QED
      BY <2>3
  <1> HIDE DEF S
  <1>12. \A i \in 0..N : i \in S
    BY <1>1, <1>10, <1>11, UpFromTheFirst
  <1> QED
    BY <1>7, <1>12 DEF S

\* Where sections start: before the first line and at each heading, in order.
Starting(starts, levels, N) ==
    /\ starts \in Seq(0..N) /\ Len(starts) \in Nat \ {0} /\ DOMAIN starts = 1..Len(starts)
    /\ \A k \in 1..Len(starts) : starts[k] \in 0..N
    /\ starts[1] = 0
    /\ \A k \in 2..Len(starts) : starts[k] \in 1..N /\ levels[starts[k]] # 9
    /\ \A j, k \in 1..Len(starts) : j < k => starts[j] < starts[k]
    /\ \A i \in 1..N : levels[i] # 9 => \E k \in 2..Len(starts) : starts[k] = i

LEMMA SectionsStart ==
  ASSUME NEW N \in Nat, NEW levels \in [1..N -> {0, 1, 2, 9}]
  PROVE  Starting(StartLines(levels), levels, N)
  <1> DEFINE places == [i \in DOMAIN levels |-> i]
             P == {i \in 1..N : levels[i] # 9}
             f == [k \in DOMAIN places |-> IF places[k] \in P THEN <<places[k]>> ELSE <<>>]
             heads == FlattenSeq(f)
             starts == StartLines(levels)
  <1>1. places \in Seq(1..N) /\ Len(places) = N /\ DOMAIN places = 1..N /\ \A k \in 1..N : places[k] = k
    <2>1. places = [i \in 1..N |-> i]
      OBVIOUS
    <2> QED
      BY <2>1
  <1>2. starts = <<0>> \o heads
    <2>1. \A k \in DOMAIN places : places[k] \in P <=> levels[places[k]] # 9
      BY <1>1
    <2>2. starts = <<0>> \o FlattenSeq([k \in DOMAIN places |-> IF levels[places[k]] # 9 THEN <<places[k]>> ELSE <<>>])
      BY DEF StartLines, Filter
    <2> HIDE DEF P, places
    <2> QED
      BY <2>1, <2>2
  <1>3. Subsequence(heads, places, P)
    <2> HIDE DEF P, places
    <2> QED
      BY <1>1, FilterKeeps
  <1> HIDE DEF heads, starts, f
  <1>4. PICK at \in [1..Len(heads) -> 1..N] :
             /\ \A k \in 1..Len(heads) : heads[k] = places[at[k]]
             /\ \A j, k \in 1..Len(heads) : j < k => at[j] < at[k]
             /\ \A i \in 1..N : places[i] \in P => \E k \in 1..Len(heads) : at[k] = i
    BY <1>1, <1>3 DEF Subsequence
  <1>5. heads \in Seq(P)
    BY <1>3 DEF Subsequence
  <1>6. Len(heads) \in Nat /\ \A k \in 1..Len(heads) : heads[k] = at[k] /\ heads[k] \in 1..N /\ levels[heads[k]] # 9
    <2>1. \A k \in 1..Len(heads) : heads[k] \in P
      BY <1>5
    <2>2. \A k \in 1..Len(heads) : at[k] \in 1..N /\ heads[k] = places[at[k]]
      BY <1>4
    <2>3. \A k \in 1..Len(heads) : heads[k] = at[k]
      BY <1>1, <2>2
    <2>4. Len(heads) \in Nat
      BY <1>5
    <2> QED
      BY <2>1, <2>3, <2>4
  <1>7. \A j, k \in 1..Len(heads) : j < k => heads[j] < heads[k]
    BY <1>4, <1>6
  <1>8. \A i \in 1..N : levels[i] # 9 => \E k \in 1..Len(heads) : heads[k] = i
    BY <1>1, <1>4, <1>6
  <1> DEFINE R == 0..N
             M == Len(heads)
  <1>9. heads \in Seq(R) /\ <<0>> \in Seq(R)
    <2>1. P \subseteq R /\ 0 \in R
      OBVIOUS
    <2> HIDE DEF P, R
    <2> QED
      BY <1>5, <2>1, WiderSequence
  <1>10. /\ starts \in Seq(R) /\ Len(starts) = 1 + M
         /\ \A k \in 1..(1 + M) : starts[k] = IF k <= 1 THEN 0 ELSE heads[k - 1]
    <2>1. Len(<<0>>) = 1 /\ <<0>>[1] = 0
      OBVIOUS
    <2>2. /\ starts \in Seq(R) /\ Len(starts) = Len(<<0>>) + Len(heads)
          /\ \A k \in 1..(Len(<<0>>) + Len(heads)) : starts[k] = IF k <= Len(<<0>>) THEN <<0>>[k] ELSE heads[k - Len(<<0>>)]
      <3> HIDE DEF R
      <3> QED
        BY <1>2, <1>9, ConcatProperties
    <2>3. \A k \in 1..(1 + M) : k <= 1 => k = 1
      BY <1>6
    <2> HIDE DEF R
    <2> QED
      BY <2>1, <2>2, <2>3
  <1> HIDE DEF P, M
  <1>11. M \in Nat /\ Len(starts) \in Nat \ {0} /\ DOMAIN starts = 1..Len(starts)
    BY <1>6, <1>10 DEF M
  <1>12. starts[1] = 0
    BY <1>10, <1>11
  <1>13. \A k \in 2..Len(starts) : k - 1 \in 1..M /\ starts[k] = heads[k - 1]
    BY <1>10, <1>11
  <1>14. \A k \in 2..Len(starts) : starts[k] \in 1..N /\ levels[starts[k]] # 9
    BY <1>6, <1>13 DEF M
  <1>15. \A j, k \in 1..Len(starts) : j < k => starts[j] < starts[k]
    <2> SUFFICES ASSUME NEW j \in 1..Len(starts), NEW k \in 1..Len(starts), j < k PROVE starts[j] < starts[k]
      OBVIOUS
    <2>1. k \in 2..Len(starts) /\ starts[k] \in 1..N
      BY <1>11, <1>14
    <2>2. CASE j = 1
      BY <1>12, <2>1, <2>2
    <2>3. CASE j # 1
      <3>1. j \in 2..Len(starts) /\ j - 1 < k - 1
        BY <1>11, <2>3
      <3>2. j - 1 \in 1..M /\ k - 1 \in 1..M /\ starts[j] = heads[j - 1] /\ starts[k] = heads[k - 1]
        BY <1>13, <2>1, <3>1
      <3> QED
        BY <1>7, <3>1, <3>2 DEF M
    <2> QED
      BY <2>2, <2>3
  <1>16. \A i \in 1..N : levels[i] # 9 => \E k \in 2..Len(starts) : starts[k] = i
    <2> SUFFICES ASSUME NEW i \in 1..N, levels[i] # 9 PROVE \E k \in 2..Len(starts) : starts[k] = i
      OBVIOUS
    <2>1. PICK k \in 1..M : heads[k] = i
      BY <1>8 DEF M
    <2> DEFINE n == k + 1
    <2>2. n \in 2..Len(starts) /\ n - 1 = k
      BY <1>10, <1>11
    <2> HIDE DEF n
    <2>3. starts[n] = i
      BY <1>13, <2>1, <2>2
    <2> QED
      BY <2>2, <2>3
  <1>17. \A k \in 1..Len(starts) : starts[k] \in 0..N
    BY <1>10, <1>11 DEF R
  <1> QED
    BY <1>10, <1>11, <1>12, <1>14, <1>15, <1>16, <1>17 DEF Starting, starts, R

\* The last line of the n-th section.
LastLine(lines, starts, n) == IF n = Len(starts) THEN Len(lines) ELSE starts[n + 1] - 1

\* A body is there when a line of it is not blank.
LEMMA BodyIsThere ==
  ASSUME NEW N \in Nat, NEW lines \in [1..N -> DocLines], NEW levels, NEW starts, Starting(starts, levels, N), NEW n \in 1..Len(starts)
  PROVE  /\ BodyLength(lines, starts, n) \in Nat
         /\ BodyLength(lines, starts, n) = 0 <=> \A i \in (starts[n] + 1)..LastLine(lines, starts, n) : lines[i] = "blank"
  <1> DEFINE last == LastLine(lines, starts, n)
             all == {i \in (starts[n] + 1)..last : lines[i] # "blank"}
             blanks == {i \in Min(all)..Max(all) : lines[i] = "blank" /\ lines[i - 1] # "blank"}
             a == Cardinality(all)
             b == Cardinality(blanks)
  <1>1. BodyLength(lines, starts, n) = IF all = {} THEN 0 ELSE a + b
    BY DEF BodyLength, LastLine
  <1>2. Len(lines) = N
    <2>1. lines \in Seq(DocLines)
      OBVIOUS
    <2> QED
      BY <2>1
  <1>3. starts[n] \in 0..N /\ last \in 0..N
    <2>1. starts[n] \in 0..N
      BY DEF Starting
    <2>2. CASE n = Len(starts)
      BY <1>2, <2>1, <2>2 DEF LastLine
    <2>3. CASE n # Len(starts)
      <3>1. n + 1 \in 2..Len(starts)
        <4>1. Len(starts) \in Nat
          BY DEF Starting
        <4> QED
          BY <2>3, <4>1
      <3>2. starts[n + 1] \in 1..N
        BY <3>1 DEF Starting
      <3>3. starts[n + 1] - 1 \in 0..N
        BY <3>2
      <3> QED
        BY <2>1, <2>3, <3>3 DEF LastLine
    <2> QED
      BY <2>2, <2>3
  <1> HIDE DEF last
  <1>4. CASE all = {}
    <2>1. \A i \in (starts[n] + 1)..last : lines[i] = "blank"
      BY <1>4
    <2>2. BodyLength(lines, starts, n) = 0
      BY <1>1, <1>4
    <2> QED
      BY <2>1, <2>2 DEF last
  <1>5. CASE all # {}
    <2>1. all \in SUBSET Nat /\ all \in SUBSET (0..N) /\ all \subseteq (starts[n] + 1)..last
      BY <1>3
    <2>2. IsFiniteSet(all) /\ a \in Nat
      <3>1. IsFiniteSet((starts[n] + 1)..last)
        <4>1. starts[n] + 1 \in Int /\ last \in Int
          BY <1>3
        <4> QED
          BY <4>1, FS_Interval
      <3>2. IsFiniteSet(all)
        BY <2>1, <3>1, FS_Subset
      <3> QED
        BY <3>2, FS_CardinalityType
    <2>3. a # 0
      <3> HIDE DEF all
      <3> QED
        BY <1>5, <2>2, FS_EmptySet
    <2>4. b \in Nat
      <3> DEFINE x == Min(all)
                 y == Max(all)
      <3>1. x \in Nat /\ y \in Nat
        <4> HIDE DEF all
        <4>1. x \in all
          BY <1>5, <2>1, MinIsLeast
        <4>2. y \in all
          BY <1>5, <2>1, MaxIsGreatest
        <4> QED
          BY <2>1, <4>1, <4>2
      <3> HIDE DEF x, y
      <3>2. IsFiniteSet(x..y)
        BY <3>1, FS_Interval
      <3>3. {i \in x..y : lines[i] = "blank" /\ lines[i - 1] # "blank"} \in SUBSET (x..y)
        OBVIOUS
      <3>4. IsFiniteSet({i \in x..y : lines[i] = "blank" /\ lines[i - 1] # "blank"})
        BY <3>2, <3>3, FS_Subset
      <3>5. IsFiniteSet(blanks)
        BY <3>4 DEF x, y
      <3> QED
        BY <3>5, FS_CardinalityType
    <2> HIDE DEF a, b
    <2>5. BodyLength(lines, starts, n) \in Nat /\ BodyLength(lines, starts, n) # 0
      BY <1>1, <1>5, <2>2, <2>3, <2>4
    <2> QED
      BY <1>5, <2>5 DEF last
  <1> QED
    BY <1>4, <1>5

\* A sum of what each of M places adds.
SumsUp(w, M, first, add) == \A n \in 0..M : w[n] = IF n = 0 THEN first ELSE w[n - 1] + add[n]

LEMMA SumIsDefined ==
  ASSUME NEW M \in Nat, NEW first \in Nat, NEW add \in [1..M -> Nat]
  PROVE  \E w \in [0..M -> Nat] : SumsUp(w, M, first, add)
  <1> DEFINE step == [x \in Int \X Nat |-> IF x[1] \in 1..M THEN x[2] + add[x[1]] ELSE x[2]]
  <1>1. step \in [Int \X Nat -> Nat] /\ \A n \in 1..M : \A x \in Nat : step[<<n, x>>] = x + add[n]
    OBVIOUS
  <1> HIDE DEF step
  <1>2. PICK w \in [0..M -> Nat] : Loops(w, 0, M, first, step)
    <2>1. 0 \in Int /\ M \in Int
      OBVIOUS
    <2> QED
      BY <1>1, <2>1, LoopIsDefined
  <1>3. ASSUME NEW n \in 0..M PROVE w[n] = IF n = 0 THEN first ELSE w[n - 1] + add[n]
    <2>1. w[n] = IF n = 0 THEN first ELSE step[<<n, w[n - 1]>>]
      BY <1>2 DEF Loops
    <2>2. n # 0 => n \in 1..M /\ w[n - 1] \in Nat
      BY <1>2
    <2> QED
      BY <1>1, <2>1, <2>2
  <1> QED
    BY <1>2, <1>3 DEF SumsUp

LEMMA SumGoesUp ==
  ASSUME NEW M \in Nat, NEW first, NEW add \in [1..M -> Nat], NEW w \in [0..M -> Nat], SumsUp(w, M, first, add),
         NEW m \in 0..M
  PROVE  \A n \in m..M : w[m] <= w[n]
  <1> DEFINE S == {n \in m..M : w[m] <= w[n]}
  <1>1. m \in S
    OBVIOUS
  <1>2. \A n \in (m + 1)..M : n - 1 \in S => n \in S
    <2> SUFFICES ASSUME NEW n \in (m + 1)..M, n - 1 \in S PROVE n \in S
      OBVIOUS
    <2>1. n \in 0..M /\ n # 0 /\ n \in 1..M /\ n - 1 \in 0..M /\ n \in m..M
      OBVIOUS
    <2>2. w[n] = w[n - 1] + add[n]
      BY <2>1 DEF SumsUp
    <2>3. w[m] \in Nat /\ w[n - 1] \in Nat /\ add[n] \in Nat /\ w[m] <= w[n - 1]
      BY <2>1
    <2>4. w[m] <= w[n]
      BY <2>2, <2>3
    <2> QED
      BY <2>1, <2>4
  <1> HIDE DEF S
  <1>3. \A n \in m..M : n \in S
    <2>1. m \in Int /\ M \in Int
      OBVIOUS
    <2> QED
      BY <1>1, <1>2, <2>1, UpFromTheFirst
  <1> QED
    BY <1>3 DEF S

\* Line i is of the body of the n-th section.
InSection(n, i, lines, levels, starts) ==
    /\ starts[n] < i /\ i \in (starts[n] + 1)..LastLine(lines, starts, n)
    /\ \A j \in (starts[n] + 1)..i : levels[j] = 9

\* A line of a body is in the section that started last before it.
LEMMA LineHasASection ==
  ASSUME NEW N \in Nat, NEW lines \in [1..N -> DocLines], NEW levels \in [1..N -> {0, 1, 2, 9}], NEW starts,
         Starting(starts, levels, N), NEW i \in 1..N, levels[i] = 9
  PROVE  \E n \in 1..Len(starts) : InSection(n, i, lines, levels, starts)
  <1> DEFINE M == Len(starts)
             S == {n \in 1..M : starts[n] < i}
             n == Max(S)
  <1>1. M \in Nat \ {0} /\ starts[1] = 0 /\ \A k \in 1..M : starts[k] \in 0..N
    BY DEF Starting
  <1>2. Len(lines) = N
    <2>1. lines \in Seq(DocLines)
      OBVIOUS
    <2> QED
      BY <2>1
  <1>3. S \in SUBSET (0..M) /\ S # {}
    <2>1. 1 \in S
      BY <1>1
    <2> QED
      BY <1>1, <2>1
  <1> HIDE DEF S
  <1>4. n \in S /\ \A k \in S : k <= n
    BY <1>1, <1>3, MaxIsGreatest
  <1> HIDE DEF n
  <1>5. n \in 1..M /\ starts[n] < i /\ starts[n] \in 0..N
    BY <1>1, <1>4 DEF S
  <1>6. ASSUME NEW j \in (starts[n] + 1)..i PROVE levels[j] = 9
    <2> SUFFICES ASSUME levels[j] # 9 PROVE FALSE
      OBVIOUS
    <2>1. j \in 1..N /\ j # i /\ j < i /\ starts[n] < j
      BY <1>5
    <2>2. PICK k \in 2..M : starts[k] = j
      BY <2>1 DEF Starting
    <2>3. k \in 1..M /\ k \in S
      BY <2>1, <2>2 DEF S
    <2>4. k <= n /\ k # n
      BY <1>4, <1>5, <2>1, <2>2, <2>3
    <2>5. k < n
      BY <1>5, <2>3, <2>4
    <2>6. starts[k] < starts[n]
      BY <1>5, <2>3, <2>5 DEF Starting
    <2> QED
      BY <1>5, <2>1, <2>2, <2>6
  <1>7. i <= LastLine(lines, starts, n) /\ LastLine(lines, starts, n) \in Int
    <2>1. CASE n = M
      BY <1>2, <2>1 DEF LastLine
    <2>2. CASE n # M
      <3>1. n + 1 \in 2..M /\ n + 1 \in 1..M
        BY <1>1, <1>5, <2>2
      <3>2. starts[n + 1] \in 1..N /\ levels[starts[n + 1]] # 9
        BY <3>1 DEF Starting
      <3>3. ~(starts[n + 1] < i)
        <4>1. n + 1 \notin S
          BY <1>4, <1>5
        <4> QED
          BY <3>1, <4>1 DEF S
      <3>4. i <= starts[n + 1] - 1 /\ starts[n + 1] - 1 \in Int
        BY <3>2, <3>3
      <3> QED
        BY <2>2, <3>4 DEF LastLine
    <2> QED
      BY <2>1, <2>2
  <1>8. i \in (starts[n] + 1)..LastLine(lines, starts, n)
    BY <1>5, <1>7
  <1>9. InSection(n, i, lines, levels, starts)
    BY <1>5, <1>6, <1>8 DEF InSection
  <1> QED
    BY <1>5, <1>9

(***************************************************************************)
(* In any document, each block is under the nearest heading of every lower *)
(* level since the last title, the blocks follow one another without       *)
(* overlap, and none of the body's lines is lost (parse.assemble).         *)
(***************************************************************************)
THEOREM BlocksInPlace == \A lines \in Seq(DocLines) : BlocksAreUnderTheirHeadings(lines)
  <1> SUFFICES ASSUME NEW lines \in Seq(DocLines) PROVE BlocksAreUnderTheirHeadings(lines)
    OBVIOUS
  <1> DEFINE N == Len(lines)
             levels == Levels(lines)
             starts == StartLines(levels)
             open == OpenLevels(levels)
             M == Len(starts)
             body(n) == BodyLength(lines, starts, n)
             heading(n) == IF starts[n] # 0 /\ levels[starts[n]] # 0 THEN 1 ELSE 0
             first == IF \E i \in DOMAIN lines : levels[i] = 0 THEN 3 ELSE 0
             Filled[n \in 0..M] ==
                 IF n = 0 THEN first ELSE Filled[n - 1] + 3 * heading(n) + IF body(n) = 0 THEN 0 ELSE body(n) + 2
             offset(n) == Filled[n - 1] + 3 * heading(n)
             block(n) == [path |-> open[starts[n]], start |-> offset(n), end |-> offset(n) + body(n), at |-> starts[n]]
             blocks == assemble(lines)
             K == {n \in 1..M : body(n) # 0}
             g == [n \in 1..M |-> block(n)]
             T == {block(n) : n \in 1..M}
             f == [n \in 1..M |-> IF n \in K THEN <<g[n]>> ELSE <<>>]
  <1>1. N \in Nat /\ lines \in [1..N -> DocLines] /\ DOMAIN lines = 1..N
    OBVIOUS
  <1>2. levels \in [1..N -> {0, 1, 2, 9}]
    BY LevelsOfLines
  <1>3. Starting(starts, levels, N)
    BY <1>1, <1>2, SectionsStart
  <1>4. blocks = FlattenSeq([n \in DOMAIN starts |-> IF body(n) = 0 THEN <<>> ELSE <<block(n)>>])
    BY DEF assemble
  <1> HIDE DEF N, levels, starts, blocks, open
  <1>5. M \in Nat \ {0} /\ DOMAIN starts = 1..M /\ \A n \in 1..M : starts[n] \in 0..N
    BY <1>3 DEF Starting
  <1>6. \A n \in 1..M : body(n) \in Nat /\ heading(n) \in Nat
    <2>1. \A n \in 1..M : BodyLength(lines, starts, n) \in Nat
      BY <1>1, <1>3, BodyIsThere
    <2> QED
      BY <2>1
  <1>7. first \in Nat
    OBVIOUS
  <1> HIDE DEF body, heading, first, M
  <1> DEFINE add == [n \in 1..M |-> 3 * heading(n) + IF body(n) = 0 THEN 0 ELSE body(n) + 2]
  <1>8. add \in [1..M -> Nat]
    <2>1. \A n \in 1..M : 3 * heading(n) + (IF body(n) = 0 THEN 0 ELSE body(n) + 2) \in Nat
      BY <1>6
    <2> QED
      BY <2>1
  <1>9. PICK w \in [0..M -> Nat] : SumsUp(w, M, first, add)
    <2> HIDE DEF add
    <2> QED
      BY <1>5, <1>7, <1>8, SumIsDefined
  <1>10. \A n \in 0..M : w[n] = IF n = 0 THEN first ELSE w[n - 1] + 3 * heading(n) + IF body(n) = 0 THEN 0 ELSE body(n) + 2
    <2> SUFFICES ASSUME NEW n \in 0..M
                 PROVE  w[n] = IF n = 0 THEN first ELSE w[n - 1] + 3 * heading(n) + IF body(n) = 0 THEN 0 ELSE body(n) + 2
      OBVIOUS
    <2>1. CASE n = 0
      BY <1>9, <2>1 DEF SumsUp
    <2>2. CASE n # 0
      <3>1. n \in 1..M /\ n - 1 \in 0..M
        BY <1>5, <2>2
      <3>2. w[n] = w[n - 1] + add[n]
        BY <1>9, <2>2 DEF SumsUp
      <3>3. add[n] = 3 * heading(n) + IF body(n) = 0 THEN 0 ELSE body(n) + 2
        BY <3>1
      <3>4. w[n - 1] \in Nat /\ heading(n) \in Nat /\ body(n) \in Nat
        BY <1>6, <1>9, <3>1
      <3> HIDE DEF add
      <3> QED
        BY <2>2, <3>2, <3>3, <3>4
    <2> QED
      BY <2>1, <2>2
  <1>11. Filled = [n \in 0..M |-> IF n = 0 THEN first ELSE Filled[n - 1] + 3 * heading(n) + IF body(n) = 0 THEN 0 ELSE body(n) + 2]
    <2>1. w = [n \in 0..M |-> IF n = 0 THEN first ELSE w[n - 1] + 3 * heading(n) + IF body(n) = 0 THEN 0 ELSE body(n) + 2]
      BY <1>9, <1>10
    <2> QED
      BY <2>1
  <1> HIDE DEF Filled
  <1>12. Filled \in [0..M -> Nat] /\ SumsUp(Filled, M, first, add)
    <2>1. \A n \in 0..M : Filled[n] = IF n = 0 THEN first ELSE Filled[n - 1] + 3 * heading(n) + IF body(n) = 0 THEN 0 ELSE body(n) + 2
      BY <1>11
    <2> DEFINE S == {n \in 0..M : Filled[n] \in Nat}
    <2>2. 0 \in S
      BY <1>5, <1>7, <2>1
    <2>3. \A n \in (0 + 1)..M : n - 1 \in S => n \in S
      <3> SUFFICES ASSUME NEW n \in 1..M, n - 1 \in S PROVE n \in S
        OBVIOUS
      <3>1. n \in 0..M /\ n # 0 /\ Filled[n - 1] \in Nat /\ heading(n) \in Nat /\ body(n) \in Nat
        BY <1>6
      <3>2. Filled[n] = Filled[n - 1] + 3 * heading(n) + IF body(n) = 0 THEN 0 ELSE body(n) + 2
        BY <2>1, <3>1
      <3>3. Filled[n] \in Nat
        BY <3>1, <3>2
      <3> QED
        BY <3>1, <3>3
    <2> HIDE DEF S
    <2>4. \A n \in 0..M : n \in S
      <3>1. 0 \in Int /\ M \in Int
        BY <1>5
      <3> QED
        BY <2>2, <2>3, <3>1, UpFromTheFirst
    <2>5. \A n \in 0..M : Filled[n] \in Nat
      BY <2>4 DEF S
    <2>6. Filled \in [0..M -> Nat]
      BY <1>11, <2>5
    <2>7. ASSUME NEW n \in 0..M PROVE Filled[n] = IF n = 0 THEN first ELSE Filled[n - 1] + add[n]
      <3>1. CASE n = 0
        BY <2>1, <3>1
      <3>2. CASE n # 0
        <4>1. n \in 1..M /\ n - 1 \in 0..M
          BY <1>5, <3>2
        <4>2. add[n] = 3 * heading(n) + IF body(n) = 0 THEN 0 ELSE body(n) + 2
          BY <4>1
        <4>3. Filled[n - 1] \in Nat /\ heading(n) \in Nat /\ body(n) \in Nat
          BY <1>6, <2>5, <4>1
        <4>4. Filled[n] = Filled[n - 1] + 3 * heading(n) + IF body(n) = 0 THEN 0 ELSE body(n) + 2
          BY <2>1, <3>2
        <4> HIDE DEF add
        <4> QED
          BY <3>2, <4>2, <4>3, <4>4
      <3> QED
        BY <3>1, <3>2
    <2> QED
      BY <2>6, <2>7 DEF SumsUp
  <1>13. \A n \in 1..M : /\ offset(n) \in Nat /\ offset(n) >= Filled[n - 1]
                         /\ body(n) # 0 => offset(n) + body(n) + 2 = Filled[n]
    <2> SUFFICES ASSUME NEW n \in 1..M
                 PROVE  offset(n) \in Nat /\ offset(n) >= Filled[n - 1] /\ (body(n) # 0 => offset(n) + body(n) + 2 = Filled[n])
      OBVIOUS
    <2>1. n \in 0..M /\ n # 0 /\ n - 1 \in 0..M
      BY <1>5
    <2>2. Filled[n] = Filled[n - 1] + 3 * heading(n) + IF body(n) = 0 THEN 0 ELSE body(n) + 2
      BY <1>11, <2>1
    <2>3. Filled[n - 1] \in Nat /\ heading(n) \in Nat /\ body(n) \in Nat
      BY <1>6, <1>12, <2>1
    <2> QED
      BY <2>2, <2>3
  <1>14. PICK at : PickedBy(at, blocks, M, K, g)
    <2>1. blocks = FlattenSeq(f)
      <3>1. [n \in DOMAIN starts |-> IF body(n) = 0 THEN <<>> ELSE <<block(n)>>] = f
        <4>1. \A n \in 1..M : (IF body(n) = 0 THEN <<>> ELSE <<block(n)>>) = IF n \in K THEN <<g[n]>> ELSE <<>>
          OBVIOUS
        <4> HIDE DEF block, g, K
        <4> QED
          BY <1>5, <4>1
      <3> HIDE DEF f, block
      <3> QED
        BY <1>4, <3>1
    <2>2. K \in SUBSET (1..M) /\ g \in [1..M -> T]
      OBVIOUS
    <2>3. M \in Nat
      BY <1>5
    <2> HIDE DEF K, g, T
    <2> QED
      BY <2>1, <2>2, <2>3, FlattenPicks
  <1>15. \A n \in 1..M : g[n].path = open[starts[n]] /\ g[n].start = offset(n) /\ g[n].end = offset(n) + body(n) /\ g[n].at = starts[n]
    OBVIOUS
  <1>16. \A n \in K : n \in 1..M /\ body(n) # 0
    OBVIOUS
  <1>17. \A n \in 1..M : body(n) # 0 => n \in K
    OBVIOUS
  <1> HIDE DEF g, K
  <1> DEFINE k(n) == at[n]
  <1>18. Len(blocks) \in Nat /\ DOMAIN blocks = 1..Len(blocks)
    <2>1. blocks \in Seq(T)
      <3>1. blocks = FlattenSeq(f)
        <4>1. [n \in DOMAIN starts |-> IF body(n) = 0 THEN <<>> ELSE <<block(n)>>] = f
          <5>1. \A n \in 1..M : (IF body(n) = 0 THEN <<>> ELSE <<block(n)>>) = IF n \in K THEN <<g[n]>> ELSE <<>>
            BY DEF g, K
          <5> HIDE DEF block
          <5> QED
            BY <1>5, <5>1
        <4> HIDE DEF f, block
        <4> QED
          BY <1>4, <4>1
      <3>2. K \in SUBSET (1..M) /\ g \in [1..M -> T]
        BY DEF g, K
      <3>3. M \in Nat
        BY <1>5
      <3> HIDE DEF T
      <3> QED
        BY <3>1, <3>2, <3>3, FlattenPicks
    <2> HIDE DEF T
    <2> QED
      BY <2>1
  <1>19. \A n \in 1..Len(blocks) : at[n] \in K /\ at[n] \in 1..M /\ blocks[n] = g[at[n]]
    BY <1>14, <1>16 DEF PickedBy
  <1> HIDE DEF block, T, f
  <1>20. ASSUME NEW n \in DOMAIN blocks
         PROVE  ToSet(blocks[n].path) = {h \in 1..blocks[n].at : Above(levels, h, blocks[n].at)}
    <2> DEFINE s == starts[at[n]]
    <2>1. blocks[n].path = open[s] /\ blocks[n].at = s
      BY <1>15, <1>18, <1>19
    <2>2. s \in 0..N
      BY <1>5, <1>18, <1>19
    <2> HIDE DEF s
    <2>3. ToSet(open[s]) = {h \in 1..s : Above(levels, h, s)}
      BY <1>1, <1>2, <2>2, OpenHeadings DEF open
    <2> QED
      BY <2>1, <2>3
  <1>21. ASSUME NEW n \in DOMAIN blocks, NEW m \in 1..(n - 1) PROVE blocks[m].end + 2 <= blocks[n].start
    <2> DEFINE a == at[m]
               c == at[n]
    <2>1. n \in 1..Len(blocks) /\ m \in 1..Len(blocks) /\ m < n
      BY <1>18
    <2>2. a \in 1..M /\ c \in 1..M /\ a < c /\ a \in K /\ blocks[m] = g[a] /\ blocks[n] = g[c]
      BY <1>14, <1>19, <2>1 DEF PickedBy
    <2> HIDE DEF a, c
    <2>3. blocks[m].end = offset(a) + body(a) /\ blocks[n].start = offset(c)
      BY <1>15, <2>2
    <2>4. offset(a) + body(a) + 2 = Filled[a] /\ offset(c) >= Filled[c - 1] /\ offset(c) \in Nat /\ offset(a) \in Nat /\ body(a) \in Nat
      BY <1>6, <1>13, <1>16, <2>2
    <2>5. Filled[a] <= Filled[c - 1] /\ Filled[a] \in Nat /\ Filled[c - 1] \in Nat
      <3>1. M \in Nat /\ a \in 0..M /\ c - 1 \in a..M /\ c - 1 \in 0..M
        BY <1>5, <2>2
      <3> HIDE DEF add
      <3>2. \A x \in a..M : Filled[a] <= Filled[x]
        BY <1>8, <1>12, <3>1, SumGoesUp
      <3> QED
        BY <1>12, <3>1, <3>2
    <2> HIDE DEF offset
    <2> QED
      BY <2>3, <2>4, <2>5
  <1>22. ASSUME NEW i \in DOMAIN lines, levels[i] = 9, lines[i] # "blank"
         PROVE  \E b \in ToSet(blocks) : b.at < i /\ \A j \in (b.at + 1)..i : levels[j] = 9
    <2>1. PICK n \in 1..M : InSection(n, i, lines, levels, starts)
      <3>1. i \in 1..N /\ levels[i] = 9 /\ N \in Nat /\ lines \in [1..N -> DocLines]
        BY <1>1, <1>22
      <3>2. PICK K1, s, l : K1 = N /\ s = starts /\ l = levels
        OBVIOUS
      <3>3. \E n \in 1..Len(s) : InSection(n, i, lines, l, s)
        BY <1>2, <1>3, <3>1, <3>2, LineHasASection
      <3> QED
        BY <3>2, <3>3 DEF M
    <2>5. starts[n] < i /\ i \in (starts[n] + 1)..LastLine(lines, starts, n) /\ \A j \in (starts[n] + 1)..i : levels[j] = 9
      BY <2>1 DEF InSection
    <2>2. body(n) # 0
      <3>1. BodyLength(lines, starts, n) = 0 <=> \A j \in (starts[n] + 1)..LastLine(lines, starts, n) : lines[j] = "blank"
        BY <1>1, <1>3, BodyIsThere DEF M
      <3> QED
        BY <1>22, <2>5, <3>1 DEF body
    <2>3. PICK x \in 1..Len(blocks) : at[x] = n
      BY <1>14, <1>17, <2>2 DEF PickedBy
    <2>4. blocks[x].at = starts[n] /\ blocks[x] \in ToSet(blocks)
      <3>1. blocks[x].at = starts[n]
        BY <1>15, <1>19, <2>3
      <3> QED
        BY <1>18, <3>1 DEF ToSet
    <2> QED
      BY <2>4, <2>5
  <1>23. \A n \in DOMAIN blocks : \A h : Above(levels, h, blocks[n].at) <=>
              h <= blocks[n].at /\ levels[h] \in 1..2 /\ \A i \in (h + 1)..blocks[n].at : levels[i] > levels[h]
    BY DEF Above
  <1>24. BlocksAreUnderTheirHeadings(lines) <=>
           /\ \A n \in DOMAIN blocks :
                 /\ ToSet(blocks[n].path) = {h \in 1..blocks[n].at : Above(levels, h, blocks[n].at)}
                 /\ \A m \in 1..(n - 1) : blocks[m].end + 2 <= blocks[n].start
           /\ \A i \in DOMAIN lines : (levels[i] = 9 /\ lines[i] # "blank") =>
                 \E b \in ToSet(blocks) : b.at < i /\ \A j \in (b.at + 1)..i : levels[j] = 9
    BY Zenon DEF BlocksAreUnderTheirHeadings, BlocksAreUnder, Above, blocks, levels
  <1> QED
    BY <1>20, <1>21, <1>22, <1>24

-----------------------------------------------------------------------------
(* Searching.                                                              *)
\* No entry of s is there twice.
Once(s) == \A j, k \in 1..Len(s) : j # k => s[j] # s[k]

\* Then it has as many as it is long.
LEMMA OnceIsCounted ==
  ASSUME NEW T, NEW s \in Seq(T), Once(s)
  PROVE  IsFiniteSet(ToSet(s)) /\ Cardinality(ToSet(s)) = Len(s)
  <1> DEFINE n == Len(s)
             S == ToSet(s)
  <1>1. n \in Nat /\ DOMAIN s = 1..n /\ S = {s[k] : k \in 1..n}
    BY DEF ToSet
  <1> DEFINE f == [k \in 1..n |-> s[k]]
  <1>2. f \in Surjection(1..n, S)
    BY <1>1 DEF Surjection
  <1>3. f \in Injection(1..n, S)
    BY <1>1 DEF Injection, IsInjective, Once
  <1>4. 0 \in Int /\ 1 \in Int /\ n \in Int
    BY <1>1
  <1>5. IsFiniteSet(1..n) /\ Cardinality(1..n) = n
    BY <1>1, <1>4, FS_Interval
  <1> HIDE DEF f, S, n
  <1>6. IsFiniteSet(S) /\ Cardinality(S) = Cardinality(1..n)
    BY <1>2, <1>3, <1>5, FS_Surjection
  <1> QED
    BY <1>5, <1>6 DEF S, n

\* Weights that differ put the members of a set in one order, all of them.
LEMMA AllByWeight ==
  ASSUME NEW S, IsFiniteSet(S), NEW weight \in [S -> Int], \A x, y \in S : weight[x] = weight[y] => x = y
  PROVE  /\ ByWeight(S, weight) \in Seq(S) /\ Len(ByWeight(S, weight)) = Cardinality(S)
         /\ Once(ByWeight(S, weight)) /\ ToSet(ByWeight(S, weight)) = S
  <1> DEFINE c == Cardinality(S)
             A(x) == {y \in S : weight[y] > weight[x]}
             f == [x \in S |-> Cardinality(A(x))]
             b == ByWeight(S, weight)
  <1>1. c \in Nat
    BY FS_CardinalityType
  <1>2. ASSUME NEW x \in S PROVE IsFiniteSet(A(x)) /\ Cardinality(A(x)) \in 0..(c - 1)
    <2>1. A(x) \in SUBSET (S \ {x})
      OBVIOUS
    <2>2. IsFiniteSet(S \ {x}) /\ Cardinality(S \ {x}) = c - 1
      BY FS_RemoveElement
    <2> HIDE DEF A, c
    <2>3. IsFiniteSet(A(x)) /\ Cardinality(A(x)) <= c - 1
      BY <2>1, <2>2, FS_Subset
    <2>4. Cardinality(A(x)) \in Nat
      BY <2>3, FS_CardinalityType
    <2> QED
      BY <1>1, <2>3, <2>4
  <1>3. ASSUME NEW x \in S, NEW z \in S, weight[x] < weight[z] PROVE Cardinality(A(x)) # Cardinality(A(z))
    <2>1. weight[x] \in Int /\ weight[z] \in Int /\ \A y \in S : weight[y] \in Int
      OBVIOUS
    <2>2. A(z) \in SUBSET A(x) /\ z \in A(x) /\ z \notin A(z)
      BY <1>3, <2>1
    <2> HIDE DEF A
    <2> QED
      BY <1>2, <2>2, FS_Subset
  <1>4. \A x, z \in S : x # z => weight[x] < weight[z] \/ weight[z] < weight[x]
    <2> SUFFICES ASSUME NEW x \in S, NEW z \in S, x # z PROVE weight[x] < weight[z] \/ weight[z] < weight[x]
      OBVIOUS
    <2>1. weight[x] \in Int /\ weight[z] \in Int /\ weight[x] # weight[z]
      OBVIOUS
    <2> QED
      BY <2>1
  <1> HIDE DEF A
  <1>5. f \in Injection(S, 0..(c - 1))
    <2>1. f \in [S -> 0..(c - 1)]
      BY <1>2
    <2>2. \A x, z \in S : f[x] = f[z] => x = z
      BY <1>3, <1>4
    <2> QED
      BY <2>1, <2>2 DEF Injection, IsInjective
  <1>6. IsFiniteSet(0..(c - 1)) /\ Cardinality(0..(c - 1)) = c
    <2>1. 0 \in Int /\ c - 1 \in Int
      BY <1>1
    <2>2. IsFiniteSet(0..(c - 1)) /\ Cardinality(0..(c - 1)) = IF 0 > c - 1 THEN 0 ELSE (c - 1) - 0 + 1
      BY <2>1, FS_Interval
    <2> QED
      BY <1>1, <2>2
  <1>7. f \in Surjection(S, 0..(c - 1))
    <2> HIDE DEF f
    <2> QED
      BY <1>5, <1>6, FS_Injection
  <1>8. \A n \in 1..c : \E x \in S : Cardinality(A(x)) = n - 1
    <2>1. \A n \in 1..c : n - 1 \in 0..(c - 1)
      BY <1>1
    <2>2. \A m \in 0..(c - 1) : \E x \in S : f[x] = m
      BY <1>7 DEF Surjection
    <2> QED
      BY <2>1, <2>2
  <1>9. b = [n \in 1..c |-> CHOOSE x \in S : Cardinality(A(x)) = n - 1]
    BY DEF ByWeight, A
  <1> HIDE DEF b, c
  <1>10. \A n \in 1..c : b[n] \in S /\ Cardinality(A(b[n])) = n - 1
    <2> SUFFICES ASSUME NEW n \in 1..c PROVE b[n] \in S /\ Cardinality(A(b[n])) = n - 1
      OBVIOUS
    <2>1. b[n] = CHOOSE x \in S : Cardinality(A(x)) = n - 1
      BY <1>9
    <2> QED
      BY <1>8, <2>1
  <1>11. b \in [1..c -> S]
    BY <1>9, <1>10
  <1>12. b \in Seq(S) /\ Len(b) = c /\ DOMAIN b = 1..c
    BY <1>1, <1>11
  <1>13. \A j, k \in 1..c : j # k => b[j] # b[k]
    BY <1>10
  <1>14. ToSet(b) = S
    <2>1. b \in Injection(1..c, S)
      BY <1>11, <1>13 DEF Injection, IsInjective
    <2>2. 1 \in Int /\ c \in Int
      BY <1>1
    <2>3. Cardinality(1..c) = c
      <3>1. Cardinality(1..c) = IF 1 > c THEN 0 ELSE c - 1 + 1
        BY <2>2, FS_Interval
      <3> QED
        BY <1>1, <3>1
    <2>4. b \in Surjection(1..c, S)
      BY <2>1, <2>3, FS_Injection DEF c
    <2> QED
      BY <1>11, <1>12, <2>4 DEF Surjection, ToSet
  <1> QED
    BY <1>12, <1>13, <1>14 DEF Once, b, c

\* u is the first n of s.
Begins(u, s, n, T) ==
    /\ u \in Seq(T) /\ Len(u) = Smaller(n, Len(s))
    /\ \A k \in 1..Len(u) : k \in 1..Len(s) /\ u[k] = s[k]
    /\ Once(s) => Once(u)
    /\ ToSet(u) \subseteq ToSet(s)
    /\ Len(s) <= n => ToSet(u) = ToSet(s)

LEMMA TheFirstOf ==
  ASSUME NEW T, NEW s \in Seq(T), NEW n \in Nat
  PROVE  Begins(FirstOf(s, n), s, n, T)
  <1> DEFINE m == Smaller(n, Len(s))
             u == FirstOf(s, n)
  <1>1. Len(s) \in Nat /\ DOMAIN s = 1..Len(s) /\ m \in Nat /\ m <= Len(s) /\ m <= n /\ (Len(s) <= n => m = Len(s))
    BY DEF Smaller
  <1>2. u = SubSeq(s, 1, m)
    BY DEF FirstOf
  <1> HIDE DEF m, u
  <1>4. \A k \in 1..m : k \in 1..Len(s)
    <2> DEFINE L == Len(s)
    <2>1. L \in Nat /\ m \in Nat /\ m <= L
      BY <1>1
    <2> HIDE DEF L
    <2>2. \A k \in 1..m : k \in 1..L
      BY <2>1
    <2> QED
      BY <2>2 DEF L
  <1>3. u \in Seq(T) /\ Len(u) = m /\ DOMAIN u = 1..m /\ \A k \in 1..m : u[k] = s[k]
    <2>1. \A k \in 1..m : s[k] \in T
      BY <1>4
    <2> DEFINE L == Len(s)
               one == 1
    <2>2. L \in Nat /\ m \in Nat /\ m <= L
      BY <1>1
    <2>3. one \in 1..(L + 1) /\ m \in (one - 1)..L /\ one = 1
      BY <2>2
    <2> HIDE DEF one
    <2>4. /\ SubSeq(s, one, m) \in Seq(T) /\ Len(SubSeq(s, one, m)) = IF one <= m THEN m - one + 1 ELSE 0
          /\ \A k \in 1..(m - one + 1) : SubSeq(s, one, m)[k] = s[one + k - 1]
      BY <2>3, SubSeqProperties
    <2> HIDE DEF L
    <2>5. Len(u) = m /\ \A k \in 1..m : u[k] = s[k]
      <3>1. m - one + 1 = m /\ \A k \in 1..m : one + k - 1 = k
        BY <2>2, <2>3
      <3>2. Len(u) = m
        BY <1>2, <2>2, <2>3, <2>4
      <3> QED
        BY <1>2, <2>3, <2>4, <3>1, <3>2
    <2>6. u \in Seq(T)
      BY <1>2, <2>3, <2>4
    <2>7. DOMAIN u = 1..Len(u)
      BY <2>6
    <2> QED
      BY <2>5, <2>6, <2>7
  <1>5. Once(s) => Once(u)
    BY <1>3, <1>4 DEF Once
  <1>6. ToSet(u) \subseteq ToSet(s)
    BY <1>1, <1>3, <1>4 DEF ToSet
  <1>7. Len(s) <= n => ToSet(u) = ToSet(s)
    BY <1>1, <1>3 DEF ToSet
  <1> QED
    BY <1>3, <1>4, <1>5, <1>6, <1>7 DEF Begins, u, m

\* A search of any scores, for a topic of two passages or for none.
Pairs == {t \in SUBSET Rowids : Cardinality(t) = 2}
Queries == [score : [Rowids -> 0..2], lexical : Seq(Rowids), topic : {{}} \cup Pairs, k : Nat \ {0}, floor : Int,
            injected : SUBSET Rowids]

LEMMA FourRows == IsFiniteSet(Rowids) /\ Cardinality(Rowids) = 4
  <1>1. 1 \in Int /\ 4 \in Int
    OBVIOUS
  <1>2. IsFiniteSet(1..4) /\ Cardinality(1..4) = IF 1 > 4 THEN 0 ELSE 4 - 1 + 1
    BY <1>1, FS_Interval
  <1> QED
    BY <1>2 DEF Rowids

\* How close a passage is, and that no two are equally close.
LEMMA CloserThan ==
  ASSUME NEW score \in [Rowids -> 0..2]
  PROVE  /\ \A r \in Rowids : Closeness[score][r] \in 0..99
         /\ \A r, s \in Rowids : Closeness[score][r] = Closeness[score][s] => r = s
         /\ \A r, s \in Rowids : Closeness[score][s] >= Closeness[score][r] =>
               s = r \/ score[s] > score[r] \/ (score[s] = score[r] /\ s < r)
  <1>1. \A r \in Rowids : Closeness[score][r] = 10 * score[r] + 9 - r /\ score[r] \in 0..2 /\ r \in 1..4
    BY DEF Closeness, Rowids
  <1>2. \A r \in Rowids : Closeness[score][r] \in 0..99
    BY <1>1
  <1>3. ASSUME NEW r \in Rowids, NEW s \in Rowids
        PROVE  /\ Closeness[score][r] = Closeness[score][s] => r = s
               /\ Closeness[score][s] >= Closeness[score][r] =>
                     s = r \/ score[s] > score[r] \/ (score[s] = score[r] /\ s < r)
    <2> DEFINE a == score[r]
               b == score[s]
    <2>1. /\ a \in 0..2 /\ b \in 0..2 /\ r \in 1..4 /\ s \in 1..4
          /\ Closeness[score][r] = 10 * a + 9 - r /\ Closeness[score][s] = 10 * b + 9 - s
      BY <1>1
    <2> HIDE DEF a, b
    <2>2. Closeness[score][r] = Closeness[score][s] => r = s
      BY <2>1
    <2>3. Closeness[score][s] >= Closeness[score][r] => s = r \/ b > a \/ (b = a /\ s < r)
      BY <2>1
    <2> QED
      BY <2>2, <2>3 DEF a, b
  <1> QED
    BY <1>2, <1>3

\* What is found of some rows and is above the floor.
Found(i, rowids) == {r \in rowids : dense_knn(i, rowids, r) > 0 \/ bm25_top(i, rowids, r) > 0}
KeptOf(i, rowids) == {r \in Found(i, rowids) : i.score[r] >= i.floor}
Weighed(i, rowids) ==
    [r \in KeptOf(i, rowids) |-> 100 * (rrf_score(dense_knn(i, rowids, r)) + rrf_score(bm25_top(i, rowids, r)))
                                 + Closeness[i.score][r]]

LEMMA PlacesAreCounted ==
  ASSUME NEW i \in Queries, NEW rowids \in SUBSET Rowids, NEW r \in Rowids
  PROVE  dense_knn(i, rowids, r) \in Nat /\ bm25_top(i, rowids, r) \in Nat
  <1>1. i.lexical \in Seq(Rowids) /\ DOMAIN i.lexical = 1..Len(i.lexical) /\ Len(i.lexical) \in Nat
    BY DEF Queries
  <1>2. dense_knn(i, rowids, r) \in Nat
    <2> DEFINE S == {s \in rowids : Closeness[i.score][s] >= Closeness[i.score][r]}
    <2>1. S \in SUBSET Rowids
      OBVIOUS
    <2> HIDE DEF S
    <2>2. Cardinality(S) \in Nat
      BY <2>1, FourRows, FS_Subset, FS_CardinalityType
    <2>3. dense_knn(i, rowids, r) = IF Cardinality(S) > ARM_K THEN 0 ELSE Cardinality(S)
      BY DEF dense_knn, S
    <2> QED
      BY <2>2, <2>3
  <1>3. bm25_top(i, rowids, r) \in Nat
    <2> DEFINE D == DOMAIN i.lexical
               S == {n \in D : i.lexical[n] \in rowids /\ \E m \in D : i.lexical[m] = r /\ n <= m}
    <2>1. S \in SUBSET D
      OBVIOUS
    <2>2. IsFiniteSet(D)
      <3>1. 1 \in Int /\ Len(i.lexical) \in Int
        BY <1>1
      <3> QED
        BY <1>1, <3>1, FS_Interval
    <2>3. bm25_top(i, rowids, r) = IF Cardinality(S) > ARM_K THEN 0 ELSE Cardinality(S)
      BY DEF bm25_top
    <2> HIDE DEF S, D
    <2>4. Cardinality(S) \in Nat
      BY <2>1, <2>2, FS_Subset, FS_CardinalityType
    <2> QED
      BY <2>3, <2>4
  <1> QED
    BY <1>2, <1>3

LEMMA KeptAreRanked ==
  ASSUME NEW i \in Queries, NEW rowids \in SUBSET Rowids, NEW k \in Nat
  PROVE  /\ retrieve(i, rowids, k) \in Seq(Rowids) /\ Len(retrieve(i, rowids, k)) = Smaller(k, Cardinality(KeptOf(i, rowids)))
         /\ Once(retrieve(i, rowids, k)) /\ ToSet(retrieve(i, rowids, k)) \subseteq KeptOf(i, rowids)
         /\ Cardinality(KeptOf(i, rowids)) <= k => ToSet(retrieve(i, rowids, k)) = KeptOf(i, rowids)
         /\ KeptOf(i, rowids) \subseteq {r \in rowids : i.score[r] >= i.floor}
         /\ IsFiniteSet(KeptOf(i, rowids))
  <1> DEFINE S == KeptOf(i, rowids)
             w == Weighed(i, rowids)
             b == ByWeight(S, w)
             out == retrieve(i, rowids, k)
             u(r) == rrf_score(dense_knn(i, rowids, r)) + rrf_score(bm25_top(i, rowids, r))
             c(r) == Closeness[i.score][r]
  <1>1. S \subseteq {r \in rowids : i.score[r] >= i.floor} /\ S \in SUBSET Rowids
    BY DEF KeptOf, Found
  <1>2. IsFiniteSet(S)
    <2> HIDE DEF S
    <2> QED
      BY <1>1, FourRows, FS_Subset
  <1>3. out = FirstOf(b, k)
    BY DEF retrieve, KeptOf, Found, Weighed
  <1>4. w = [r \in S |-> 100 * u(r) + c(r)]
    BY DEF Weighed
  <1>5. ASSUME NEW p \in Nat PROVE rrf_score(p) \in Int
    <2>1. 61 * 62 * 63 \in Int /\ 60 + p \in Nat /\ 60 + p > 0
      OBVIOUS
    <2>2. (61 * 62 * 63) \div (60 + p) \in Int
      BY <2>1
    <2> QED
      BY <2>2 DEF rrf_score, RRF_K0
  <1>6. \A r \in S : u(r) \in Int /\ c(r) \in 0..99
    <2> SUFFICES ASSUME NEW r \in S PROVE u(r) \in Int /\ c(r) \in 0..99
      OBVIOUS
    <2>1. r \in Rowids /\ i.score \in [Rowids -> 0..2]
      BY <1>1 DEF Queries
    <2>2. c(r) \in 0..99
      BY <2>1, CloserThan
    <2> DEFINE p == dense_knn(i, rowids, r)
               q == bm25_top(i, rowids, r)
    <2>3. p \in Nat /\ q \in Nat
      BY <2>1, PlacesAreCounted
    <2> HIDE DEF p, q
    <2>4. rrf_score(p) \in Int /\ rrf_score(q) \in Int
      BY <1>5, <2>3
    <2>5. rrf_score(p) + rrf_score(q) \in Int
      BY <2>4
    <2> QED
      BY <2>2, <2>5 DEF p, q
  <1>7. \A r, s \in S : c(r) = c(s) => r = s
    <2>1. i.score \in [Rowids -> 0..2]
      BY DEF Queries
    <2> HIDE DEF S
    <2> QED
      BY <1>1, <2>1, CloserThan
  <1> HIDE DEF S, u, c, out, w
  <1>8. w \in [S -> Int] /\ \A r, s \in S : w[r] = w[s] => r = s
    <2>1. \A r \in S : w[r] = 100 * u(r) + c(r)
      BY <1>4
    <2>2. w \in [S -> Int]
      BY <1>4, <1>6
    <2>3. ASSUME NEW r \in S, NEW s \in S, w[r] = w[s] PROVE r = s
      <3>1. 100 * u(r) + c(r) = 100 * u(s) + c(s)
        BY <2>1, <2>3
      <3>2. u(r) \in Int /\ u(s) \in Int /\ c(r) \in 0..99 /\ c(s) \in 0..99
        BY <1>6
      <3>3. c(r) = c(s)
        <4> DEFINE a == u(r)
                   d == u(s)
                   x == c(r)
                   y == c(s)
        <4>1. a \in Int /\ d \in Int /\ x \in 0..99 /\ y \in 0..99 /\ 100 * a + x = 100 * d + y
          BY <3>1, <3>2
        <4> HIDE DEF a, d, x, y
        <4>2. x = y
          BY <4>1
        <4> QED
          BY <4>2 DEF x, y
      <3> QED
        BY <1>7, <3>3
    <2> QED
      BY <2>2, <2>3
  <1>9. b \in Seq(S) /\ Len(b) = Cardinality(S) /\ Once(b) /\ ToSet(b) = S
    BY <1>2, <1>8, AllByWeight
  <1> HIDE DEF b
  <1>10. b \in Seq(Rowids)
    <2> DEFINE R == Rowids
    <2>1. S \subseteq R
      BY <1>1
    <2> HIDE DEF R
    <2>2. b \in Seq(R)
      BY <1>9, <2>1
    <2> QED
      BY <2>2 DEF R
  <1>11. /\ out \in Seq(Rowids) /\ Len(out) = Smaller(k, Len(b)) /\ Once(out) /\ ToSet(out) \subseteq S
         /\ Len(b) <= k => ToSet(out) = S
    BY <1>3, <1>9, <1>10, TheFirstOf DEF Begins
  <1> QED
    BY <1>1, <1>2, <1>9, <1>11 DEF S, out

\* Of as few rows as an arm returns, every one is found.
LEMMA FewAreFound ==
  ASSUME NEW i \in Queries, NEW rowids \in SUBSET Rowids, Cardinality(rowids) <= ARM_K
  PROVE  KeptOf(i, rowids) = {r \in rowids : i.score[r] >= i.floor}
  <1> SUFFICES ASSUME NEW r \in rowids PROVE dense_knn(i, rowids, r) > 0
    BY DEF KeptOf, Found
  <1> DEFINE S == {s \in rowids : Closeness[i.score][s] >= Closeness[i.score][r]}
  <1>1. Closeness[i.score][r] \in Int
    <2>1. i.score \in [Rowids -> 0..2] /\ r \in Rowids
      BY DEF Queries
    <2>2. Closeness[i.score][r] \in 0..99
      BY <2>1, CloserThan
    <2> QED
      BY <2>2
  <1>2. S \in SUBSET rowids /\ r \in S
    BY <1>1
  <1>3. dense_knn(i, rowids, r) = IF Cardinality(S) > ARM_K THEN 0 ELSE Cardinality(S)
    BY DEF dense_knn
  <1> HIDE DEF S
  <1>4. IsFiniteSet(rowids) /\ IsFiniteSet(S) /\ Cardinality(S) <= Cardinality(rowids)
    BY <1>2, FourRows, FS_Subset
  <1>5. Cardinality(S) \in Nat /\ Cardinality(S) # 0 /\ Cardinality(rowids) \in Nat
    BY <1>2, <1>4, FS_CardinalityType, FS_EmptySet
  <1> QED
    BY <1>3, <1>4, <1>5 DEF ARM_K

\* Of all rows, those that few are closer than.
LEMMA BestAreFound ==
  ASSUME NEW i \in Queries, NEW r \in Rowids, i.score[r] >= i.floor,
         Cardinality({s \in Rowids : i.score[s] > i.score[r] \/ (i.score[s] = i.score[r] /\ s < r)}) < ARM_K
  PROVE  r \in KeptOf(i, Rowids)
  <1> DEFINE S == {s \in Rowids : Closeness[i.score][s] >= Closeness[i.score][r]}
             B == {s \in Rowids : i.score[s] > i.score[r] \/ (i.score[s] = i.score[r] /\ s < r)}
  <1>1. i.score \in [Rowids -> 0..2]
    BY DEF Queries
  <1>2. Closeness[i.score][r] \in Int
    <2>1. Closeness[i.score][r] \in 0..99
      BY <1>1, CloserThan
    <2> QED
      BY <2>1
  <1>3. S \in SUBSET (B \cup {r}) /\ r \in S
    BY <1>1, <1>2, CloserThan
  <1>4. dense_knn(i, Rowids, r) = IF Cardinality(S) > ARM_K THEN 0 ELSE Cardinality(S)
    BY DEF dense_knn
  <1>5. B \in SUBSET Rowids /\ Cardinality(B) < ARM_K
    OBVIOUS
  <1> HIDE DEF S, B
  <1>6. IsFiniteSet(B) /\ Cardinality(B) \in Nat
    BY <1>5, FourRows, FS_Subset, FS_CardinalityType
  <1>7. IsFiniteSet(B \cup {r}) /\ Cardinality(B \cup {r}) <= Cardinality(B) + 1 /\ Cardinality(B \cup {r}) \in Nat
    <2>1. IsFiniteSet(B \cup {r}) /\ Cardinality(B \cup {r}) = IF r \in B THEN Cardinality(B) ELSE Cardinality(B) + 1
      BY <1>6, FS_AddElement
    <2> QED
      BY <1>6, <2>1
  <1>8. IsFiniteSet(S) /\ Cardinality(S) <= Cardinality(B \cup {r})
    BY <1>3, <1>7, FS_Subset
  <1>9. Cardinality(S) \in Nat /\ Cardinality(S) # 0
    BY <1>3, <1>8, FS_CardinalityType, FS_EmptySet
  <1>10. dense_knn(i, Rowids, r) > 0
    BY <1>4, <1>5, <1>6, <1>7, <1>8, <1>9 DEF ARM_K
  <1> QED
    BY <1>10 DEF KeptOf, Found

\* What merge_backfill puts together: the passages that are not among these, and those
\* that are of other documents or of the same.
Without(s, rows) == Filter(s, LAMBDA r : r \notin rows)
OfOtherDocs(s, docs) == Filter(s, LAMBDA r : DocOf[r] \notin docs)
OfTheseDocs(s, docs) == Filter(s, LAMBDA r : DocOf[r] \in docs)

LEMMA OnceOfOnce ==
  ASSUME NEW T, NEW s \in Seq(T), Once(s), NEW out, NEW P, Subsequence(out, s, P)
  PROVE  Once(out)
  <1>1. PICK at \in [1..Len(out) -> 1..Len(s)] :
             /\ \A k \in 1..Len(out) : out[k] = s[at[k]]
             /\ \A j, k \in 1..Len(out) : j < k => at[j] < at[k]
    BY DEF Subsequence
  <1>2. Len(s) \in Nat /\ Len(out) \in Nat
    <2>1. out \in Seq(P)
      BY DEF Subsequence
    <2> QED
      BY <2>1
  <1>3. ASSUME NEW j \in 1..Len(out), NEW k \in 1..Len(out), j # k PROVE out[j] # out[k]
    <2>1. at[j] \in 1..Len(s) /\ at[k] \in 1..Len(s) /\ out[j] = s[at[j]] /\ out[k] = s[at[k]]
      BY <1>1
    <2>2. at[j] # at[k]
      <3>1. j < k \/ k < j
        BY <1>2, <1>3
      <3>2. at[j] < at[k] \/ at[k] < at[j]
        BY <1>1, <3>1
      <3> QED
        BY <1>2, <2>1, <3>2
    <2> QED
      BY <2>1, <2>2 DEF Once
  <1> QED
    BY <1>3 DEF Once

\* s are these rows, each once.
RowsOf(s, rows) == s \in Seq(Rowids) /\ Once(s) /\ ToSet(s) = rows

InOtherDocs(rows, docs) == {r \in rows : DocOf[r] \notin docs}
InTheseDocs(rows, docs) == {r \in rows : DocOf[r] \in docs}

LEMMA WhatIsFiltered ==
  ASSUME NEW s \in Seq(Rowids), Once(s), NEW rows, NEW docs
  PROVE  /\ RowsOf(Without(s, rows), ToSet(s) \ rows)
         /\ RowsOf(OfOtherDocs(s, docs), InOtherDocs(ToSet(s), docs))
         /\ RowsOf(OfTheseDocs(s, docs), InTheseDocs(ToSet(s), docs))
  <1>1. Len(s) \in Nat /\ DOMAIN s = 1..Len(s) /\ \A n \in DOMAIN s : s[n] \in Rowids /\ ToSet(s) \subseteq Rowids
    <2>1. Len(s) \in Nat /\ DOMAIN s = 1..Len(s) /\ \A n \in DOMAIN s : s[n] \in Rowids
      OBVIOUS
    <2> QED
      BY <2>1 DEF ToSet
  <1>2. ASSUME NEW P, P \subseteq Rowids, NEW out, Subsequence(out, s, P)
        PROVE  out \in Seq(Rowids) /\ Once(out) /\ ToSet(out) = ToSet(s) \cap P
    <2> DEFINE R == Rowids
    <2>1. out \in Seq(P) /\ ToSet(out) = ToSet(s) \cap P /\ P \subseteq R
      BY <1>2 DEF Subsequence
    <2> HIDE DEF R
    <2>2. out \in Seq(R)
      BY <2>1, WiderSequence
    <2>3. Once(out)
      BY <1>2, OnceOfOnce
    <2> QED
      BY <2>1, <2>2, <2>3 DEF R
  <1>3. ASSUME NEW P PROVE Subsequence(FlattenSeq([n \in DOMAIN s |-> IF s[n] \in P THEN <<s[n]>> ELSE <<>>]), s, P)
    <2> DEFINE f == [n \in DOMAIN s |-> IF s[n] \in P THEN <<s[n]>> ELSE <<>>]
    <2>1. PICK h : h = f
      OBVIOUS
    <2>2. h = [n \in DOMAIN s |-> IF s[n] \in P THEN <<s[n]>> ELSE <<>>]
      BY <2>1
    <2>3. Subsequence(FlattenSeq(h), s, P)
      BY <2>2, FilterKeeps
    <2> QED
      BY <2>1, <2>3
  <1>4. Without(s, rows) \in Seq(Rowids) /\ Once(Without(s, rows)) /\ ToSet(Without(s, rows)) = ToSet(s) \ rows
    <2> DEFINE P == Rowids \ rows
    <2>1. \A n \in DOMAIN s : s[n] \in P <=> s[n] \notin rows
      BY <1>1
    <2>2. Without(s, rows) = FlattenSeq([n \in DOMAIN s |-> IF s[n] \notin rows THEN <<s[n]>> ELSE <<>>])
      BY DEF Without, Filter
    <2>3. P \subseteq Rowids /\ ToSet(s) \cap P = ToSet(s) \ rows
      BY <1>1 DEF ToSet
    <2> HIDE DEF P
    <2>4. Without(s, rows) = FlattenSeq([n \in DOMAIN s |-> IF s[n] \in P THEN <<s[n]>> ELSE <<>>])
      BY <2>1, <2>2
    <2>5. Subsequence(Without(s, rows), s, P)
      BY <1>3, <2>4
    <2> QED
      BY <1>2, <2>3, <2>5
  <1>5. /\ OfOtherDocs(s, docs) \in Seq(Rowids) /\ Once(OfOtherDocs(s, docs))
        /\ ToSet(OfOtherDocs(s, docs)) = {r \in ToSet(s) : DocOf[r] \notin docs}
    <2> DEFINE P == {r \in Rowids : DocOf[r] \notin docs}
    <2>1. \A n \in DOMAIN s : s[n] \in P <=> DocOf[s[n]] \notin docs
      BY <1>1
    <2>2. OfOtherDocs(s, docs) = FlattenSeq([n \in DOMAIN s |-> IF DocOf[s[n]] \notin docs THEN <<s[n]>> ELSE <<>>])
      BY DEF OfOtherDocs, Filter
    <2>3. P \subseteq Rowids /\ ToSet(s) \cap P = {r \in ToSet(s) : DocOf[r] \notin docs}
      BY <1>1 DEF ToSet
    <2> HIDE DEF P
    <2>4. OfOtherDocs(s, docs) = FlattenSeq([n \in DOMAIN s |-> IF s[n] \in P THEN <<s[n]>> ELSE <<>>])
      BY <2>1, <2>2
    <2>5. Subsequence(OfOtherDocs(s, docs), s, P)
      BY <1>3, <2>4
    <2> QED
      BY <1>2, <2>3, <2>5
  <1>6. /\ OfTheseDocs(s, docs) \in Seq(Rowids) /\ Once(OfTheseDocs(s, docs))
        /\ ToSet(OfTheseDocs(s, docs)) = {r \in ToSet(s) : DocOf[r] \in docs}
    <2> DEFINE P == {r \in Rowids : DocOf[r] \in docs}
    <2>1. \A n \in DOMAIN s : s[n] \in P <=> DocOf[s[n]] \in docs
      BY <1>1
    <2>2. OfTheseDocs(s, docs) = FlattenSeq([n \in DOMAIN s |-> IF DocOf[s[n]] \in docs THEN <<s[n]>> ELSE <<>>])
      BY DEF OfTheseDocs, Filter
    <2>3. P \subseteq Rowids /\ ToSet(s) \cap P = {r \in ToSet(s) : DocOf[r] \in docs}
      BY <1>1 DEF ToSet
    <2> HIDE DEF P
    <2>4. OfTheseDocs(s, docs) = FlattenSeq([n \in DOMAIN s |-> IF s[n] \in P THEN <<s[n]>> ELSE <<>>])
      BY <2>1, <2>2
    <2>5. Subsequence(OfTheseDocs(s, docs), s, P)
      BY <1>3, <2>4
    <2> QED
      BY <1>2, <2>3, <2>5
  <1> QED
    BY <1>4, <1>5, <1>6 DEF RowsOf, InOtherDocs, InTheseDocs

\* u is s and behind it t.
Behind(u, s, t, T) ==
    /\ Once(u) /\ u \in Seq(T) /\ ToSet(u) = ToSet(s) \cup ToSet(t)
    /\ Len(u) = Len(s) + Len(t) /\ \A k \in 1..Len(s) : u[k] = s[k]

LEMMA OnceBehindOnce ==
  ASSUME NEW T, NEW s \in Seq(T), NEW t \in Seq(T), Once(s), Once(t), ToSet(s) \cap ToSet(t) = {}
  PROVE  Behind(s \o t, s, t, T)
  <1> DEFINE m == Len(s)
             n == Len(t)
             u == s \o t
  <1>1. m \in Nat /\ n \in Nat /\ DOMAIN s = 1..m /\ DOMAIN t = 1..n
    OBVIOUS
  <1>2. u \in Seq(T) /\ Len(u) = m + n /\ \A k \in 1..(m + n) : u[k] = IF k <= m THEN s[k] ELSE t[k - m]
    BY ConcatProperties
  <1>3. ToSet(u) = ToSet(s) \cup ToSet(t)
    BY ConcatSaysBoth
  <1>8. \A k \in 1..m : s[k] \in ToSet(s)
    BY <1>1 DEF ToSet
  <1>9. \A k \in 1..n : t[k] \in ToSet(t)
    BY <1>1 DEF ToSet
  <1> HIDE DEF m, n, u
  <1>4. \A k \in 1..m : u[k] = s[k]
    BY <1>1, <1>2
  <1>5. \A k \in (m + 1)..(m + n) : k - m \in 1..n /\ u[k] = t[k - m]
    BY <1>1, <1>2
  <1>6. ASSUME NEW j \in 1..(m + n), NEW k \in 1..(m + n), j # k PROVE u[j] # u[k]
    <2>1. CASE j <= m /\ k <= m
      BY <1>1, <1>4, <1>6, <2>1 DEF Once, m
    <2>2. CASE j > m /\ k > m
      <3>1. j - m \in 1..n /\ k - m \in 1..n /\ j - m # k - m /\ u[j] = t[j - m] /\ u[k] = t[k - m]
        BY <1>1, <1>5, <1>6, <2>2
      <3> QED
        BY <3>1 DEF Once, n
    <2>3. CASE j <= m /\ k > m
      <3>1. u[j] \in ToSet(s) /\ u[k] \in ToSet(t)
        BY <1>1, <1>4, <1>5, <1>8, <1>9, <2>3
      <3> QED
        BY <3>1
    <2>4. CASE j > m /\ k <= m
      <3>1. u[j] \in ToSet(t) /\ u[k] \in ToSet(s)
        BY <1>1, <1>4, <1>5, <1>8, <1>9, <2>4
      <3> QED
        BY <3>1
    <2> QED
      BY <1>1, <2>1, <2>2, <2>3, <2>4
  <1> QED
    BY <1>2, <1>3, <1>4, <1>6 DEF Behind, Once, m, n, u

\* The half that a topic keeps, or all that it has, comes first.
KeptFirst(filtered, k, reason) == IF reason = "fewer_than_k" THEN filtered ELSE FirstOf(filtered, (k + 1) \div 2)

\* What is put together starts with what is kept, and has all there is if it is short.
MergedFrom(out, keep, filtered, unfiltered, k) ==
    /\ out \in Seq(Rowids) /\ Len(out) <= k /\ Once(out) /\ ToSet(out) \subseteq ToSet(filtered) \cup ToSet(unfiltered)
    /\ \A n \in 1..Len(keep) : n <= k => n <= Len(out) /\ out[n] = keep[n]
    /\ Len(out) < k => ToSet(unfiltered) \subseteq ToSet(out)
    /\ \E new \in Seq(Rowids) :
          /\ Once(new)
          /\ ToSet(new) = {r \in ToSet(unfiltered) \ ToSet(keep) : DocOf[r] \notin {DocOf[q] : q \in ToSet(keep)}}
          /\ Len(keep) + Len(new) <= k => ToSet(new) \subseteq ToSet(out)

LEMMA Merged ==
  ASSUME NEW filtered \in Seq(Rowids), Once(filtered), NEW unfiltered \in Seq(Rowids), Once(unfiltered), NEW k \in Nat \ {0},
         NEW reason, NEW keep, keep = KeptFirst(filtered, k, reason), NEW out, out = merge_backfill(filtered, unfiltered, k, reason)
  PROVE  MergedFrom(out, keep, filtered, unfiltered, k)
  <1>0. PICK docs, fresh : docs = {DocOf[r] : r \in ToSet(keep)} /\ fresh = Without(unfiltered, ToSet(keep))
    OBVIOUS
  <1>a. PICK rest, new, old : /\ rest = Without(filtered, ToSet(keep) \cup ToSet(fresh))
                              /\ new = OfOtherDocs(fresh, docs) /\ old = OfTheseDocs(fresh, docs)
    OBVIOUS
  <1>b. PICK front, most, all : front = keep \o new /\ most = front \o old /\ all = most \o rest
    OBVIOUS
  <1>1. out = FirstOf(all, k)
    <2>1. out = FirstOf(((keep \o new) \o old) \o rest, k)
      BY <1>0, <1>a DEF merge_backfill, KeptFirst, Without, OfOtherDocs, OfTheseDocs, Filter
    <2> QED
      BY <1>b, <2>1
  <1>2. keep \in Seq(Rowids) /\ Once(keep) /\ ToSet(keep) \subseteq ToSet(filtered)
    <2>1. (k + 1) \div 2 \in Nat
      OBVIOUS
    <2> DEFINE half == (k + 1) \div 2
    <2>2. half \in Nat
      BY <2>1
    <2>3. keep = filtered \/ keep = FirstOf(filtered, half)
      BY DEF KeptFirst
    <2> HIDE DEF half
    <2> QED
      BY <2>2, <2>3, TheFirstOf DEF Begins
  <1>3. fresh \in Seq(Rowids) /\ Once(fresh) /\ ToSet(fresh) = ToSet(unfiltered) \ ToSet(keep)
    BY <1>0, WhatIsFiltered DEF RowsOf
  <1>4. rest \in Seq(Rowids) /\ Once(rest) /\ ToSet(rest) = ToSet(filtered) \ (ToSet(keep) \cup ToSet(fresh))
    BY <1>a, WhatIsFiltered DEF RowsOf
  <1>5. /\ new \in Seq(Rowids) /\ Once(new) /\ ToSet(new) = {r \in ToSet(fresh) : DocOf[r] \notin docs}
        /\ old \in Seq(Rowids) /\ Once(old) /\ ToSet(old) = {r \in ToSet(fresh) : DocOf[r] \in docs}
    <2>1. RowsOf(new, InOtherDocs(ToSet(fresh), docs)) /\ RowsOf(old, InTheseDocs(ToSet(fresh), docs))
      BY <1>3, <1>a, WhatIsFiltered
    <2> QED
      BY <2>1 DEF RowsOf, InOtherDocs, InTheseDocs
  <1>6. /\ Once(front) /\ front \in Seq(Rowids) /\ ToSet(front) = ToSet(keep) \cup ToSet(new)
        /\ Len(front) = Len(keep) + Len(new) /\ \A n \in 1..Len(keep) : front[n] = keep[n]
    <2>1. ToSet(keep) \cap ToSet(new) = {}
      BY <1>3, <1>5
    <2>2. Behind(front, keep, new, Rowids)
      BY <1>2, <1>5, <1>b, <2>1, OnceBehindOnce
    <2> QED
      BY <2>2 DEF Behind
  <1>7. /\ Once(most) /\ most \in Seq(Rowids) /\ ToSet(most) = ToSet(front) \cup ToSet(old)
        /\ Len(most) = Len(front) + Len(old) /\ \A n \in 1..Len(front) : most[n] = front[n]
    <2>1. ToSet(front) \cap ToSet(old) = {}
      BY <1>3, <1>5, <1>6
    <2>2. Behind(most, front, old, Rowids)
      BY <1>5, <1>6, <1>b, <2>1, OnceBehindOnce
    <2> QED
      BY <2>2 DEF Behind
  <1>8. /\ Once(all) /\ all \in Seq(Rowids) /\ ToSet(all) = ToSet(most) \cup ToSet(rest)
        /\ Len(all) = Len(most) + Len(rest) /\ \A n \in 1..Len(most) : all[n] = most[n]
    <2>1. ToSet(most) \cap ToSet(rest) = {}
      BY <1>3, <1>4, <1>5, <1>6, <1>7
    <2>2. Behind(all, most, rest, Rowids)
      BY <1>4, <1>7, <1>b, <2>1, OnceBehindOnce
    <2> QED
      BY <2>2 DEF Behind
  <1>9. Len(keep) \in Nat /\ Len(new) \in Nat /\ Len(old) \in Nat /\ Len(rest) \in Nat
    BY <1>2, <1>4, <1>5
  <1>10. /\ out \in Seq(Rowids) /\ Len(out) = Smaller(k, Len(all)) /\ \A n \in 1..Len(out) : out[n] = all[n]
         /\ Once(out) /\ ToSet(out) \subseteq ToSet(all)
         /\ Len(all) <= k => ToSet(out) = ToSet(all)
    <2>1. k \in Nat
      OBVIOUS
    <2>2. Begins(out, all, k, Rowids)
      BY <1>1, <1>8, <2>1, TheFirstOf
    <2> QED
      BY <2>2, <1>8 DEF Begins
  <1>11. Len(out) <= k
    BY <1>6, <1>7, <1>8, <1>9, <1>10 DEF Smaller
  <1>12. ToSet(out) \subseteq ToSet(filtered) \cup ToSet(unfiltered)
    <2>1. /\ ToSet(front) \subseteq ToSet(filtered) \cup ToSet(unfiltered)
          /\ ToSet(old) \cup ToSet(rest) \subseteq ToSet(filtered) \cup ToSet(unfiltered)
      BY <1>2, <1>3, <1>4, <1>5, <1>6
    <2>2. ToSet(out) \subseteq ToSet(front) \cup ToSet(old) \cup ToSet(rest)
      BY <1>7, <1>8, <1>10
    <2> QED
      BY <2>1, <2>2
  <1> DEFINE a == Len(keep)
             b == Len(new)
             c == Len(out)
             d == Len(all)
  <1>13. a \in Nat /\ b \in Nat /\ c \in Nat /\ d \in Nat /\ a + b <= d /\ c = IF k < d THEN k ELSE d
    BY <1>6, <1>7, <1>8, <1>9, <1>10 DEF Smaller
  <1>c. /\ \A n \in 1..Len(front) : most[n] = front[n]
        /\ \A n \in 1..Len(most) : all[n] = most[n]
    BY <1>7, <1>8
  <1> DEFINE e == Len(front)
             h == Len(most)
  <1>d. e \in Nat /\ h \in Nat /\ e = a + b /\ e <= h
    BY <1>6, <1>7, <1>9
  <1>15. DOMAIN out = 1..c /\ DOMAIN front = 1..(a + b)
    BY <1>6, <1>10
  <1>16. \A n \in 1..c : out[n] = all[n]
    BY <1>10
  <1>17. \A n \in 1..a : front[n] = keep[n]
    BY <1>6
  <1> HIDE DEF a, b, c, d, e, h
  <1>14. \A n \in 1..(a + b) : all[n] = front[n]
    <2> SUFFICES ASSUME NEW n \in 1..(a + b) PROVE all[n] = front[n]
      OBVIOUS
    <2>1. n \in 1..e /\ n \in 1..h
      BY <1>13, <1>d
    <2> QED
      BY <1>c, <2>1 DEF e, h
  <1>18. ASSUME NEW n \in 1..a, n <= k PROVE n <= c /\ out[n] = keep[n]
    <2>1. n \in 1..(a + b) /\ n \in 1..c
      BY <1>13, <1>18
    <2> QED
      BY <1>13, <1>14, <1>16, <1>17, <2>1
  <1>19. c < k => ToSet(unfiltered) \subseteq ToSet(out)
    <2>1. ToSet(unfiltered) \subseteq ToSet(all)
      BY <1>3, <1>5, <1>6, <1>7, <1>8
    <2>2. c < k => d <= k
      BY <1>13
    <2> QED
      BY <1>10, <2>1, <2>2 DEF d
  <1>20. a + b <= k => ToSet(new) \subseteq ToSet(out)
    <2> SUFFICES ASSUME a + b <= k, NEW r \in ToSet(new) PROVE r \in ToSet(out)
      OBVIOUS
    <2>1. r \in ToSet(front)
      BY <1>6
    <2>2. PICK n \in 1..(a + b) : front[n] = r
      BY <1>15, <2>1 DEF ToSet
    <2>3. n \in 1..c
      BY <1>13
    <2>4. out[n] = r
      BY <1>14, <1>16, <2>2, <2>3
    <2> QED
      BY <1>15, <2>3, <2>4 DEF ToSet
  <1>21. ToSet(new) = {r \in ToSet(unfiltered) \ ToSet(keep) : DocOf[r] \notin {DocOf[q] : q \in ToSet(keep)}}
    BY <1>0, <1>3, <1>5
  <1> QED
    BY <1>5, <1>10, <1>11, <1>12, <1>18, <1>19, <1>20, <1>21 DEF MergedFrom, a, b, c

\* What a search is given to put together, and what comes of it.
Strong(i) == {r \in Rowids : i.score[r] >= i.floor}
Own(i) == {r \in i.topic : r \in Strong(i)}
FromTopic(i) == retrieve(i, IF i.topic = {} THEN Rowids ELSE i.topic, i.k)
FromAll(i) == retrieve(i, Rowids, 2 * i.k)
WhyBackfill(i) == IF i.topic = {} THEN "none" ELSE backfill_reason_for(FromTopic(i), i.k)
Ranked(i) ==
    IF WhyBackfill(i) = "none" THEN FromTopic(i) ELSE merge_backfill(FromTopic(i), FromAll(i), i.k, WhyBackfill(i))
Best(i) ==
    {r \in Strong(i) : Cardinality({s \in Rowids : i.score[s] > i.score[r] \/ (i.score[s] = i.score[r] /\ s < r)}) < ARM_K}

LEMMA OfTheTopic ==
  ASSUME NEW i \in Queries
  PROVE  /\ i.k \in Nat \ {0} /\ FromTopic(i) \in Seq(Rowids) /\ Once(FromTopic(i)) /\ ToSet(FromTopic(i)) \subseteq Strong(i)
         /\ Len(FromTopic(i)) <= i.k
         /\ i.topic = {} /\ Len(FromTopic(i)) < i.k => Best(i) \subseteq ToSet(FromTopic(i))
         /\ i.topic # {} => /\ ToSet(FromTopic(i)) \subseteq Own(i)
                            /\ Cardinality(Own(i)) \in 0..2 /\ Len(FromTopic(i)) = Smaller(i.k, Cardinality(Own(i)))
                            /\ Cardinality(Own(i)) <= i.k => ToSet(FromTopic(i)) = Own(i)
                            /\ i.topic \subseteq Rowids /\ Cardinality(i.topic) = 2
  <1> DEFINE base == IF i.topic = {} THEN Rowids ELSE i.topic
             out == FromTopic(i)
             k == i.k
             S == KeptOf(i, base)
  <1>1. k \in Nat \ {0} /\ base \in SUBSET Rowids /\ (i.topic # {} => i.topic \in SUBSET Rowids /\ Cardinality(i.topic) = 2)
    BY DEF Queries, Pairs
  <1>2. out = retrieve(i, base, k)
    BY DEF FromTopic
  <1> HIDE DEF base, out, k
  <1>3. /\ out \in Seq(Rowids) /\ Len(out) = Smaller(k, Cardinality(S)) /\ Once(out) /\ ToSet(out) \subseteq S
        /\ Cardinality(S) <= k => ToSet(out) = S
        /\ S \subseteq {r \in base : i.score[r] >= i.floor} /\ IsFiniteSet(S)
    <2>1. k \in Nat
      BY <1>1
    <2> QED
      BY <1>1, <1>2, <2>1, KeptAreRanked
  <1> HIDE DEF S
  <1>4. Cardinality(S) \in Nat
    BY <1>3, FS_CardinalityType
  <1>5. Len(out) <= k /\ (Len(out) < k => Cardinality(S) <= k)
    BY <1>1, <1>3, <1>4 DEF Smaller
  <1>6. ToSet(out) \subseteq Strong(i)
    BY <1>1, <1>3 DEF Strong
  <1>7. ASSUME i.topic = {}, Len(out) < k PROVE Best(i) \subseteq ToSet(out)
    <2>1. S = KeptOf(i, Rowids)
      BY <1>7 DEF S, base
    <2>2. ToSet(out) = KeptOf(i, Rowids)
      BY <1>3, <1>5, <1>7, <2>1
    <2> QED
      BY <2>2, BestAreFound DEF Best, Strong
  <1>8. ASSUME i.topic # {}
        PROVE  /\ ToSet(out) \subseteq Own(i) /\ Cardinality(Own(i)) \in 0..2 /\ Len(out) = Smaller(k, Cardinality(Own(i)))
               /\ Cardinality(Own(i)) <= k => ToSet(out) = Own(i)
               /\ i.topic \subseteq Rowids /\ Cardinality(i.topic) = 2
    <2>1. base = i.topic /\ i.topic \in SUBSET Rowids /\ Cardinality(i.topic) = 2
      BY <1>1, <1>8 DEF base
    <2>2. Cardinality(i.topic) <= ARM_K
      BY <2>1 DEF ARM_K
    <2>3. KeptOf(i, i.topic) = {r \in i.topic : i.score[r] >= i.floor}
      BY <2>1, <2>2, FewAreFound
    <2>4. S = Own(i)
      BY <2>1, <2>3 DEF S, Own, Strong
    <2>5. IsFiniteSet(i.topic)
      BY <2>1, FourRows, FS_Subset
    <2>6. Own(i) \in SUBSET i.topic
      BY DEF Own
    <2>7. Cardinality(Own(i)) <= 2
      BY <2>1, <2>5, <2>6, FS_Subset
    <2> QED
      BY <1>3, <1>4, <2>1, <2>4, <2>7
  <1> QED
    BY <1>1, <1>3, <1>5, <1>6, <1>7, <1>8 DEF out, k

LEMMA OfAllRows ==
  ASSUME NEW i \in Queries
  PROVE  /\ FromAll(i) \in Seq(Rowids) /\ Once(FromAll(i)) /\ ToSet(FromAll(i)) \subseteq Strong(i)
         /\ Len(FromAll(i)) < 2 * i.k => Best(i) \subseteq ToSet(FromAll(i))
  <1> DEFINE out == FromAll(i)
             k == 2 * i.k
             S == KeptOf(i, Rowids)
  <1>1. k \in Nat
    <2>1. i.k \in Nat
      BY DEF Queries
    <2> QED
      BY <2>1
  <1>2. out = retrieve(i, Rowids, k)
    BY DEF FromAll
  <1> HIDE DEF out, k
  <1>3. /\ out \in Seq(Rowids) /\ Len(out) = Smaller(k, Cardinality(S)) /\ Once(out) /\ ToSet(out) \subseteq S
        /\ Cardinality(S) <= k => ToSet(out) = S
        /\ S \subseteq {r \in Rowids : i.score[r] >= i.floor} /\ IsFiniteSet(S)
    BY <1>1, <1>2, KeptAreRanked
  <1> HIDE DEF S
  <1>4. Cardinality(S) \in Nat
    BY <1>3, FS_CardinalityType
  <1>5. Len(out) < k => Cardinality(S) <= k
    BY <1>1, <1>3, <1>4 DEF Smaller
  <1>6. ToSet(out) \subseteq Strong(i)
    BY <1>3 DEF Strong
  <1>7. ASSUME Len(out) < k PROVE Best(i) \subseteq ToSet(out)
    <2>1. ToSet(out) = KeptOf(i, Rowids)
      BY <1>3, <1>5, <1>7 DEF S
    <2> QED
      BY <2>1, BestAreFound DEF Best, Strong
  <1> QED
    BY <1>3, <1>6, <1>7 DEF out, k

\* What a search promises of what it puts together.
Promised(i, rows) ==
    /\ Len(rows) <= i.k /\ Once(rows) /\ rows \in Seq(Rowids) /\ ToSet(rows) \subseteq Strong(i)
    /\ Len(rows) < i.k => Best(i) \subseteq ToSet(rows)
    /\ \A n \in 1..Len(rows) : (n <= Smaller(Cardinality(Own(i)), (i.k + 1) \div 2) /\ i.topic # {}) => rows[n] \in i.topic
    /\ (i.topic # {} /\ i.k > 1 /\ Len(rows) = i.k /\ \A r \in Own(i) : DocOf[r] = "d1") =>
          (4 \in ToSet(FromAll(i)) => 4 \in ToSet(rows))
    /\ ToSet(rows) \ ToSet(FromTopic(i)) # {} => ~(ToSet(rows) \subseteq i.topic) /\ i.topic # {}

LEMMA OwnAreOfTheTopic ==
  ASSUME NEW i
  PROVE  Own(i) \subseteq i.topic
  BY DEF Own

\* Of one document, so many are: of the four only the last is of another.
LEMMA OneOtherDocument == DocOf[4] = "d2" /\ \A r \in Rowids : DocOf[r] # "d1" => r = 4
  BY DEF DocOf, Rowids

\* Without a backfill.
LEMMA AsItCame ==
  ASSUME NEW i \in Queries, WhyBackfill(i) = "none"
  PROVE  Promised(i, FromTopic(i))
  <1> DEFINE rows == FromTopic(i)
             k == i.k
  <1>1. /\ k \in Nat \ {0} /\ rows \in Seq(Rowids) /\ Once(rows) /\ ToSet(rows) \subseteq Strong(i) /\ Len(rows) <= k
        /\ i.topic = {} /\ Len(rows) < k => Best(i) \subseteq ToSet(rows)
        /\ i.topic # {} => ToSet(rows) \subseteq Own(i)
    BY OfTheTopic
  <1>2. i.topic # {} => ~(Len(rows) < k) /\ Cardinality({DocOf[r] : r \in ToSet(rows)}) # 1
    BY DEF WhyBackfill, backfill_reason_for
  <1>3. Len(rows) \in Nat /\ DOMAIN rows = 1..Len(rows)
    BY <1>1
  <1> HIDE DEF rows, k
  <1>4. Len(rows) < k => Best(i) \subseteq ToSet(rows)
    BY <1>1, <1>2
  <1>5. \A n \in 1..Len(rows) : i.topic # {} => rows[n] \in i.topic
    <2>1. \A n \in 1..Len(rows) : rows[n] \in ToSet(rows)
      BY <1>3 DEF ToSet
    <2> QED
      BY <1>1, <2>1, OwnAreOfTheTopic
  <1>6. ASSUME i.topic # {}, k > 1, Len(rows) = k, \A r \in Own(i) : DocOf[r] = "d1" PROVE FALSE
    <2>1. 1 \in 1..Len(rows)
      BY <1>3, <1>6
    <2>2. rows[1] \in ToSet(rows)
      BY <1>3, <2>1 DEF ToSet
    <2>3. {DocOf[r] : r \in ToSet(rows)} = {"d1"}
      BY <1>1, <1>6, <2>2
    <2>4. Cardinality({"d1"}) = 1
      BY FS_Singleton
    <2> QED
      BY <1>2, <1>6, <2>3, <2>4
  <1> QED
    BY <1>1, <1>4, <1>5, <1>6 DEF Promised, rows, k

\* Beside two there are two.
LEMMA TheOtherTwo ==
  ASSUME NEW t, t \subseteq Rowids, Cardinality(t) = 2
  PROVE  IsFiniteSet(Rowids \ t) /\ Cardinality(Rowids \ t) = 2
  <1>1. IsFiniteSet(t)
    BY FourRows, FS_Subset
  <1>2. PICK f \in [1..2 -> t] : f \in Bijection(1..2, t)
    <2>1. ExistsBijection(1..Cardinality(t), t)
      BY <1>1, FS_CardinalityType
    <2> QED
      BY <2>1 DEF ExistsBijection, Bijection, Injection
  <1>3. PICK a, b : a = f[1] /\ b = f[2]
    OBVIOUS
  <1>4. t = {a, b} /\ a # b /\ a \in Rowids /\ b \in Rowids
    <2>1. 1 \in 1..2 /\ 2 \in 1..2 /\ 1 # 2 /\ \A n \in 1..2 : n = 1 \/ n = 2
      OBVIOUS
    <2>2. a # b
      BY <1>2, <1>3, <2>1 DEF Bijection, Injection, IsInjective
    <2>3. \A r \in t : \E n \in 1..2 : f[n] = r
      BY <1>2 DEF Bijection, Surjection
    <2>4. a \in t /\ b \in t
      BY <1>2, <1>3, <2>1
    <2> QED
      BY <1>3, <2>1, <2>2, <2>3, <2>4
  <1>5. Rowids \ t = (Rowids \ {a}) \ {b}
    BY <1>4
  <1>6. IsFiniteSet(Rowids \ {a}) /\ Cardinality(Rowids \ {a}) = 3
    BY <1>4, FourRows, FS_RemoveElement
  <1> QED
    BY <1>4, <1>5, <1>6, FS_RemoveElement

\* With one.
LEMMA WithABackfill ==
  ASSUME NEW i \in Queries, WhyBackfill(i) # "none"
  PROVE  Promised(i, Ranked(i))
  <1>1. PICK k, filtered, unfiltered, reason, rows, c :
             /\ k = i.k /\ filtered = FromTopic(i) /\ unfiltered = FromAll(i) /\ reason = WhyBackfill(i) /\ rows = Ranked(i)
             /\ c = Cardinality(Own(i))
    OBVIOUS
  <1>2. PICK keep : keep = KeptFirst(filtered, k, reason)
    OBVIOUS
  <1>3. i.topic # {} /\ reason = backfill_reason_for(filtered, k) /\ rows = merge_backfill(filtered, unfiltered, k, reason)
    BY <1>1 DEF WhyBackfill, Ranked
  <1>4. /\ k \in Nat \ {0} /\ filtered \in Seq(Rowids) /\ Once(filtered) /\ ToSet(filtered) \subseteq Strong(i)
        /\ ToSet(filtered) \subseteq Own(i) /\ c \in 0..2 /\ Len(filtered) = Smaller(k, c)
        /\ c <= k => ToSet(filtered) = Own(i)
        /\ i.topic \subseteq Rowids /\ Cardinality(i.topic) = 2
    BY <1>1, <1>3, OfTheTopic
  <1>5. /\ unfiltered \in Seq(Rowids) /\ Once(unfiltered) /\ ToSet(unfiltered) \subseteq Strong(i)
        /\ Len(unfiltered) < 2 * k => Best(i) \subseteq ToSet(unfiltered)
    BY <1>1, OfAllRows
  <1>6. /\ rows \in Seq(Rowids) /\ Len(rows) <= k /\ Once(rows) /\ ToSet(rows) \subseteq ToSet(filtered) \cup ToSet(unfiltered)
        /\ \A n \in 1..Len(keep) : n <= k => n <= Len(rows) /\ rows[n] = keep[n]
        /\ Len(rows) < k => ToSet(unfiltered) \subseteq ToSet(rows)
        /\ \E new \in Seq(Rowids) :
              /\ Once(new)
              /\ ToSet(new) = {r \in ToSet(unfiltered) \ ToSet(keep) : DocOf[r] \notin {DocOf[q] : q \in ToSet(keep)}}
              /\ Len(keep) + Len(new) <= k => ToSet(new) \subseteq ToSet(rows)
    <2>1. MergedFrom(rows, keep, filtered, unfiltered, k)
      BY <1>2, <1>3, <1>4, <1>5, Merged
    <2> QED
      BY <2>1 DEF MergedFrom
  <1>7. ToSet(rows) \subseteq Strong(i)
    BY <1>4, <1>5, <1>6
  \* How many are kept.
  <1>8. PICK half : half = (k + 1) \div 2
    OBVIOUS
  <1>9. half \in Nat /\ half \in 1..k /\ (k > 1 => half < k)
    BY <1>4, <1>8
  <1>10. /\ keep \in Seq(Rowids) /\ Once(keep) /\ ToSet(keep) \subseteq ToSet(filtered)
         /\ Len(keep) = IF reason = "fewer_than_k" THEN Smaller(k, c) ELSE Smaller(half, Smaller(k, c))
    <2>1. keep = IF reason = "fewer_than_k" THEN filtered ELSE FirstOf(filtered, half)
      BY <1>2, <1>8 DEF KeptFirst
    <2>2. Begins(FirstOf(filtered, half), filtered, half, Rowids)
      BY <1>4, <1>9, TheFirstOf
    <2> QED
      BY <1>4, <2>1, <2>2 DEF Begins
  <1>11. (reason = "fewer_than_k") <=> Smaller(k, c) < k
    BY <1>3, <1>4 DEF backfill_reason_for
  <1>12. /\ Len(keep) \in Nat /\ Smaller(c, half) <= Len(keep) /\ Len(keep) <= c
         /\ k > 1 => Len(keep) < k
    <2>1. PICK a, few : a = Len(keep) /\ few = (reason = "fewer_than_k")
      OBVIOUS
    <2>2. /\ a = IF few THEN Smaller(k, c) ELSE Smaller(half, Smaller(k, c))
          /\ few <=> Smaller(k, c) < k
      BY <1>10, <1>11, <2>1
    <2>3. c \in Nat /\ k \in Nat /\ half \in Nat /\ half <= k /\ half >= 1 /\ (k > 1 => half < k)
      BY <1>4, <1>9
    <2>4. a \in Nat /\ Smaller(c, half) <= a /\ a <= c /\ (k > 1 => a < k)
      <3>1. CASE few
        BY <2>2, <2>3, <3>1 DEF Smaller
      <3>2. CASE ~few
        BY <2>2, <2>3, <3>2 DEF Smaller
      <3> QED
        BY <3>1, <3>2
    <2> QED
      BY <2>1, <2>4
  <1>13. \A n \in 1..Len(keep) : keep[n] \in Own(i) /\ keep[n] \in ToSet(keep)
    <2>1. \A n \in 1..Len(keep) : keep[n] \in ToSet(keep)
      BY <1>10 DEF ToSet
    <2> QED
      BY <1>4, <1>10, <2>1
  <1>14. DOMAIN rows = 1..Len(rows) /\ Len(rows) \in Nat
    BY <1>6
  <1>15. ASSUME Len(rows) < k PROVE Best(i) \subseteq ToSet(rows)
    <2>1. IsFiniteSet(ToSet(rows)) /\ Cardinality(ToSet(rows)) = Len(rows) /\ Cardinality(ToSet(unfiltered)) = Len(unfiltered)
      BY <1>5, <1>6, OnceIsCounted
    <2>2. ToSet(unfiltered) \subseteq ToSet(rows)
      BY <1>6, <1>15
    <2>3. Len(unfiltered) <= Len(rows)
      BY <2>1, <2>2, FS_Subset
    <2>4. Len(unfiltered) \in Nat
      BY <1>5
    <2>5. Len(unfiltered) < 2 * k
      BY <1>4, <1>14, <1>15, <2>3, <2>4
    <2> QED
      BY <1>5, <2>2, <2>5
  <1>16. ASSUME NEW n \in 1..Len(rows), n <= Smaller(c, half) PROVE rows[n] \in i.topic
    <2>1. n \in 1..Len(keep)
      <3> DEFINE a == Len(keep)
                 b == Len(rows)
                 d == Smaller(c, half)
      <3>1. d <= a /\ a \in Nat /\ d \in Nat /\ n \in 1..b /\ b \in Nat /\ n <= d
        BY <1>4, <1>9, <1>12, <1>14, <1>16 DEF Smaller
      <3> HIDE DEF a, b, d
      <3>2. n \in 1..a
        BY <3>1
      <3> QED
        BY <3>2 DEF a
    <2>2. n <= k
      BY <1>4, <1>6, <1>14
    <2>3. rows[n] = keep[n] /\ keep[n] \in Own(i)
      BY <1>6, <1>13, <2>1, <2>2
    <2> QED
      BY <2>3, OwnAreOfTheTopic
  <1>17. ASSUME k > 1, \A r \in Own(i) : DocOf[r] = "d1", 4 \in ToSet(unfiltered) PROVE 4 \in ToSet(rows)
    <2>1. PICK new \in Seq(Rowids) :
               /\ Once(new)
               /\ ToSet(new) = {r \in ToSet(unfiltered) \ ToSet(keep) : DocOf[r] \notin {DocOf[q] : q \in ToSet(keep)}}
               /\ Len(keep) + Len(new) <= k => ToSet(new) \subseteq ToSet(rows)
      BY <1>6
    <2>2. \A r \in ToSet(keep) : DocOf[r] = "d1"
      BY <1>4, <1>10, <1>17
    <2>3. 4 \in ToSet(new)
      <3>1. DocOf[4] \notin {DocOf[q] : q \in ToSet(keep)} /\ 4 \notin ToSet(keep)
        BY <2>2, OneOtherDocument
      <3> QED
        BY <1>17, <2>1, <3>1
    <2>4. Len(new) \in Nat /\ IsFiniteSet(ToSet(new)) /\ Cardinality(ToSet(new)) = Len(new)
      <3>1. Len(new) \in Nat
        OBVIOUS
      <3>2. IsFiniteSet(ToSet(new)) /\ Cardinality(ToSet(new)) = Len(new)
        BY <2>1, OnceIsCounted
      <3> QED
        BY <3>1, <3>2
    <2>5. Len(keep) + Len(new) <= k
      <3>1. CASE Len(keep) = 0
        <4>1. Own(i) = {}
          <5>1. c = 0
            BY <1>4, <1>9, <1>12, <3>1 DEF Smaller
          <5>2. IsFiniteSet(Own(i))
            <6>1. Own(i) \in SUBSET Rowids
              BY <1>4, OwnAreOfTheTopic
            <6> QED
              BY <6>1, FourRows, FS_Subset
          <5> QED
            BY <1>1, <5>1, <5>2, FS_EmptySet
        <4>2. ToSet(new) \in SUBSET (Rowids \ i.topic)
          <5>1. ToSet(new) \subseteq Strong(i)
            BY <1>5, <2>1
          <5>2. Strong(i) \subseteq Rowids \ i.topic
            BY <4>1 DEF Own, Strong
          <5> QED
            BY <5>1, <5>2
        <4>3. IsFiniteSet(Rowids \ i.topic) /\ Cardinality(Rowids \ i.topic) = 2
          BY <1>4, TheOtherTwo
        <4>4. Cardinality(ToSet(new)) <= 2
          BY <4>2, <4>3, FS_Subset
        <4> QED
          BY <1>4, <1>17, <2>4, <3>1, <4>4
      <3>2. CASE Len(keep) # 0
        <4>1. 1 \in 1..Len(keep)
          BY <1>12, <3>2
        <4>2. keep[1] \in ToSet(keep) /\ DocOf[keep[1]] = "d1"
          BY <1>13, <2>2, <4>1
        <4>3. ToSet(new) \in SUBSET {4}
          <5>1. ToSet(new) \subseteq Rowids
            BY <1>5, <2>1 DEF Strong
          <5>2. \A r \in ToSet(new) : DocOf[r] # "d1"
            BY <2>1, <4>2
          <5> QED
            BY <5>1, <5>2, OneOtherDocument
        <4>4. Cardinality(ToSet(new)) <= 1
          <5>1. IsFiniteSet({4}) /\ Cardinality({4}) = 1
            BY FS_Singleton
          <5> QED
            BY <4>3, <5>1, FS_Subset
        <4> QED
          BY <1>4, <1>12, <1>17, <2>4, <4>4
      <3> QED
        BY <3>1, <3>2
    <2> QED
      BY <2>1, <2>3, <2>5
  <1>18. ASSUME ToSet(rows) \ ToSet(filtered) # {}, ToSet(rows) \subseteq i.topic PROVE FALSE
    <2>1. ToSet(rows) \subseteq Own(i)
      BY <1>7, <1>18 DEF Own
    <2>2. ~(c <= k)
      BY <1>4, <1>18, <2>1
    <2>3. k = 1 /\ c = 2
      BY <1>4, <2>2
    <2>4. Len(keep) = 1 /\ Len(rows) = 1
      <3>1. half = 1
        BY <1>9, <2>3
      <3>2. Len(keep) = 1
        BY <1>10, <2>3, <3>1 DEF Smaller
      <3>3. 1 \in 1..Len(keep)
        BY <3>2
      <3>4. 1 <= Len(rows)
        BY <1>6, <2>3, <3>3
      <3> QED
        BY <1>6, <1>14, <2>3, <3>2, <3>4
    <2>5. rows[1] = keep[1]
      BY <1>6, <2>3, <2>4
    <2>6. rows[1] \in ToSet(filtered)
      BY <1>10, <1>13, <2>4, <2>5
    <2>7. \A r \in ToSet(rows) : r = rows[1]
      BY <1>14, <2>4 DEF ToSet
    <2> QED
      BY <1>18, <2>6, <2>7
  <1> QED
    BY <1>1, <1>3, <1>6, <1>7, <1>8, <1>15, <1>16, <1>17, <1>18 DEF Promised

(***************************************************************************)
(* A search gives k passages whenever so many are above the floor and      *)
(* reached by an arm, each once and none below it; a topic's own passages  *)
(* come first, at least half of what was asked for; a topic that has but   *)
(* one document does not hide another above the floor; and a quarantined   *)
(* passage has no text: whatever the scores, the words, the floor and the  *)
(* number asked for (retrieve, merge_backfill, _search).                   *)
(***************************************************************************)
THEOREM SearchesKeepTheirPromises == \A i \in Queries : SearchKeepsItsPromises(i)
  <1> SUFFICES ASSUME NEW i \in Queries PROVE SearchKeepsItsPromises(i)
    OBVIOUS
  <1>1. PICK ranked, out : ranked = Ranked(i) /\ out = _search(i)
    OBVIOUS
  <1>2. Promised(i, ranked)
    BY <1>1, AsItCame, WithABackfill DEF Ranked
  <1>3. /\ out.hits = [n \in DOMAIN ranked |-> _hit(i, ranked[n])]
        /\ out.backfilled = (ToSet(ranked) \ ToSet(FromTopic(i)) # {})
    BY <1>1 DEF _search, Ranked, WhyBackfill, FromTopic, FromAll
  <1>4. PICK rows : rows = [n \in DOMAIN out.hits |-> out.hits[n].row]
    OBVIOUS
  <1>5. ranked \in Seq(Rowids) /\ DOMAIN ranked = 1..Len(ranked) /\ Len(ranked) \in Nat
    BY <1>2 DEF Promised
  <1>6. rows = ranked
    <2>1. DOMAIN out.hits = DOMAIN ranked /\ \A n \in DOMAIN ranked : out.hits[n].row = ranked[n]
      BY <1>3 DEF _hit
    <2>2. rows = [n \in DOMAIN ranked |-> ranked[n]]
      BY <1>4, <2>1
    <2> QED
      BY <1>5, <2>2
  <1>7. Cardinality(ToSet(ranked)) = Len(ranked)
    BY <1>2, <1>5, OnceIsCounted DEF Promised
  <1>8. \A h \in ToSet(out.hits) : h.text = (h.row \notin i.injected)
    <2>1. \A n \in DOMAIN ranked : _hit(i, ranked[n]).text = (_hit(i, ranked[n]).row \notin i.injected)
      BY DEF _hit
    <2> QED
      BY <1>3, <2>1 DEF ToSet
  <1>9. SearchKeepsItsPromises(i) <=>
          /\ Len(rows) <= i.k /\ Cardinality(ToSet(rows)) = Len(rows) /\ ToSet(rows) \subseteq Strong(i)
          /\ Len(rows) < i.k => Best(i) \subseteq ToSet(rows)
          /\ \A n \in DOMAIN rows : (n <= Smaller(Cardinality(Own(i)), (i.k + 1) \div 2) /\ i.topic # {}) => rows[n] \in i.topic
          /\ (i.topic # {} /\ i.k > 1 /\ Len(rows) = i.k /\ \A r \in Own(i) : DocOf[r] = "d1") =>
                (4 \in ToSet(FromAll(i)) => 4 \in ToSet(rows))
          /\ out.backfilled => ~(ToSet(rows) \subseteq i.topic) /\ i.topic # {}
          /\ \A h \in ToSet(out.hits) : h.text = (h.row \notin i.injected)
    BY <1>1, <1>4 DEF SearchKeepsItsPromises, FoundAsPromised, Strong, Own, Best, FromAll
  <1> QED
    BY <1>2, <1>3, <1>5, <1>6, <1>7, <1>8, <1>9 DEF Promised

-----------------------------------------------------------------------------
(* Putting a question that is not one of these four says nothing of them.  *)
Verdicts == {"rules", "dates", "approver", "profile"}

LEMMA OtherQuestions ==
  ASSUME NEW part, NEW inputs, Put(part, inputs), part \notin Verdicts
  PROVE  VerdictsAreEarned'
  BY DEF Put, VerdictsAreEarned, Is, Verdicts

LEMMA TheFourQuestions ==
  ASSUME ScoreRequest \/ CountDays \/ ResolveApprover \/ LookUpProfile
  PROVE  VerdictsAreEarned'
  <1>1. CASE ScoreRequest
    <2>1. PICK i \in RuleInputs : input' = <<"rules", i>>
      BY <1>1 DEF ScoreRequest, Put
    <2>2. VerdictIsEarned(i)
      BY VerdictsEarned
    <2> QED
      BY <2>1, <2>2 DEF VerdictsAreEarned, Is
  <1>2. CASE CountDays
    <2>1. PICK i \in DateInputs : input' = <<"dates", i>>
      BY <1>2 DEF CountDays, Put
    <2>2. SpansAgree(i)
      BY SpansOfAQuestionAgree
    <2> QED
      BY <2>1, <2>2 DEF VerdictsAreEarned, Is
  <1>3. CASE ResolveApprover
    <2>1. PICK i \in ApproverInputs : input' = <<"approver", i>>
      BY <1>3 DEF ResolveApprover, Put
    <2>2. NobodyApprovesThemselves(i)
      BY NobodyApprovesTheirOwn
    <2> QED
      BY <2>1, <2>2 DEF VerdictsAreEarned, Is
  <1>4. CASE LookUpProfile
    <2>1. PICK i \in ProfileInputs : input' = <<"profile", i>>
      BY <1>4 DEF LookUpProfile, Put
    <2>2. OneManagerPerPerson(i)
      BY OneManager
    <2> QED
      BY <2>1, <2>2 DEF VerdictsAreEarned, Is
  <1> QED
    BY <1>1, <1>2, <1>3, <1>4

(***************************************************************************)
(* A request is permitted or refused only for what the requirements that   *)
(* bind it say of the facts that were given, its days are counted alike by *)
(* every rule, nobody approves what is their own, and a profile names the  *)
(* manager that an approval would (rules.evaluate, span_end,               *)
(* approvers.resolve, lookup_employee_profile).                            *)
(***************************************************************************)
THEOREM EveryVerdictIsEarned == AnswersSpec => []VerdictsAreEarned
  <1>1. AnswersInit => VerdictsAreEarned
    <2>1. ASSUME AnswersInit PROVE input[1] = "not put"
      BY <2>1 DEF AnswersInit, NotPut
    <2> QED
      BY <2>1 DEF VerdictsAreEarned, Is
  <1>2. VerdictsAreEarned /\ [AnswersNext]_answersVars => VerdictsAreEarned'
    <2> SUFFICES ASSUME VerdictsAreEarned, [AnswersNext]_answersVars PROVE VerdictsAreEarned'
      OBVIOUS
    <2>1. CASE UNCHANGED answersVars
      BY <2>1 DEF answersVars, VerdictsAreEarned, Is
    <2>2. CASE ScoreRequest \/ CountDays \/ ResolveApprover \/ LookUpProfile
      BY <2>2, TheFourQuestions
    <2>3. CASE StateVerdict \/ AccountForWrite \/ DropRepeats \/ CheckCitations \/ CheckEvidence \/ GatherEvidence \/ CheckWorking \/ CountToDeadline
      BY <2>3, OtherQuestions
      DEF Verdicts, StateVerdict, AccountForWrite, DropRepeats, CheckCitations, CheckEvidence, GatherEvidence, CheckWorking, CountToDeadline
    <2>4. CASE RewordSnapshot \/ NameApprovers \/ KeepSteps \/ ServeAnswer \/ Redact \/ ShowTurn \/ Visit \/ CountSpans
      BY <2>4, OtherQuestions
      DEF Verdicts, RewordSnapshot, NameApprovers, KeepSteps, ServeAnswer, Redact, ShowTurn, Visit, CountSpans
    <2>5. CASE RouteMessage \/ FollowUp \/ AskBack \/ OweTools \/ ScanStream \/ ParseDocument \/ ChunkDocument \/ Search
               \/ ReadSection \/ Write \/ BuildIndex
      BY <2>5, OtherQuestions
      DEF Verdicts, RouteMessage, FollowUp, AskBack, OweTools, ScanStream, ParseDocument, ChunkDocument, Search,
          ReadSection, Write, BuildIndex
    <2>6. CASE AuditTurn \/ ScoreItem \/ AskJudge \/ Judge \/ Drive \/ ProbeCold \/ Assemble \/ PublishRun
               \/ Ablate \/ ProvisionRender \/ ProvisionTurso \/ ListPages \/ CountToolCalls \/ CountModelCalls \/ ShowRun \/ CompareVariants
      BY <2>6, OtherQuestions
      DEF Verdicts, AuditTurn, ScoreItem, AskJudge, Judge, Drive, ProbeCold, Assemble, PublishRun,
          Ablate, ProvisionRender, ProvisionTurso, ListPages, CountToolCalls, CountModelCalls, ShowRun, CompareVariants
    <2> QED
      BY <2>1, <2>2, <2>3, <2>4, <2>5, <2>6 DEF AnswersNext
  <1> QED
    BY <1>1, <1>2, PTL DEF AnswersSpec

-----------------------------------------------------------------------------
(* What an answer may say.                                                 *)
Backings == {"compliance", "outcome", "dedupe", "citations", "g1", "gather", "balance", "deadline",
             "snapshot", "approval", "steps", "serve", "redact", "reload", "visit", "counts"}

\* Putting a question that is not one of these sixteen says nothing of them.
LEMMA OtherParts ==
  ASSUME NEW part, NEW inputs, Put(part, inputs), part \notin Backings
  PROVE  AnswersAreBacked'
  BY DEF Put, AnswersAreBacked, Is, Backings

\* What an answer says of its verdict, of its write and of itself.
LEMMA WhatIsSaid ==
  ASSUME StateVerdict \/ AccountForWrite \/ DropRepeats
  PROVE  AnswersAreBacked'
  <1>1. CASE StateVerdict
    <2>1. PICK i \in ComplianceInputs : input' = <<"compliance", i>>
      BY <1>1 DEF StateVerdict, Put
    <2>2. AnswerKeepsTheVerdict(i)
      BY AskedOfVerdicts
    <2> QED
      BY <2>1, <2>2 DEF AnswersAreBacked, Is
  <1>2. CASE AccountForWrite
    <2>1. PICK i \in OutcomeInputs : input' = <<"outcome", i>>
      BY <1>2 DEF AccountForWrite, Put
    <2>2. OneAccountOfTheWrite(i)
      BY AskedOfWrites
    <2> QED
      BY <2>1, <2>2 DEF AnswersAreBacked, Is
  <1>3. CASE DropRepeats
    <2>1. PICK i \in DedupeInputs : input' = <<"dedupe", i>>
      BY <1>3 DEF DropRepeats, Put
    <2>2. SaidOnceAndCited(i)
      BY AskedToDrop
    <2> QED
      BY <2>1, <2>2 DEF AnswersAreBacked, Is
  <1> QED
    BY <1>1, <1>2, <1>3

\* What it cites, and what it was gathered from.
LEMMA WhatIsCited ==
  ASSUME CheckCitations \/ CheckEvidence \/ GatherEvidence
  PROVE  AnswersAreBacked'
  <1>1. CASE CheckCitations
    <2>1. PICK i \in CitationInputs : input' = <<"citations", i>>
      BY <1>1 DEF CheckCitations, Put
    <2>2. CitationsAreSound(i)
      BY AskedToCite
    <2> QED
      BY <2>1, <2>2 DEF AnswersAreBacked, Is
  <1>2. CASE CheckEvidence
    <2>1. PICK i \in G1Inputs : input' = <<"g1", i>>
      BY <1>2 DEF CheckEvidence, Put
    <2>2. EvidenceGate(i)
      BY AskedToPass
    <2> QED
      BY <2>1, <2>2 DEF AnswersAreBacked, Is
  <1>3. CASE GatherEvidence
    <2>1. PICK i \in GatherInputs : input' = <<"gather", i>>
      BY <1>3 DEF GatherEvidence, Put
    <2>2. EvidenceComesBack(i)
      BY AskedToGather
    <2> QED
      BY <2>1, <2>2 DEF AnswersAreBacked, Is
  <1> QED
    BY <1>1, <1>2, <1>3

\* The balances, the dates and the tenures in it.
LEMMA WhatIsCounted ==
  ASSUME CheckWorking \/ CountToDeadline \/ RewordSnapshot
  PROVE  AnswersAreBacked'
  <1>1. CASE CheckWorking
    <2>1. PICK i \in BalanceInputs : input' = <<"balance", i>>
      BY <1>1 DEF CheckWorking, Put
    <2>2. WorkingsAreTheRecords(i)
      BY AskedForWorking
    <2> QED
      BY <2>1, <2>2 DEF AnswersAreBacked, Is
  <1>2. CASE CountToDeadline
    <2>1. PICK i \in DeadlineInputs : input' = <<"deadline", i>>
      BY <1>2 DEF CountToDeadline, Put
    <2>2. DeadlinesAreCounted(i)
      BY AskedForDay
    <2> QED
      BY <2>1, <2>2 DEF AnswersAreBacked, Is
  <1>3. CASE RewordSnapshot
    <2>1. PICK i \in SnapshotInputs : input' = <<"snapshot", i>>
      BY <1>3 DEF RewordSnapshot, Put
    <2>2. OnlyTheSnapshotIsReworded(i)
      BY AskedToReword
    <2> QED
      BY <2>1, <2>2 DEF AnswersAreBacked, Is
  <1> QED
    BY <1>1, <1>2, <1>3

\* Whom it names, what it keeps and what it hides.
LEMMA WhatIsKeptOrHidden ==
  ASSUME NameApprovers \/ KeepSteps \/ ServeAnswer \/ Redact
  PROVE  AnswersAreBacked'
  <1>1. CASE NameApprovers
    <2>1. PICK i \in ApprovalInputs : input' = <<"approval", i>>
      BY <1>1 DEF NameApprovers, Put
    <2>2. ApproversAreNamed(i)
      BY AskedToName
    <2> QED
      BY <2>1, <2>2 DEF AnswersAreBacked, Is
  <1>2. CASE KeepSteps
    <2>1. PICK i \in StepInputs : input' = <<"steps", i>>
      BY <1>2 DEF KeepSteps, Put
    <2>2. StepsStandOnTheAnswer(i)
      BY AskedToKeep
    <2> QED
      BY <2>1, <2>2 DEF AnswersAreBacked, Is
  <1>3. CASE ServeAnswer
    <2>1. PICK i \in ServeInputs : input' = <<"serve", i>>
      BY <1>3 DEF ServeAnswer, Put
    <2>2. NothingDoneIsHidden(i)
      BY AskedToServe
    <2> QED
      BY <2>1, <2>2 DEF AnswersAreBacked, Is
  <1>4. CASE Redact
    <2>1. PICK i \in RedactInputs : input' = <<"redact", i>>
      BY <1>4 DEF Redact, Put
    <2>2. NoSecretIsShown(i)
      BY AskedToRedact
    <2> QED
      BY <2>1, <2>2 DEF AnswersAreBacked, Is
  <1> QED
    BY <1>1, <1>2, <1>3, <1>4

\* The page it is shown on.
LEMMA WhatIsShown ==
  ASSUME ShowTurn \/ Visit \/ CountSpans
  PROVE  AnswersAreBacked'
  <1>1. CASE ShowTurn
    <2>1. PICK i \in AnswerInputs : input' = <<"reload", i>>
      BY <1>1 DEF ShowTurn, Put
    <2>2. ReloadShowsTheTurn(i)
      BY AskedToShow
    <2> QED
      BY <2>1, <2>2 DEF AnswersAreBacked, Is
  <1>2. CASE Visit
    <2>1. PICK i \in VisitInputs : input' = <<"visit", i>>
      BY <1>2 DEF Visit, Put
    <2>2. OnlyOnesOwn(i)
      BY AskedToVisit
    <2> QED
      BY <2>1, <2>2 DEF AnswersAreBacked, Is
  <1>3. CASE CountSpans
    <2>1. PICK i \in SpanInputs : input' = <<"counts", i>>
      BY <1>3 DEF CountSpans, Put
    <2>2. PagesCountAlike(i)
      BY AskedToCount
    <2> QED
      BY <2>1, <2>2 DEF AnswersAreBacked, Is
  <1> QED
    BY <1>1, <1>2, <1>3

(***************************************************************************)
(* An answer says of a verdict no more and no less than the engine did,    *)
(* gives one account of the write it is about, cites passages the index    *)
(* knows, none of them quarantined or altered in this turn, and keeps      *)
(* every citation it merges, does its sums and its dates as the records    *)
(* have them, names approvers that were resolved, shows no secret, and     *)
(* reads the same when its page is loaded again (outcome, G1 to G6,        *)
(* arithmetic, dates, snapshot, capability, entailment, _served,           *)
(* _rehydrate).                                                            *)
(***************************************************************************)
THEOREM EveryAnswerIsBacked == AnswersSpec => []AnswersAreBacked
  <1>1. AnswersInit => AnswersAreBacked
    <2>1. ASSUME AnswersInit PROVE input[1] = "not put"
      BY <2>1 DEF AnswersInit, NotPut
    <2> QED
      BY <2>1 DEF AnswersAreBacked, Is
  <1>2. AnswersAreBacked /\ [AnswersNext]_answersVars => AnswersAreBacked'
    <2> SUFFICES ASSUME AnswersAreBacked, [AnswersNext]_answersVars PROVE AnswersAreBacked'
      OBVIOUS
    <2>1. CASE UNCHANGED answersVars
      BY <2>1 DEF answersVars, AnswersAreBacked, Is
    <2>2. CASE ScoreRequest \/ CountDays \/ ResolveApprover \/ LookUpProfile
      BY <2>2, OtherParts DEF Backings, ScoreRequest, CountDays, ResolveApprover, LookUpProfile
    <2>3. CASE StateVerdict \/ AccountForWrite \/ DropRepeats
      BY <2>3, WhatIsSaid
    <2>4. CASE CheckCitations \/ CheckEvidence \/ GatherEvidence
      BY <2>4, WhatIsCited
    <2>5. CASE CheckWorking \/ CountToDeadline \/ RewordSnapshot
      BY <2>5, WhatIsCounted
    <2>6. CASE NameApprovers \/ KeepSteps \/ ServeAnswer \/ Redact
      BY <2>6, WhatIsKeptOrHidden
    <2>7. CASE ShowTurn \/ Visit \/ CountSpans
      BY <2>7, WhatIsShown
    <2>8. CASE RouteMessage \/ FollowUp \/ AskBack \/ OweTools \/ ScanStream \/ ParseDocument \/ ChunkDocument \/ Search
               \/ ReadSection \/ Write \/ BuildIndex
      BY <2>8, OtherParts
      DEF Backings, RouteMessage, FollowUp, AskBack, OweTools, ScanStream, ParseDocument, ChunkDocument, Search,
          ReadSection, Write, BuildIndex
    <2>9. CASE AuditTurn \/ ScoreItem \/ AskJudge \/ Judge \/ Drive \/ ProbeCold \/ Assemble \/ PublishRun
               \/ Ablate \/ ProvisionRender \/ ProvisionTurso \/ ListPages \/ CountToolCalls \/ CountModelCalls \/ ShowRun \/ CompareVariants
      BY <2>9, OtherParts
      DEF Backings, AuditTurn, ScoreItem, AskJudge, Judge, Drive, ProbeCold, Assemble, PublishRun,
          Ablate, ProvisionRender, ProvisionTurso, ListPages, CountToolCalls, CountModelCalls, ShowRun, CompareVariants
    <2> QED
      BY <2>1, <2>2, <2>3, <2>4, <2>5, <2>6, <2>7, <2>8, <2>9 DEF AnswersNext
  <1> QED
    BY <1>1, <1>2, PTL DEF AnswersSpec

-----------------------------------------------------------------------------
(* What an answer is made from.                                            *)
LEMMA AskedToRoute ==
  ASSUME NEW i \in RouteInputs
  PROVE  RoutesAreSafe(i)
  <1> DEFINE T == {"search", "unknown", "ticket"}
  <1>1. i \in Routes(T)
    BY DEF RouteInputs, Routes, Catalog
  <1> HIDE DEF T
  <1> QED
    BY <1>1, RoutesSafe

LEMMA AskedToFollowUp ==
  ASSUME NEW i \in SessionInputs
  PROVE  FollowUpsKeepTheirSubject(i)
  <1> DEFINE W == {"pto", "none"}
             S == TurnsOf(SlotKeys, SlotValues, W)
             turns == i.turns
             call == i.call
             workflow == i.workflow
  <1>1. Partial({"start_date", "days"}) \subseteq SlotsOf(SlotKeys, SlotValues)
    BY DEF Partial, SlotsOf, SlotKeys
  <1>2. {[start_date |-> 1, days |-> 2], [start_date |-> 2, end_date |-> 2], [x \in {} |-> 1]} \subseteq SlotsOf(SlotKeys, SlotValues)
    <2> DEFINE a == [start_date |-> 1, days |-> 2]
               b == [start_date |-> 2, end_date |-> 2]
               c == [x \in {} |-> 1]
    <2>1. /\ a \in [{"start_date", "days"} -> SlotValues] /\ b \in [{"start_date", "end_date"} -> SlotValues]
          /\ c \in [{} -> SlotValues]
      BY DEF SlotValues
    <2>2. /\ {"start_date", "days"} \in SUBSET SlotKeys /\ {"start_date", "end_date"} \in SUBSET SlotKeys
          /\ {} \in SUBSET SlotKeys
      BY DEF SlotKeys
    <2> HIDE DEF a, b, c
    <2>3. a \in SlotsOf(SlotKeys, SlotValues)
      BY <2>1, <2>2 DEF SlotsOf
    <2>4. b \in SlotsOf(SlotKeys, SlotValues)
      BY <2>1, <2>2 DEF SlotsOf
    <2>5. c \in SlotsOf(SlotKeys, SlotValues)
      BY <2>1, <2>2 DEF SlotsOf
    <2> QED
      BY <2>3, <2>4, <2>5 DEF a, b, c
  <1>3. SessionTurns \subseteq S
    BY <1>1, <1>2 DEF SessionTurns, TurnsOf
  <1>4. \A a, b \in S : <<a, b>> \in Seq(S) /\ <<a, b, b, b>> \in Seq(S)
    <2> HIDE DEF S
    <2> QED
      OBVIOUS
  <1>5. turns \in Seq(S)
    <2>1. turns \in {<<a, b>> : a, b \in SessionTurns} \cup {<<a, b, b, b>> : a, b \in SessionTurns}
      BY DEF SessionInputs
    <2>2. \E a, b \in SessionTurns : turns = <<a, b>> \/ turns = <<a, b, b, b>>
      <3> HIDE DEF turns
      <3> QED
        BY <2>1
    <2> HIDE DEF S, turns
    <2> QED
      BY <1>3, <1>4, <2>2
  <1>6. call \in [tool : {"compliance", "balance"}, parameters : SlotsOf(SlotKeys, SlotValues)]
    <2>1. CallSlots \subseteq SlotsOf(SlotKeys, SlotValues)
      BY DEF CallSlots, SlotsOf, SlotKeys, SlotValues
    <2> QED
      BY <2>1 DEF SessionInputs
  <1>7. i = [turns |-> turns, call |-> call, workflow |-> workflow]
    BY DEF SessionInputs
  <1> HIDE DEF turns, call, workflow
  <1> QED
    BY <1>5, <1>6, <1>7, SubjectIsKept

LEMMA AskedToClarify ==
  ASSUME NEW i \in ClarifyInputs
  PROVE  AsksForWhatIsMissing(i)
  <1> DEFINE K == {"start_date", "days", "amount", "country"}
  <1>1. i \in Unclear(K) /\ "identity" \notin K
    BY DEF ClarifyInputs, Unclear
  <1> HIDE DEF K
  <1> QED
    BY <1>1, MissingIsAskedFor

LEMMA AskedForDebts ==
  ASSUME NEW i \in DebtInputs
  PROVE  DebtsAreWhatCompletes(i)
  <1>1. i.workflow \in Workflows
    BY DEF DebtInputs
  <1> QED
    BY <1>1, DebtsComplete

\* A function of the first numbers is a list.
LEMMA AList ==
  ASSUME NEW T, NEW n \in Nat, NEW f \in [1..n -> T]
  PROVE  f \in Seq(T)
  OBVIOUS

LEMMA AskedToScan ==
  ASSUME NEW i \in ScanInputs
  PROVE  StreamIsTheAnswer(i)
  <1>1. i \in [text : Seq(Chars), cut : Nat]
    <2>1. i.text \in [1..5 -> Chars] /\ i.cut \in Nat /\ i = [text |-> i.text, cut |-> i.cut]
      BY DEF ScanInputs
    <2>2. i.text \in Seq(Chars)
      <3>1. 5 \in Nat
        OBVIOUS
      <3> QED
        BY <2>1, <3>1, AList
    <2> QED
      BY <2>1, <2>2
  <1> QED
    BY <1>1, StreamIsWhole

LEMMA AskedToParse ==
  ASSUME NEW i \in ParseInputs
  PROVE  BlocksAreUnderTheirHeadings(i)
  <1>1. i \in Seq(DocLines)
    <2>1. PICK n \in 1..5 : i \in [1..n -> DocLines]
      BY DEF ParseInputs
    <2>2. n \in Nat
      OBVIOUS
    <2> QED
      BY <2>1, <2>2, AList
  <1> QED
    BY <1>1, BlocksInPlace

LEMMA AskedToChunk ==
  ASSUME NEW i \in WindowInputs
  PROVE  WindowsCoverTheText(i)
  <1> DEFINE C == {"a", " ", "."}
  <1>1. i \in Seq(C) /\ Spaced(i)
    <2>1. PICK n \in {3, 5, 7, 9} : i \in [1..n -> C]
      BY DEF WindowInputs
    <2>2. n \in Nat
      OBVIOUS
    <2>3. Spaced(i)
      BY DEF WindowInputs, Spaced
    <2> HIDE DEF C
    <2> QED
      BY <2>1, <2>2, <2>3, AList
  <1> HIDE DEF C
  <1> QED
    BY <1>1, WindowsKeepTheText

LEMMA AskedToSearch ==
  ASSUME NEW i \in SearchInputs
  PROVE  SearchKeepsItsPromises(i)
  <1>1. i.topic \in {{}} \cup Pairs
    <2>1. i.topic \in {{}, {1, 2}, {1, 4}}
      BY DEF SearchInputs
    <2>2. \A x \in {2, 4} : {1, x} \subseteq Rowids /\ Cardinality({1, x}) = 2
      <3> SUFFICES ASSUME NEW x \in {2, 4} PROVE {1, x} \subseteq Rowids /\ Cardinality({1, x}) = 2
        OBVIOUS
      <3>1. IsFiniteSet({1}) /\ Cardinality({1}) = 1
        BY FS_Singleton
      <3>2. Cardinality({1} \cup {x}) = 2
        BY <3>1, FS_AddElement
      <3>3. {1, x} = {1} \cup {x}
        OBVIOUS
      <3> QED
        BY <3>2, <3>3 DEF Rowids
    <2> QED
      BY <2>1, <2>2 DEF Pairs
  <1>2. i.lexical \in Seq(Rowids)
    <2>1. i.lexical \in {<<>>, <<4, 1>>, <<2, 1>>, <<3, 4>>}
      BY DEF SearchInputs
    <2>2. <<>> \in Seq(1..4) /\ <<4, 1>> \in Seq(1..4) /\ <<2, 1>> \in Seq(1..4) /\ <<3, 4>> \in Seq(1..4)
      <3>1. \A a, b \in 1..4 : <<a, b>> \in Seq(1..4)
        <4> DEFINE R == 1..4
        <4> HIDE DEF R
        <4>1. \A a, b \in R : <<a, b>> \in Seq(R)
          OBVIOUS
        <4> QED
          BY <4>1 DEF R
      <3>2. 1 \in 1..4 /\ 2 \in 1..4 /\ 3 \in 1..4 /\ 4 \in 1..4
        OBVIOUS
      <3>3. <<>> \in Seq(1..4)
        OBVIOUS
      <3> QED
        BY <3>1, <3>2, <3>3
    <2> QED
      BY <2>1, <2>2 DEF Rowids
  <1>3. i.score \in [Rowids -> 0..2] /\ i.k \in Nat \ {0} /\ i.floor \in Int /\ i.injected \in SUBSET Rowids
    BY DEF SearchInputs, Rowids
  <1>4. i = [score |-> i.score, lexical |-> i.lexical, topic |-> i.topic, k |-> i.k, floor |-> i.floor, injected |-> i.injected]
    BY DEF SearchInputs
  <1>5. i \in Queries
    BY <1>1, <1>2, <1>3, <1>4 DEF Queries
  <1> QED
    BY <1>5, SearchesKeepTheirPromises

LEMMA AskedToWrite ==
  ASSUME NEW i \in WriteInputs
  PROVE  FiledIsWhatWasShown(i)
  <1>1. PICK A, P, H : i \in [proposed : Proposals(A, P, H), called : Proposals(A, P, H), token : BOOLEAN, manager : BOOLEAN]
    BY DEF WriteInputs, Arguments_, Proposals
  <1> QED
    BY <1>1, FiledAsShown

LEMMA AskedToBuild ==
  ASSUME NEW i \in IngestInputs
  PROVE  BuildsAreWhole(i)
  <1> DEFINE B == Builds
  <1>1. \A a, b \in B : <<a>> \in Seq(B) /\ <<a, b>> \in Seq(B)
    <2> HIDE DEF B
    <2> QED
      OBVIOUS
  <1>2. i \in Seq(B)
    <2>1. \E a, b \in Builds : i = <<a>> \/ i = <<a, b>>
      BY DEF IngestInputs
    <2> HIDE DEF B
    <2> QED
      BY <1>1, <2>1 DEF B
  <1> QED
    BY <1>2, BuildsWhole

EvidenceParts == {"route", "session", "clarify", "debts", "stream", "parse", "windows", "search", "section", "write", "index"}

\* Putting a question that is not one of these eleven says nothing of them.
LEMMA OtherEvidence ==
  ASSUME NEW part, NEW inputs, Put(part, inputs), part \notin EvidenceParts
  PROVE  EvidenceIsExact'
  BY DEF Put, EvidenceIsExact, Is, EvidenceParts

\* What a message asks for.
LEMMA WhatIsAsked ==
  ASSUME RouteMessage \/ FollowUp \/ AskBack \/ OweTools
  PROVE  EvidenceIsExact'
  <1>1. CASE RouteMessage
    <2>1. PICK i \in RouteInputs : input' = <<"route", i>>
      BY <1>1 DEF RouteMessage, Put
    <2>2. RoutesAreSafe(i)
      BY AskedToRoute
    <2> QED
      BY <2>1, <2>2 DEF EvidenceIsExact, Is
  <1>2. CASE FollowUp
    <2>1. PICK i \in SessionInputs : input' = <<"session", i>>
      BY <1>2 DEF FollowUp, Put
    <2>2. FollowUpsKeepTheirSubject(i)
      BY AskedToFollowUp
    <2> QED
      BY <2>1, <2>2 DEF EvidenceIsExact, Is
  <1>3. CASE AskBack
    <2>1. PICK i \in ClarifyInputs : input' = <<"clarify", i>>
      BY <1>3 DEF AskBack, Put
    <2>2. AsksForWhatIsMissing(i)
      BY AskedToClarify
    <2> QED
      BY <2>1, <2>2 DEF EvidenceIsExact, Is
  <1>4. CASE OweTools
    <2>1. PICK i \in DebtInputs : input' = <<"debts", i>>
      BY <1>4 DEF OweTools, Put
    <2>2. DebtsAreWhatCompletes(i)
      BY AskedForDebts
    <2> QED
      BY <2>1, <2>2 DEF EvidenceIsExact, Is
  <1> QED
    BY <1>1, <1>2, <1>3, <1>4

\* What is read to answer it.
LEMMA WhatIsRead ==
  ASSUME ScanStream \/ ParseDocument \/ ChunkDocument
  PROVE  EvidenceIsExact'
  <1>1. CASE ScanStream
    <2>1. PICK i \in ScanInputs : input' = <<"stream", i>>
      BY <1>1 DEF ScanStream, Put
    <2>2. StreamIsTheAnswer(i)
      BY AskedToScan
    <2> QED
      BY <2>1, <2>2 DEF EvidenceIsExact, Is
  <1>2. CASE ParseDocument
    <2>1. PICK i \in ParseInputs : input' = <<"parse", i>>
      BY <1>2 DEF ParseDocument, Put
    <2>2. BlocksAreUnderTheirHeadings(i)
      BY AskedToParse
    <2> QED
      BY <2>1, <2>2 DEF EvidenceIsExact, Is
  <1>3. CASE ChunkDocument
    <2>1. PICK i \in WindowInputs : input' = <<"windows", i>>
      BY <1>3 DEF ChunkDocument, Put
    <2>2. WindowsCoverTheText(i)
      BY AskedToChunk
    <2> QED
      BY <2>1, <2>2 DEF EvidenceIsExact, Is
  <1> QED
    BY <1>1, <1>2, <1>3

\* What is looked up, written and indexed.
LEMMA WhatIsLookedUp ==
  ASSUME Search \/ ReadSection \/ Write \/ BuildIndex
  PROVE  EvidenceIsExact'
  <1>1. CASE Search
    <2>1. PICK i \in SearchInputs : input' = <<"search", i>>
      BY <1>1 DEF Search, Put
    <2>2. SearchKeepsItsPromises(i)
      BY AskedToSearch
    <2> QED
      BY <2>1, <2>2 DEF EvidenceIsExact, Is
  <1>2. CASE ReadSection
    <2>1. PICK i \in SectionInputs : input' = <<"section", i>>
      BY <1>2 DEF ReadSection, Put
    <2>2. SectionsAreInPlace(i)
      BY AskedForSection
    <2> QED
      BY <2>1, <2>2 DEF EvidenceIsExact, Is
  <1>3. CASE Write
    <2>1. PICK i \in WriteInputs : input' = <<"write", i>>
      BY <1>3 DEF Write, Put
    <2>2. FiledIsWhatWasShown(i)
      BY AskedToWrite
    <2> QED
      BY <2>1, <2>2 DEF EvidenceIsExact, Is
  <1>4. CASE BuildIndex
    <2>1. PICK i \in IngestInputs : input' = <<"index", i>>
      BY <1>4 DEF BuildIndex, Put
    <2>2. BuildsAreWhole(i)
      BY AskedToBuild
    <2> QED
      BY <2>1, <2>2 DEF EvidenceIsExact, Is
  <1> QED
    BY <1>1, <1>2, <1>3, <1>4

(***************************************************************************)
(* A message is routed to a workflow that may act on it and a follow-up    *)
(* keeps its subject, the answer read off a stream is the answer however   *)
(* the stream is cut, a passage is text of the document it is cited to     *)
(* under its own headings, a search leaves out no document it promised, a  *)
(* write is the one its card showed, and an index that opens is whole      *)
(* (router, session, workflows, answer_stream, rag, the MCP tools).        *)
(***************************************************************************)
THEOREM AllEvidenceIsExact == AnswersSpec => []EvidenceIsExact
  <1>1. AnswersInit => EvidenceIsExact
    <2>1. ASSUME AnswersInit PROVE input[1] = "not put"
      BY <2>1 DEF AnswersInit, NotPut
    <2> QED
      BY <2>1 DEF EvidenceIsExact, Is
  <1>2. EvidenceIsExact /\ [AnswersNext]_answersVars => EvidenceIsExact'
    <2> SUFFICES ASSUME EvidenceIsExact, [AnswersNext]_answersVars PROVE EvidenceIsExact'
      OBVIOUS
    <2>1. CASE UNCHANGED answersVars
      BY <2>1 DEF answersVars, EvidenceIsExact, Is
    <2>2. CASE ScoreRequest \/ CountDays \/ ResolveApprover \/ LookUpProfile
      BY <2>2, OtherEvidence DEF EvidenceParts, ScoreRequest, CountDays, ResolveApprover, LookUpProfile
    <2>3. CASE StateVerdict \/ AccountForWrite \/ DropRepeats \/ CheckCitations \/ CheckEvidence \/ GatherEvidence \/ CheckWorking \/ CountToDeadline
      BY <2>3, OtherEvidence
      DEF EvidenceParts, StateVerdict, AccountForWrite, DropRepeats, CheckCitations, CheckEvidence, GatherEvidence, CheckWorking, CountToDeadline
    <2>4. CASE RewordSnapshot \/ NameApprovers \/ KeepSteps \/ ServeAnswer \/ Redact \/ ShowTurn \/ Visit \/ CountSpans
      BY <2>4, OtherEvidence
      DEF EvidenceParts, RewordSnapshot, NameApprovers, KeepSteps, ServeAnswer, Redact, ShowTurn, Visit, CountSpans
    <2>5. CASE RouteMessage \/ FollowUp \/ AskBack \/ OweTools
      BY <2>5, WhatIsAsked
    <2>6. CASE ScanStream \/ ParseDocument \/ ChunkDocument
      BY <2>6, WhatIsRead
    <2>7. CASE Search \/ ReadSection \/ Write \/ BuildIndex
      BY <2>7, WhatIsLookedUp
    <2>8. CASE AuditTurn \/ ScoreItem \/ AskJudge \/ Judge \/ Drive \/ ProbeCold \/ Assemble \/ PublishRun
               \/ Ablate \/ ProvisionRender \/ ProvisionTurso \/ ListPages \/ CountToolCalls \/ CountModelCalls \/ ShowRun \/ CompareVariants
      BY <2>8, OtherEvidence
      DEF EvidenceParts, AuditTurn, ScoreItem, AskJudge, Judge, Drive, ProbeCold, Assemble, PublishRun,
          Ablate, ProvisionRender, ProvisionTurso, ListPages, CountToolCalls, CountModelCalls, ShowRun, CompareVariants
    <2> QED
      BY <2>1, <2>2, <2>3, <2>4, <2>5, <2>6, <2>7, <2>8 DEF AnswersNext
  <1> QED
    BY <1>1, <1>2, PTL DEF AnswersSpec
=============================================================================
