---------------------------- MODULE ServicesProofs ----------------------------
(***************************************************************************)
(* Theorems about what stands around the turns, each for every value of    *)
(* its module's constants: the activity rail (SpanBroker), the access      *)
(* gate's rate limiter (WebGate) and the lifespan of the process (Boot);   *)
(* what core/retention.py and core/archive.py leave in the store, what     *)
(* llm/limiter.py, llm/cache.py and llm/base.py put on record of the model *)
(* calls, and what mcp/client.py shares between the turns, for any number  *)
(* of sessions, files, importers, turns, calls, keys and connections; and  *)
(* what is proved of each service, of the process that runs them all       *)
(* (Services).                                                             *)
(***************************************************************************)
EXTENDS Services, SequenceTheorems, FiniteSetTheorems, WellFoundedInduction, TLAPS

-----------------------------------------------------------------------------
(* The activity rail.  What a stream has shown and still holds is a stretch *)
(* of what was delivered, from where it joined, unless it fell short; what  *)
(* is on its way to a turn is beyond what was delivered to it.              *)
Frame == 0..LastFrame

StreamRecord ==
    [at : {"new", "open", "ended"}, turn : RailTurns, queue : Seq(Frame \cup {Sentinel}), beats : Nat,
     out : Seq(Frame), joined : Nat, short : BOOLEAN]

RailTypeOK ==
    /\ rail \in [Streams -> StreamRecord]
    /\ subscribers \in SUBSET Streams
    /\ railClosed \in BOOLEAN
    /\ loopCalls \in Seq([turn : RailTurns, frame : Frame])
    /\ nextFrame \in [RailTurns -> Nat]
    /\ delivered \in [RailTurns -> Seq(Frame)]

\* Delivered, then on its way, then still to be published.
PublishedInOrder ==
    /\ \A t \in RailTurns : IsAscending(delivered[t]) /\ \A j \in DOMAIN delivered[t] : delivered[t][j] < nextFrame[t]
    /\ \A i \in DOMAIN loopCalls :
          /\ loopCalls[i].frame < nextFrame[loopCalls[i].turn]
          /\ \A j \in DOMAIN delivered[loopCalls[i].turn] : delivered[loopCalls[i].turn][j] < loopCalls[i].frame
          /\ \A j \in DOMAIN loopCalls :
                (i < j /\ loopCalls[i].turn = loopCalls[j].turn) => loopCalls[i].frame < loopCalls[j].frame

Shown(r) == r.out \o Frames(r.queue)

\* The sentinel comes last, and to a stream that is no subscriber any more.
SentinelIsLast(q, listens) == \A i \in DOMAIN q : q[i] = Sentinel => (i = Len(q) /\ ~listens)

\* Every frame of f was delivered; f is what was delivered after the first n.
AllOf(f, D) == \A i \in DOMAIN f : \E j \in DOMAIN D : D[j] = f[i]
After(f, D, n) == n + Len(f) <= Len(D) /\ \A i \in DOMAIN f : f[i] = D[n + i]

Shows(r, D, listens) ==
    /\ r.joined <= Len(D)
    /\ IsAscending(Shown(r))
    /\ AllOf(Shown(r), D)
    /\ r.at = "new" => r.out = <<>> /\ r.queue = <<>>
    /\ listens => r.at = "open"
    /\ SentinelIsLast(r.queue, listens)
    /\ (r.at # "new" /\ ~r.short) => After(Shown(r), D, r.joined)
    /\ (~r.short /\ listens) => r.joined + Len(Shown(r)) = Len(D)

RailInv ==
    /\ RailTypeOK
    /\ PublishedInOrder
    /\ \A s \in Streams : Shows(rail[s], delivered[rail[s].turn], s \in subscribers)

-----------------------------------------------------------------------------
(* The frames of a queue.                                                  *)
Items == Frame \cup {Sentinel}

\* Frames are numbered, and the end mark is none of them.
LEMMA ItemsAreInts == Frame \subseteq Int /\ Items \subseteq Int /\ Sentinel \notin Frame /\ Sentinel \in Items
  BY RailConstants DEF Frame, Items, Sentinel

\* A queue that nobody has ended holds only frames.
LEMMA FramesPlain ==
  ASSUME NEW q \in Seq(Items), SentinelIsLast(q, TRUE)
  PROVE  Frames(q) = q /\ q \in Seq(Frame)
  <1>1. \A i \in DOMAIN q : q[i] \in Frame
    BY DEF SentinelIsLast, Items
  <1>2. q \in Seq(Frame)
    BY <1>1
  <1>3. q # <<>> => q[Len(q)] # Sentinel
    BY DEF SentinelIsLast
  <1> QED
    BY <1>2, <1>3 DEF Frames

\* What is left of a queue without its end mark is frames.
LEMMA FramesType ==
  ASSUME NEW q \in Seq(Items), SentinelIsLast(q, FALSE)
  PROVE  Frames(q) \in Seq(Frame)
  <1>1. CASE q # <<>> /\ q[Len(q)] = Sentinel
    <2> DEFINE n == Len(q) - 1
    <2>1. n \in Nat /\ n <= Len(q)
      BY <1>1
    <2>2. \A i \in 1..n : q[i] \in Frame
      BY <2>1 DEF SentinelIsLast, Items
    <2>3. SubSeq(q, 1, n) \in Seq(Frame)
      BY <2>1, <2>2
    <2> QED
      BY <1>1, <2>3 DEF Frames
  <1>2. CASE ~(q # <<>> /\ q[Len(q)] = Sentinel)
    <2>1. \A i \in DOMAIN q : q[i] \in Frame
      BY <1>2 DEF SentinelIsLast, Items
    <2>2. q \in Seq(Frame)
      BY <2>1
    <2> QED
      BY <1>2, <2>2 DEF Frames
  <1> QED
    BY <1>1, <1>2

\* What putting an item into a queue does to its frames.
LEMMA FramesOfOffer ==
  ASSUME NEW q \in Seq(Items), SentinelIsLast(q, TRUE), NEW x \in Items
  PROVE  /\ Append(q, x) \in Seq(Items)
         /\ x = Sentinel => Frames(Append(q, x)) = q /\ SentinelIsLast(Append(q, x), FALSE)
         /\ x # Sentinel => Frames(Append(q, x)) = Append(q, x) /\ SentinelIsLast(Append(q, x), TRUE)
  <1> DEFINE p == Append(q, x)
             n == Len(q)
  <1>1. p \in Seq(Items) /\ Len(p) = n + 1 /\ p[n + 1] = x /\ (\A i \in 1..n : p[i] = q[i]) /\ p # <<>> /\ n \in Nat
    BY AppendProperties
  <1>2. x = Sentinel => Frames(p) = q
    <2> SUFFICES ASSUME x = Sentinel PROVE SubSeq(p, 1, n) = q
      BY <1>1 DEF Frames
    <2> QED
      BY <1>1
  <1>3. x # Sentinel => Frames(p) = p
    BY <1>1 DEF Frames
  <1>4. x = Sentinel => SentinelIsLast(p, FALSE)
    BY <1>1 DEF SentinelIsLast
  <1>5. x # Sentinel => SentinelIsLast(p, TRUE)
    BY <1>1 DEF SentinelIsLast
  <1> QED
    BY <1>1, <1>2, <1>3, <1>4, <1>5

\* Taking the first item of a queue only moves it to what was shown.
LEMMA FramesOfTail ==
  ASSUME NEW q \in Seq(Items), NEW out \in Seq(Frame), q # <<>>, NEW l \in BOOLEAN, SentinelIsLast(q, l)
  PROVE  /\ Tail(q) \in Seq(Items) /\ SentinelIsLast(Tail(q), l) /\ Head(q) \in Items
         /\ Head(q) = Sentinel => out \o Frames(Tail(q)) = out \o Frames(q)
         /\ Head(q) # Sentinel => /\ Append(out, Head(q)) \in Seq(Frame)
                                  /\ Append(out, Head(q)) \o Frames(Tail(q)) = out \o Frames(q)
  <1> DEFINE n == Len(q)
             p == Tail(q)
  <1>1. n \in Nat /\ n > 0 /\ p \in Seq(Items) /\ Len(p) = n - 1 /\ (\A i \in 1..(n - 1) : p[i] = q[i + 1]) /\ Head(q) = q[1]
    BY HeadTailProperties
  <1>2. SentinelIsLast(p, l)
    BY <1>1 DEF SentinelIsLast
  <1>3. CASE Head(q) = Sentinel
    <2>1. n = 1
      BY <1>1, <1>3 DEF SentinelIsLast
    <2>2. p = <<>>
      BY SMTT(20), <1>1, <2>1
    <2>3. Frames(p) = <<>>
      BY <2>2 DEF Frames
    <2>4. Frames(q) = <<>>
      BY <2>1, <1>1, <1>3 DEF Frames
    <2> QED
      BY <1>1, <1>2, <1>3, <2>3, <2>4
  <1>4. CASE Head(q) # Sentinel
    <2>1. Head(q) \in Frame /\ Append(out, Head(q)) \in Seq(Frame)
      BY <1>1, <1>4 DEF Items
    <2>2. Frames(q) \in Seq(Frame) /\ Frames(p) \in Seq(Frame)
      BY <1>1, <1>2, FramesType DEF SentinelIsLast
    <2>3. Len(Frames(q)) = Len(Frames(p)) + 1 /\ Frames(q)[1] = Head(q)
          /\ \A i \in 1..Len(Frames(p)) : Frames(q)[i + 1] = Frames(p)[i]
      <3>1. CASE q[n] = Sentinel
        <4>1. n > 1
          BY <1>1, <1>4, <3>1
        <4>a. n - 1 \in 1..(n - 1) /\ p[n - 1] = q[(n - 1) + 1]
          BY <1>1, <4>1
        <4>2. p # <<>> /\ p[Len(p)] = Sentinel
          <5>1. p[n - 1] = Sentinel
            BY <1>1, <3>1, <4>1, <4>a
          <5>2. Len(p) = n - 1 /\ n - 1 > 0 /\ p \in Seq(Items)
            BY <1>1, <4>1
          <5> HIDE DEF p, n
          <5> QED
            BY <5>1, <5>2
        <4>3. Frames(q) = SubSeq(q, 1, n - 1) /\ Frames(p) = SubSeq(p, 1, n - 2)
          BY <1>1, <3>1, <4>2 DEF Frames
        <4> QED
          BY <4>1, <4>3, <1>1
      <3>2. CASE q[n] # Sentinel
        <4>1. Frames(q) = q
          BY <3>2 DEF Frames
        <4>2. Frames(p) = p
          <5>1. p # <<>> => p[Len(p)] = q[n]
            BY <1>1
          <5> QED
            BY <5>1, <3>2 DEF Frames
        <4> HIDE DEF p
        <4> QED
          BY <4>1, <4>2, <1>1
      <3> QED
        BY <3>1, <3>2
    <2> DEFINE fq == Frames(q)
               fp == Frames(p)
               k == Len(out)
               e == Append(out, Head(q))
    <2>4. fq \in Seq(Frame) /\ fp \in Seq(Frame) /\ k \in Nat
      BY <2>2
    <2>5. Len(fq) = Len(fp) + 1 /\ fq[1] = Head(q) /\ \A i \in 1..Len(fp) : fq[i + 1] = fp[i]
      BY <2>3
    <2> HIDE DEF fq, fp
    <2>7. e \in Seq(Frame) /\ Len(e) = k + 1 /\ e[k + 1] = Head(q) /\ \A i \in 1..k : e[i] = out[i]
      BY <2>1, AppendProperties
    <2> HIDE DEF e
    <2> DEFINE a == e \o fp
               b == out \o fq
    <2>8. /\ a \in Seq(Frame) /\ Len(a) = k + 1 + Len(fp)
          /\ \A i \in 1..(k + 1 + Len(fp)) : a[i] = IF i <= k + 1 THEN e[i] ELSE fp[i - (k + 1)]
      <3>1. /\ a \in Seq(Frame) /\ Len(a) = Len(e) + Len(fp)
            /\ \A i \in 1..(Len(e) + Len(fp)) : a[i] = IF i <= Len(e) THEN e[i] ELSE fp[i - Len(e)]
        BY <2>4, <2>7, ConcatProperties
      <3> HIDE DEF a
      <3>2. Len(e) = k + 1
        BY <2>7
      <3> QED
        BY <3>1, <3>2
    <2>9. /\ b \in Seq(Frame) /\ Len(b) = k + Len(fq)
          /\ \A i \in 1..(k + Len(fq)) : b[i] = IF i <= k THEN out[i] ELSE fq[i - k]
      BY <2>4, ConcatProperties
    <2>10. Len(fp) \in Nat
      BY <2>4
    <2> HIDE DEF a, b
    <2>11. ASSUME NEW i \in 1..Len(a) PROVE a[i] = b[i]
      <3>1. i \in Nat /\ 1 <= i /\ i <= k + 1 + Len(fp) /\ i \in 1..(k + Len(fq))
        BY <2>4, <2>5, <2>8, <2>10
      <3>2. CASE i <= k
        <4>1. i \in 1..k /\ i <= k + 1
          BY <3>1, <3>2, <2>4
        <4>2. a[i] = e[i] /\ b[i] = out[i]
          BY <3>1, <3>2, <4>1, <2>8, <2>9
        <4> QED
          BY <4>1, <4>2, <2>7
      <3>3. CASE i = k + 1
        <4>1. b[i] = fq[1]
          BY SMTT(20), <3>1, <3>3, <2>4, <2>9
        <4> QED
          BY <4>1, <3>1, <3>3, <2>4, <2>5, <2>7, <2>8
      <3>4. CASE i > k + 1
        <4>1. a[i] = fp[i - (k + 1)]
          BY <3>1, <3>4, <2>4, <2>8, <2>10
        <4>2. b[i] = fq[i - k]
          BY <3>1, <3>4, <2>4, <2>9
        <4>3. i - (k + 1) \in 1..Len(fp) /\ (i - (k + 1)) + 1 = i - k
          BY <3>1, <3>4, <2>4, <2>10
        <4> QED
          BY <4>1, <4>2, <4>3, <2>5
      <3> QED
        BY <3>1, <3>2, <3>3, <3>4, <2>4
    <2>12. Len(a) = Len(b)
      BY <2>5, <2>8, <2>9, <2>10, <2>4
    <2>6. a = b
      BY <2>8, <2>9, <2>11, <2>12, SeqEqual
    <2>13. Append(out, Head(q)) \o Frames(Tail(q)) = out \o Frames(q)
      BY <2>6 DEF a, b, e, fq, fp
    <2> QED
      BY <1>1, <1>2, <1>4, <2>1, <2>13
  <1> QED
    BY <1>3, <1>4

-----------------------------------------------------------------------------
(* One stream, one step.  D is what was delivered to its turn.             *)
LEMMA ShownType ==
  ASSUME NEW r \in StreamRecord, SentinelIsLast(r.queue, FALSE)
  PROVE  Shown(r) \in Seq(Frame) /\ Len(Shown(r)) \in Nat
  <1>1. r.queue \in Seq(Items) /\ r.out \in Seq(Frame)
    BY DEF StreamRecord, Items
  <1>2. Frames(r.queue) \in Seq(Frame)
    BY <1>1, FramesType
  <1>3. r.out \o Frames(r.queue) \in Seq(Frame)
    BY <1>1, <1>2, ConcatProperties
  <1>4. Shown(r) \in Seq(Frame)
    BY <1>3 DEF Shown
  <1> QED
    BY <1>4, LenProperties

\* A frame is pushed behind the others.
LEMMA PushedAtTheEnd ==
  ASSUME NEW a \in Seq(Frame), NEW b \in Seq(Frame), NEW c \in Frame
  PROVE  a \o Append(b, c) = Append(a \o b, c)
  <1> DEFINE bc == Append(b, c)
             ab == a \o b
             l == a \o bc
             r == Append(ab, c)
             n == Len(a)
             m == Len(b)
  <1>1. n \in Nat /\ m \in Nat
    BY LenProperties
  <1>2. bc \in Seq(Frame) /\ Len(bc) = m + 1 /\ bc[m + 1] = c /\ \A i \in 1..m : bc[i] = b[i]
    BY AppendProperties
  <1>3. ab \in Seq(Frame) /\ Len(ab) = n + m /\ \A i \in 1..(n + m) : ab[i] = IF i <= n THEN a[i] ELSE b[i - n]
    BY ConcatProperties
  <1> HIDE DEF bc, ab
  <1>4. l \in Seq(Frame) /\ Len(l) = n + Len(bc) /\ \A i \in 1..(n + Len(bc)) : l[i] = IF i <= n THEN a[i] ELSE bc[i - n]
    BY <1>2, ConcatProperties
  <1>5. r \in Seq(Frame) /\ Len(r) = Len(ab) + 1 /\ r[Len(ab) + 1] = c /\ \A i \in 1..Len(ab) : r[i] = ab[i]
    <2>1. ab \in Seq(Frame)
      BY <1>3
    <2> QED
      BY <2>1, AppendProperties
  <1> HIDE DEF l, r, n, m
  <1>6. Len(l) = n + m + 1 /\ Len(r) = n + m + 1
    BY <1>1, <1>2, <1>3, <1>4, <1>5
  <1>7. ASSUME NEW i \in 1..Len(l) PROVE l[i] = r[i]
    <2>1. i \in Nat /\ 1 <= i /\ i <= n + m + 1
      BY <1>1, <1>6
    <2>2. l[i] = IF i <= n THEN a[i] ELSE bc[i - n]
      BY <2>1, <1>1, <1>2, <1>4
    <2>3. CASE i = n + m + 1
      BY <2>2, <2>3, <1>1, <1>2, <1>3, <1>5
    <2>4. CASE i <= n + m
      <3>1. r[i] = IF i <= n THEN a[i] ELSE b[i - n]
        BY <2>1, <2>4, <1>1, <1>3, <1>5
      <3>2. i > n => bc[i - n] = b[i - n]
        BY <2>1, <2>4, <1>1, <1>2
      <3> QED
        BY <2>1, <2>2, <3>1, <3>2, <1>1
    <2> QED
      BY <2>1, <2>3, <2>4, <1>1
  <1>8. l = r
    BY <1>4, <1>5, <1>6, <1>7, SeqEqual
  <1> QED
    BY <1>8 DEF l, r, bc, ab

\* A subscriber that hears one frame more.
LEMMA HearsOne ==
  ASSUME NEW r \in StreamRecord, NEW D \in Seq(Frame), NEW c \in Frame,
         IsAscending(D), \A j \in DOMAIN D : D[j] < c, Shows(r, D, TRUE)
  PROVE  /\ Offered(r, c) \in StreamRecord /\ Offered(r, c).turn = r.turn
         /\ Shows(Offered(r, c), Append(D, c), TRUE)
  <1> DEFINE E == Append(D, c)
             m == Len(D)
             f == Shown(r)
             n == Len(f)
  <1>1. m \in Nat /\ Len(E) = m + 1 /\ E[m + 1] = c /\ (\A i \in 1..m : E[i] = D[i]) /\ DOMAIN D = 1..m /\ DOMAIN E = 1..(m + 1)
    BY AppendProperties, LenProperties
  <1> HIDE DEF E
  <1>2. r.queue \in Seq(Items) /\ r.out \in Seq(Frame) /\ r.joined \in Nat /\ r.at = "open" /\ r.joined <= m
    BY DEF StreamRecord, Items, Shows
  <1>3. SentinelIsLast(r.queue, TRUE) /\ SentinelIsLast(r.queue, FALSE)
    BY DEF Shows, SentinelIsLast
  <1>4. f \in Seq(Frame) /\ n \in Nat /\ DOMAIN f = 1..n
    BY <1>3, ShownType, LenProperties
  <1>5. CASE Len(r.queue) < QueueMax
    <2> DEFINE q == Append(r.queue, c)
               o == [r EXCEPT !.queue = q]
    <2>1. Offered(r, c) = o
      BY <1>5 DEF Offered
    <2>2. c \in Items /\ c # Sentinel
      BY ItemsAreInts DEF Items
    <2>3. q \in Seq(Items) /\ Frames(q) = q /\ SentinelIsLast(q, TRUE)
      BY <1>2, <1>3, <2>2, FramesOfOffer
    <2>4. Frames(r.queue) = r.queue /\ r.queue \in Seq(Frame)
      BY <1>2, <1>3, FramesPlain
    <2>5. Shown(o) = Append(f, c)
      <3>1. r.out \o Append(r.queue, c) = Append(r.out \o r.queue, c)
        BY <1>2, <2>4, PushedAtTheEnd
      <3>2. o.out = r.out /\ o.queue = q
        BY DEF StreamRecord
      <3> QED
        BY <2>3, <2>4, <3>1, <3>2 DEF Shown
    <2>6. /\ o \in StreamRecord /\ o.turn = r.turn /\ o.at = r.at /\ o.joined = r.joined /\ o.short = r.short /\ o.queue = q
      BY <2>3 DEF StreamRecord, Items
    <2> DEFINE g == Append(f, c)
    <2>7. Len(g) = n + 1 /\ g[n + 1] = c /\ (\A i \in 1..n : g[i] = f[i]) /\ DOMAIN g = 1..(n + 1)
      BY <1>4, AppendProperties, LenProperties
    <2> HIDE DEF o, g, q, f, n, m
    <2>8. \A i \in 1..n : \E j \in 1..m : D[j] = f[i]
      BY <1>1, <1>4 DEF Shows, AllOf, f
    <2>9. IsAscending(g)
      <3> SUFFICES ASSUME NEW i \in 1..(n + 1), NEW j \in 1..(n + 1), i < j PROVE g[i] < g[j]
        BY <2>7 DEF IsAscending
      <3>0. i \in 1..n
        BY <1>4
      <3>1. CASE j \in 1..n
        <4>1. f[i] < f[j]
          BY <3>0, <3>1, <1>4 DEF Shows, IsAscending, f
        <4> QED
          BY <4>1, <3>0, <3>1, <2>7
      <3>2. CASE j = n + 1
        <4>1. PICK k \in 1..m : D[k] = f[i]
          BY <3>0, <2>8
        <4> QED
          BY <4>1, <3>0, <3>2, <2>7, <1>1
      <3> QED
        BY <3>1, <3>2, <1>4
    <2>10. \A i \in 1..(n + 1) : \E j \in 1..(m + 1) : E[j] = g[i]
      <3> SUFFICES ASSUME NEW i \in 1..(n + 1) PROVE \E j \in 1..(m + 1) : E[j] = g[i]
        OBVIOUS
      <3>1. CASE i = n + 1
        BY <3>1, <1>1, <2>7
      <3>2. CASE i \in 1..n
        <4>1. PICK k \in 1..m : D[k] = f[i]
          BY <3>2, <2>8
        <4> QED
          BY <4>1, <3>2, <2>7, <1>1
      <3> QED
        BY <3>1, <3>2, <1>4
    <2>11. ASSUME ~r.short
           PROVE  /\ r.joined + (n + 1) = m + 1
                  /\ \A i \in 1..(n + 1) : g[i] = E[r.joined + i]
      <3>1. r.joined + n = m /\ \A i \in 1..n : f[i] = D[r.joined + i]
        BY <2>11, <1>2, <1>4 DEF Shows, After, f, n, m
      <3>2. ASSUME NEW i \in 1..(n + 1) PROVE g[i] = E[r.joined + i]
        <4>1. CASE i = n + 1
          BY <4>1, <3>1, <1>1, <1>2, <1>4, <2>7
        <4>2. CASE i \in 1..n
          <5>1. r.joined + i \in 1..m
            BY <3>1, <4>2, <1>1, <1>2, <1>4
          <5> QED
            BY <5>1, <4>2, <3>1, <1>1, <2>7
        <4> QED
          BY <4>1, <4>2, <1>4
      <3> QED
        BY <3>1, <3>2, <1>1, <1>2, <1>4
    <2>12. Shown(o) = g /\ Len(E) = m + 1 /\ DOMAIN E = 1..(m + 1)
      BY <2>5, <1>1 DEF g
    <2>a. IsAscending(Shown(o)) /\ AllOf(Shown(o), E)
      BY <2>7, <2>9, <2>10, <2>12 DEF AllOf
    <2>b. ~r.short => After(Shown(o), E, r.joined) /\ r.joined + Len(Shown(o)) = Len(E)
      BY <2>7, <2>11, <2>12 DEF After
    <2>c. r.joined <= Len(E)
      BY <2>12, <1>1, <1>2
    <2>13. Shows(o, E, TRUE)
      BY <2>3, <2>6, <2>a, <2>b, <2>c, <1>2 DEF Shows
    <2> QED
      BY <2>1, <2>6, <2>13 DEF E
  <1>6. CASE ~(Len(r.queue) < QueueMax)
    <2> DEFINE o == [r EXCEPT !.short = TRUE]
    <2>1. Offered(r, c) = o
      BY <1>6 DEF Offered
    <2>2. /\ o \in StreamRecord /\ o.turn = r.turn /\ o.at = r.at /\ o.joined = r.joined /\ o.short
          /\ o.queue = r.queue /\ o.out = r.out
      BY DEF StreamRecord
    <2> HIDE DEF o
    <2>3. Shown(o) = Shown(r)
      BY <2>2 DEF Shown
    <2>4. AllOf(Shown(r), E)
      <3> SUFFICES ASSUME NEW i \in DOMAIN Shown(r) PROVE \E j \in DOMAIN E : E[j] = Shown(r)[i]
        BY DEF AllOf
      <3>1. PICK j \in DOMAIN D : D[j] = Shown(r)[i]
        BY DEF Shows, AllOf
      <3> QED
        BY <3>1, <1>1
    <2>6. r.joined <= Len(E)
      BY <1>1, <1>2
    <2>5. Shows(o, E, TRUE)
      BY <2>2, <2>3, <2>4, <2>6, <1>2 DEF Shows
    <2> QED
      BY <2>1, <2>2, <2>5 DEF E
  <1> QED
    BY <1>5, <1>6

\* A stream that was not listening when a frame was delivered.
LEMMA MissesOne ==
  ASSUME NEW r \in StreamRecord, NEW D \in Seq(Frame), NEW c \in Frame, Shows(r, D, FALSE)
  PROVE  Shows(r, Append(D, c), FALSE)
  <1> DEFINE E == Append(D, c)
             m == Len(D)
  <1>1. m \in Nat /\ Len(E) = m + 1 /\ (\A i \in 1..m : E[i] = D[i]) /\ DOMAIN D = 1..m /\ DOMAIN E = 1..(m + 1)
    BY AppendProperties, LenProperties
  <1> HIDE DEF E
  <1>2. r.joined \in Nat /\ r.joined <= m
    BY DEF StreamRecord, Shows
  <1>3. SentinelIsLast(r.queue, FALSE)
    BY DEF Shows
  <1>4. Len(Shown(r)) \in Nat /\ DOMAIN Shown(r) = 1..Len(Shown(r))
    BY <1>3, ShownType, LenProperties
  <1>5. AllOf(Shown(r), E)
    <2> SUFFICES ASSUME NEW i \in DOMAIN Shown(r) PROVE \E j \in DOMAIN E : E[j] = Shown(r)[i]
      BY DEF AllOf
    <2>1. PICK j \in DOMAIN D : D[j] = Shown(r)[i]
      BY DEF Shows, AllOf
    <2> QED
      BY <2>1, <1>1
  <1>6. (r.at # "new" /\ ~r.short) => After(Shown(r), E, r.joined)
    <2> SUFFICES ASSUME r.at # "new", ~r.short
                 PROVE  /\ r.joined + Len(Shown(r)) <= Len(E)
                        /\ \A i \in DOMAIN Shown(r) : Shown(r)[i] = E[r.joined + i]
      BY DEF After
    <2>1. r.joined + Len(Shown(r)) <= m /\ \A i \in DOMAIN Shown(r) : Shown(r)[i] = D[r.joined + i]
      BY DEF Shows, After
    <2>2. \A i \in DOMAIN Shown(r) : r.joined + i \in 1..m
      BY <2>1, <1>1, <1>2, <1>4
    <2> QED
      BY <2>1, <2>2, <1>1, <1>2, <1>4
  <1>8. r.joined <= Len(E)
    BY <1>1, <1>2
  <1>7. Shows(r, E, FALSE)
    BY <1>5, <1>6, <1>8 DEF Shows
  <1> QED
    BY <1>7 DEF E

\* A subscriber that is offered the sentinel, and is none any more.
LEMMA HearsTheEnd ==
  ASSUME NEW r \in StreamRecord, NEW D \in Seq(Frame), Shows(r, D, TRUE)
  PROVE  /\ Offered(r, Sentinel) \in StreamRecord /\ Offered(r, Sentinel).turn = r.turn
         /\ Shows(Offered(r, Sentinel), D, FALSE)
  <1>1. r.queue \in Seq(Items) /\ r.at = "open"
    BY DEF StreamRecord, Items, Shows
  <1>2. SentinelIsLast(r.queue, TRUE) /\ SentinelIsLast(r.queue, FALSE)
    BY DEF Shows, SentinelIsLast
  <1>3. CASE Len(r.queue) < QueueMax
    <2> DEFINE q == Append(r.queue, Sentinel)
               o == [r EXCEPT !.queue = q]
    <2>1. Offered(r, Sentinel) = o
      BY <1>3 DEF Offered
    <2>2. q \in Seq(Items) /\ Frames(q) = r.queue /\ SentinelIsLast(q, FALSE) /\ Frames(r.queue) = r.queue
      BY <1>1, <1>2, ItemsAreInts, FramesOfOffer, FramesPlain
    <2> HIDE DEF q
    <2>3. /\ o \in StreamRecord /\ o.turn = r.turn /\ o.at = r.at /\ o.joined = r.joined /\ o.short = r.short
          /\ o.queue = q /\ o.out = r.out
      BY <2>2 DEF StreamRecord, Items
    <2> HIDE DEF o
    <2>4. Shown(o) = Shown(r)
      BY <2>2, <2>3 DEF Shown
    <2>5. Shows(o, D, FALSE)
      BY <2>2, <2>3, <2>4, <1>1 DEF Shows
    <2> QED
      BY <2>1, <2>3, <2>5
  <1>4. CASE ~(Len(r.queue) < QueueMax)
    <2> DEFINE o == [r EXCEPT !.short = TRUE]
    <2>1. Offered(r, Sentinel) = o
      BY <1>4 DEF Offered
    <2>2. /\ o \in StreamRecord /\ o.turn = r.turn /\ o.at = r.at /\ o.joined = r.joined /\ o.short
          /\ o.queue = r.queue /\ o.out = r.out
      BY DEF StreamRecord
    <2> HIDE DEF o
    <2>3. Shown(o) = Shown(r)
      BY <2>2 DEF Shown
    <2>4. Shows(o, D, FALSE)
      BY <2>2, <2>3, <1>1, <1>2 DEF Shows
    <2> QED
      BY <2>1, <2>2, <2>4
  <1> QED
    BY <1>3, <1>4

\* A stream that moves on with what it has shown and holds unchanged.
LEMMA ShowsTheSame ==
  ASSUME NEW r \in StreamRecord, NEW o \in StreamRecord, NEW D \in Seq(Frame), NEW l \in BOOLEAN, NEW k \in BOOLEAN,
         Shows(r, D, l), r.at # "new", o.at # "new", o.joined = r.joined, r.short => o.short,
         Shown(o) = Shown(r), SentinelIsLast(o.queue, k), k => l /\ o.at = "open"
  PROVE  Shows(o, D, k)
  BY DEF Shows

-----------------------------------------------------------------------------
(* The initial state and the steps.                                        *)
LEMMA RailInitially == RailInit => RailInv
  <1> SUFFICES ASSUME RailInit PROVE RailInv
    OBVIOUS
  <1>1. PICK turnOf \in [Streams -> RailTurns] :
           rail = [s \in Streams |-> [at |-> "new", turn |-> turnOf[s], queue |-> <<>>, beats |-> 0,
                                      out |-> <<>>, joined |-> 0, short |-> FALSE]]
    BY DEF RailInit
  <1>2. RailTypeOK
    <2>1. <<>> \in Seq(Items) /\ <<>> \in Seq(Frame) /\ <<>> \in Seq([turn : RailTurns, frame : Frame])
      BY EmptySeq
    <2>2. ASSUME NEW s \in Streams PROVE rail[s] \in StreamRecord
      BY <1>1, <2>1 DEF StreamRecord, Items
    <2>3. rail \in [Streams -> StreamRecord]
      BY <1>1, <2>2
    <2>4. delivered \in [RailTurns -> Seq(Frame)] /\ nextFrame \in [RailTurns -> Nat]
      BY <2>1 DEF RailInit
    <2> QED
      BY <2>1, <2>3, <2>4 DEF RailInit, RailTypeOK
  <1>3. PublishedInOrder
    BY DEF RailInit, PublishedInOrder, IsAscending
  <1>4. ASSUME NEW s \in Streams PROVE Shows(rail[s], delivered[rail[s].turn], s \in subscribers)
    <2>1. rail[s].at = "new" /\ rail[s].queue = <<>> /\ rail[s].out = <<>> /\ rail[s].joined = 0 /\ rail[s].turn \in RailTurns
      BY <1>1
    <2>2. delivered[rail[s].turn] = <<>> /\ s \notin subscribers
      BY <2>1 DEF RailInit
    <2>3. Frames(<<>>) = <<>>
      BY DEF Frames
    <2>4. Shown(rail[s]) = <<>>
      BY <2>1, <2>3 DEF Shown
    <2>5. IsAscending(<<>>) /\ AllOf(<<>>, <<>>) /\ SentinelIsLast(<<>>, FALSE) /\ Len(<<>>) = 0
      BY DEF IsAscending, AllOf, SentinelIsLast
    <2>6. (s \in subscribers) = FALSE
      BY <2>2
    <2>7. ~(rail[s].at # "new" /\ ~rail[s].short)
      BY <2>1
    <2>8. Shows(rail[s], <<>>, FALSE)
      <3> DEFINE r == rail[s]
                 f == Shown(r)
      <3>1. r.joined <= Len(<<>>) /\ IsAscending(f) /\ AllOf(f, <<>>) /\ SentinelIsLast(r.queue, FALSE)
        <4>1. f = <<>> /\ r.queue = <<>> /\ r.joined = 0
          BY <2>1, <2>4
        <4> HIDE DEF f, r
        <4>2. r.joined <= Len(<<>>)
          BY <4>1, <2>5
        <4> QED
          BY <4>1, <4>2, <2>5
      <3>2. r.at = "new" /\ r.out = <<>> /\ r.queue = <<>>
        BY <2>1
      <3> HIDE DEF r, f
      <3> QED
        BY <3>1, <3>2 DEF Shows, f, r
    <2> QED
      BY <2>2, <2>6, <2>8
  <1> QED
    BY <1>2, <1>3, <1>4 DEF RailInv

\* A step of one stream, which leaves what was published and delivered alone.
LEMMA OneStreamMoves ==
  ASSUME RailInv, NEW s \in Streams, NEW o \in StreamRecord, o.turn = rail[s].turn,
         rail' = [rail EXCEPT ![s] = o],
         subscribers' \in {subscribers \cup {s}, subscribers, subscribers \ {s}},
         Shows(o, delivered[o.turn], s \in subscribers'),
         UNCHANGED <<railClosed, loopCalls, nextFrame, delivered>>
  PROVE  RailInv'
  <1>1. RailTypeOK'
    BY DEF RailInv, RailTypeOK
  <1>2. PublishedInOrder'
    BY DEF RailInv, PublishedInOrder
  <1>3. ASSUME NEW q \in Streams PROVE Shows(rail'[q], delivered'[rail'[q].turn], q \in subscribers')
    <2>1. CASE q = s
      BY <2>1 DEF RailInv, RailTypeOK
    <2>2. CASE q # s
      <3>1. rail'[q] = rail[q] /\ (q \in subscribers') = (q \in subscribers)
        BY <2>2 DEF RailInv, RailTypeOK
      <3> QED
        BY <3>1 DEF RailInv
    <2> QED
      BY <2>1, <2>2
  <1> QED
    BY <1>1, <1>2, <1>3 DEF RailInv

\* Every step keeps what the rail shows.
LEMMA RailStep == RailInv /\ [RailNext]_railVars => RailInv'
  <1> SUFFICES ASSUME RailInv, [RailNext]_railVars PROVE RailInv'
    OBVIOUS
  <1>t. RailTypeOK /\ PublishedInOrder /\ \A s \in Streams : Shows(rail[s], delivered[rail[s].turn], s \in subscribers)
    BY DEF RailInv
  <1>s. ASSUME NEW s \in Streams
        PROVE  /\ rail[s] \in StreamRecord /\ delivered[rail[s].turn] \in Seq(Frame)
               /\ rail[s].turn \in RailTurns /\ SentinelIsLast(rail[s].queue, FALSE)
    BY <1>t DEF RailTypeOK, StreamRecord, Shows, SentinelIsLast
  <1>1. ASSUME NEW t \in RailTurns, publish(t) PROVE RailInv'
    <2> DEFINE n == nextFrame[t]
               c == [turn |-> t, frame |-> n]
    <2>1. /\ n <= LastFrame /\ nextFrame' = [nextFrame EXCEPT ![t] = n + 1]
          /\ loopCalls' = loopCalls \/ loopCalls' = Append(loopCalls, c)
          /\ UNCHANGED <<rail, subscribers, railClosed, delivered>>
      BY <1>1, <1>t DEF publish, RailTypeOK
    <2>2. n \in Frame /\ c \in [turn : RailTurns, frame : Frame] /\ c.turn = t /\ c.frame = n
      BY <2>1, <1>t DEF RailTypeOK, Frame
    <2>3. RailTypeOK'
      <3>1. nextFrame' \in [RailTurns -> Nat]
        BY <2>1, <2>2, <1>t DEF RailTypeOK, Frame
      <3>2. loopCalls' \in Seq([turn : RailTurns, frame : Frame])
        <4>1. loopCalls \in Seq([turn : RailTurns, frame : Frame])
          BY <1>t DEF RailTypeOK
        <4> DEFINE Call == [turn : RailTurns, frame : Frame]
        <4>2. c \in Call /\ loopCalls \in Seq(Call)
          BY <4>1, <2>2
        <4> HIDE DEF c, Call
        <4>3. Append(loopCalls, c) \in Seq(Call)
          BY <4>2, AppendProperties
        <4>4. loopCalls' \in Seq(Call)
          BY <4>2, <4>3, <2>1
        <4> QED
          BY <4>4 DEF Call
      <3> QED
        BY <3>1, <3>2, <2>1, <1>t DEF RailTypeOK
    <2>4. \A u \in RailTurns : nextFrame[u] \in Nat /\ nextFrame[u] <= nextFrame'[u]
      BY <2>1, <1>t DEF RailTypeOK
    <2>5. ASSUME NEW u \in RailTurns
          PROVE  IsAscending(delivered'[u]) /\ \A j \in DOMAIN delivered'[u] : delivered'[u][j] < nextFrame'[u]
      <3>0. delivered[u] \in Seq(Frame) /\ DOMAIN delivered[u] = 1..Len(delivered[u])
        BY <1>t, LenProperties DEF RailTypeOK
      <3>1. \A j \in DOMAIN delivered[u] : delivered[u][j] \in Nat
        <4>1. \A j \in DOMAIN delivered[u] : delivered[u][j] \in Frame
          BY <3>0, ElementOfSeq
        <4> QED
          BY <4>1 DEF Frame
      <3>2. IsAscending(delivered[u]) /\ \A j \in DOMAIN delivered[u] : delivered[u][j] < nextFrame[u]
        BY <1>t DEF PublishedInOrder
      <3>3. nextFrame'[u] \in Nat /\ delivered' = delivered
        BY <2>1, <2>3 DEF RailTypeOK
      <3>4. \A j \in DOMAIN delivered[u] : delivered[u][j] < nextFrame'[u]
        BY <3>1, <3>2, <3>3, <2>4
      <3> QED
        BY <3>2, <3>3, <3>4
    <2>6. PublishedInOrder'
      <3>1. loopCalls \in Seq([turn : RailTurns, frame : Frame]) /\ DOMAIN loopCalls = 1..Len(loopCalls) /\ Len(loopCalls) \in Nat
        BY <1>t, LenProperties DEF RailTypeOK
      <3>2. \A i \in DOMAIN loopCalls : loopCalls[i].turn \in RailTurns /\ loopCalls[i].frame \in Nat
        <4>1. \A i \in DOMAIN loopCalls : loopCalls[i] \in [turn : RailTurns, frame : Frame]
          BY <3>1, ElementOfSeq
        <4> QED
          BY <4>1 DEF Frame
      <3>3. nextFrame'[t] = n + 1 /\ n \in Nat
        BY <2>1, <2>2, <1>t DEF RailTypeOK, Frame
      <3> DEFINE IsBehind(i, calls) ==
            /\ calls[i].frame < nextFrame'[calls[i].turn]
            /\ \A j \in DOMAIN delivered'[calls[i].turn] : delivered'[calls[i].turn][j] < calls[i].frame
            /\ \A j \in DOMAIN calls : (i < j /\ calls[i].turn = calls[j].turn) => calls[i].frame < calls[j].frame
      <3>4. ASSUME NEW i \in DOMAIN loopCalls PROVE IsBehind(i, loopCalls)
        <4>1. loopCalls[i].frame < nextFrame'[loopCalls[i].turn]
          <5>1. loopCalls[i].frame < nextFrame[loopCalls[i].turn]
            BY <1>t DEF PublishedInOrder
          <5>2. loopCalls[i].frame \in Nat /\ loopCalls[i].turn \in RailTurns
            BY <3>2
          <5>3. nextFrame'[loopCalls[i].turn] \in Nat
            BY <5>2, <2>3 DEF RailTypeOK
          <5> QED
            BY <5>1, <5>2, <5>3, <2>4
        <4> QED
          BY <4>1, <2>1, <1>t DEF PublishedInOrder
      <3>5. CASE loopCalls' = loopCalls
        BY <3>4, <3>5, <2>5 DEF PublishedInOrder
      <3>6. CASE loopCalls' = Append(loopCalls, c)
        <4> DEFINE k == Len(loopCalls)
                   calls == Append(loopCalls, c)
        <4>1. /\ Len(calls) = k + 1 /\ DOMAIN calls = 1..(k + 1) /\ calls[k + 1] = c
              /\ \A i \in 1..k : calls[i] = loopCalls[i]
          BY <3>1, <2>2, AppendProperties, LenProperties
        <4> HIDE DEF calls, c, n
        <4>2. ASSUME NEW i \in 1..(k + 1) PROVE IsBehind(i, calls)
          <5>1. CASE i = k + 1
            BY <5>1, <4>1, <2>1, <2>2, <3>1, <3>3, <1>t DEF PublishedInOrder, n
          <5>2. CASE i \in 1..k
            <6>1. IsBehind(i, loopCalls)
              BY <3>1, <3>4, <5>2
            <6>2. loopCalls[i].turn = t => loopCalls[i].frame < n
              BY <3>1, <5>2, <1>t DEF PublishedInOrder, n
            <6>3. \A j \in 1..(k + 1) : (i < j /\ calls[i].turn = calls[j].turn) => calls[i].frame < calls[j].frame
              BY <6>1, <6>2, <5>2, <4>1, <2>2, <3>1
            <6> QED
              BY <6>1, <6>3, <5>2, <4>1
          <5> QED
            BY <5>1, <5>2, <3>1
        <4>3. loopCalls' = calls
          BY <3>6 DEF calls, c, n
        <4> QED
          BY <4>1, <4>2, <4>3, <2>5 DEF PublishedInOrder
      <3> QED
        BY <3>5, <3>6, <2>1
    <2>7. \A s \in Streams : Shows(rail[s], delivered[rail[s].turn], s \in subscribers)'
      BY <2>1, <1>t
    <2> QED
      BY <2>3, <2>6, <2>7 DEF RailInv
  <1>2. CASE _deliver
    <2> DEFINE c == Head(loopCalls)
               listening == {s \in subscribers : rail[s].turn = c.turn}
               rest == Tail(loopCalls)
               k == Len(loopCalls)
    <2>1. /\ loopCalls # <<>> /\ loopCalls' = rest
          /\ rail' = [s \in Streams |-> IF s \in listening THEN Offered(rail[s], c.frame) ELSE rail[s]]
          /\ delivered' = [delivered EXCEPT ![c.turn] = Append(delivered[c.turn], c.frame)]
          /\ UNCHANGED <<subscribers, railClosed, nextFrame>>
      BY <1>2, <1>t DEF _deliver, RailTypeOK
    <2>2. /\ k \in Nat /\ k > 0 /\ c = loopCalls[1] /\ c \in [turn : RailTurns, frame : Frame]
          /\ rest \in Seq([turn : RailTurns, frame : Frame]) /\ DOMAIN rest = 1..(k - 1) /\ DOMAIN loopCalls = 1..k
          /\ \A i \in 1..(k - 1) : rest[i] = loopCalls[i + 1]
      <3> DEFINE Call == [turn : RailTurns, frame : Frame]
      <3>1. loopCalls \in Seq(Call)
        BY <1>t DEF RailTypeOK
      <3> HIDE DEF Call
      <3>2. k \in Nat /\ k > 0 /\ DOMAIN loopCalls = 1..k /\ 1 \in 1..Len(loopCalls)
        BY <3>1, <2>1, EmptySeq, LenProperties
      <3>3. rest \in Seq(Call) /\ Len(rest) = k - 1 /\ c \in Call /\ \A i \in 1..(k - 1) : rest[i] = loopCalls[i + 1]
        BY <3>1, <2>1, HeadTailProperties
      <3>4. DOMAIN rest = 1..(k - 1)
        BY <3>3, LenProperties
      <3>5. c = loopCalls[1]
        BY <3>1, <2>1
      <3> QED
        BY <3>2, <3>3, <3>4, <3>5 DEF Call
    <2> HIDE DEF c, rest, k
    <2>3. c.turn \in RailTurns /\ c.frame \in Frame /\ delivered[c.turn] \in Seq(Frame)
      BY <2>2, <1>t DEF RailTypeOK
    <2>4. IsAscending(delivered[c.turn]) /\ \A j \in DOMAIN delivered[c.turn] : delivered[c.turn][j] < c.frame
      <3>1. 1 \in DOMAIN loopCalls
        BY <2>2
      <3>2. \A i \in DOMAIN loopCalls :
              \A j \in DOMAIN delivered[loopCalls[i].turn] : delivered[loopCalls[i].turn][j] < loopCalls[i].frame
        BY <1>t DEF PublishedInOrder
      <3>3. \A j \in DOMAIN delivered[c.turn] : delivered[c.turn][j] < c.frame
        BY <3>1, <3>2, <2>2
      <3>4. \A t \in RailTurns : IsAscending(delivered[t])
        BY <1>t DEF PublishedInOrder
      <3> QED
        BY <3>3, <3>4, <2>3
    <2>5. ASSUME NEW s \in Streams
          PROVE  /\ rail'[s] \in StreamRecord /\ rail'[s].turn = rail[s].turn
                 /\ Shows(rail'[s], delivered'[rail'[s].turn], s \in subscribers)
      <3>1. CASE s \in listening
        <4>1. rail'[s] = Offered(rail[s], c.frame) /\ rail[s].turn = c.turn /\ (s \in subscribers) = TRUE
          BY <3>1, <2>1
        <4>2. Shows(rail[s], delivered[c.turn], TRUE)
          BY <4>1, <1>t
        <4>3. /\ Offered(rail[s], c.frame) \in StreamRecord /\ Offered(rail[s], c.frame).turn = rail[s].turn
              /\ Shows(Offered(rail[s], c.frame), Append(delivered[c.turn], c.frame), TRUE)
          BY <4>2, <1>s, <2>3, <2>4, HearsOne
        <4>4. delivered'[c.turn] = Append(delivered[c.turn], c.frame)
          BY <2>1, <2>3, <1>t DEF RailTypeOK
        <4> QED
          BY <4>1, <4>3, <4>4
      <3>2. CASE s \notin listening /\ rail[s].turn = c.turn
        <4>1. rail'[s] = rail[s] /\ (s \in subscribers) = FALSE
          BY <3>2, <2>1
        <4>2. Shows(rail[s], delivered[c.turn], FALSE)
          BY <4>1, <3>2, <1>t
        <4>3. Shows(rail[s], Append(delivered[c.turn], c.frame), FALSE)
          BY <4>2, <1>s, <2>3, MissesOne
        <4>4. delivered'[c.turn] = Append(delivered[c.turn], c.frame)
          BY <2>1, <2>3, <1>t DEF RailTypeOK
        <4> QED
          BY <4>1, <4>3, <4>4, <3>2, <1>s
      <3>3. CASE s \notin listening /\ rail[s].turn # c.turn
        <4>1. rail'[s] = rail[s] /\ delivered'[rail[s].turn] = delivered[rail[s].turn]
          BY <3>3, <2>1, <1>s, <1>t DEF RailTypeOK
        <4> QED
          BY <4>1, <1>t, <1>s
      <3> QED
        BY <3>1, <3>2, <3>3
    <2>6. RailTypeOK'
      <3>1. rail' \in [Streams -> StreamRecord]
        BY <2>1, <2>5
      <3>2. delivered' \in [RailTurns -> Seq(Frame)]
        BY <2>1, <2>3, <1>t DEF RailTypeOK
      <3> QED
        BY <3>1, <3>2, <2>1, <2>2, <1>t DEF RailTypeOK
    <2>7. PublishedInOrder'
      <3>1. \A i \in 1..k : loopCalls[i].turn \in RailTurns /\ loopCalls[i].frame \in Nat
        <4>1. \A i \in 1..k : loopCalls[i] \in [turn : RailTurns, frame : Frame]
          BY <2>2, <1>t, ElementOfSeq DEF RailTypeOK, k
        <4> QED
          BY <4>1 DEF Frame
      <3>2. ASSUME NEW u \in RailTurns
            PROVE  \/ delivered'[u] = delivered[u] /\ u # c.turn
                   \/ u = c.turn /\ delivered'[u] = Append(delivered[u], c.frame)
        BY <2>1, <2>3, <1>t DEF RailTypeOK
      <3> DEFINE D == delivered[c.turn]
                 E == Append(D, c.frame)
                 m == Len(D)
      <3>3. /\ m \in Nat /\ DOMAIN D = 1..m /\ DOMAIN E = 1..(m + 1) /\ E[m + 1] = c.frame
            /\ \A j \in 1..m : E[j] = D[j] /\ D[j] \in Nat
        <4>1. D \in Seq(Frame) /\ m \in Nat /\ DOMAIN D = 1..m
          BY <2>3, LenProperties
        <4>2. \A j \in 1..m : D[j] \in Nat
          <5>1. \A j \in 1..m : D[j] \in Frame
            BY <4>1, ElementOfSeq
          <5> QED
            BY <5>1 DEF Frame
        <4> HIDE DEF D
        <4>3. E \in Seq(Frame) /\ Len(E) = m + 1 /\ E[m + 1] = c.frame /\ \A j \in 1..m : E[j] = D[j]
          BY <4>1, <2>3, AppendProperties
        <4>4. DOMAIN E = 1..(m + 1)
          BY <4>3, LenProperties
        <4> QED
          BY <4>1, <4>2, <4>3, <4>4
      <3> HIDE DEF E, m
      <3>4. c.frame \in Nat /\ c.frame < nextFrame[c.turn]
        <4>1. 1 \in DOMAIN loopCalls
          BY <2>2
        <4>2. \A i \in DOMAIN loopCalls : loopCalls[i].frame < nextFrame[loopCalls[i].turn]
          BY <1>t DEF PublishedInOrder
        <4> QED
          BY <4>1, <4>2, <2>2, <2>3 DEF Frame
      <3>5. IsAscending(E) /\ \A j \in DOMAIN E : E[j] < nextFrame[c.turn]
        <4>1. \A i, j \in 1..m : i < j => D[i] < D[j]
          BY <2>4, <3>3 DEF IsAscending
        <4>2. \A j \in 1..m : D[j] < c.frame /\ D[j] < nextFrame[c.turn]
          BY <2>3, <2>4, <3>3, <1>t DEF PublishedInOrder
        <4>3. \A i \in 1..(m + 1) : i \in 1..m \/ i = m + 1
          BY <3>3
        <4>4. \A i, j \in 1..(m + 1) : i < j => E[i] < E[j]
          BY <4>1, <4>2, <4>3, <3>3
        <4> QED
          BY <4>2, <4>3, <4>4, <3>3, <3>4 DEF IsAscending
      <3>6. \A u \in RailTurns : IsAscending(delivered'[u]) /\ \A j \in DOMAIN delivered'[u] : delivered'[u][j] < nextFrame[u]
        BY <3>2, <3>5, <1>t DEF PublishedInOrder, E
      <3>7. ASSUME NEW i \in 1..(k - 1)
            PROVE  /\ rest[i].frame < nextFrame[rest[i].turn]
                   /\ \A j \in DOMAIN delivered'[rest[i].turn] : delivered'[rest[i].turn][j] < rest[i].frame
                   /\ \A j \in 1..(k - 1) :
                         (i < j /\ rest[i].turn = rest[j].turn) => rest[i].frame < rest[j].frame
        <4>1. i + 1 \in 1..k /\ rest[i] = loopCalls[i + 1] /\ 1 \in 1..k /\ 1 < i + 1
          BY <2>2
        <4>2. /\ rest[i].frame < nextFrame[rest[i].turn]
              /\ \A j \in DOMAIN delivered[rest[i].turn] : delivered[rest[i].turn][j] < rest[i].frame
          BY <4>1, <2>2, <1>t DEF PublishedInOrder
        <4>3. rest[i].turn = c.turn => c.frame < rest[i].frame
          BY <4>1, <2>2, <1>t DEF PublishedInOrder
        <4>4. \A j \in DOMAIN delivered'[rest[i].turn] : delivered'[rest[i].turn][j] < rest[i].frame
          <5>1. CASE rest[i].turn # c.turn
            BY <5>1, <4>1, <4>2, <3>1, <3>2
          <5>2. CASE rest[i].turn = c.turn
            <6>1. delivered'[rest[i].turn] = E
              BY <5>2, <2>3, <3>2 DEF E
            <6> QED
              BY <6>1, <5>2, <4>2, <4>3, <3>3
          <5> QED
            BY <5>1, <5>2
        <4>5. \A j \in 1..(k - 1) : (i < j /\ rest[i].turn = rest[j].turn) => rest[i].frame < rest[j].frame
          <5> SUFFICES ASSUME NEW j \in 1..(k - 1), i < j, rest[i].turn = rest[j].turn PROVE rest[i].frame < rest[j].frame
            OBVIOUS
          <5>1. j + 1 \in 1..k /\ rest[j] = loopCalls[j + 1] /\ i + 1 < j + 1
            BY <2>2
          <5> QED
            BY <5>1, <4>1, <2>2, <1>t DEF PublishedInOrder
        <4> QED
          BY <4>2, <4>4, <4>5
      <3> QED
        BY <3>6, <3>7, <2>1, <2>2 DEF PublishedInOrder
    <2>8. \A s \in Streams : Shows(rail[s], delivered[rail[s].turn], s \in subscribers)'
      BY <2>1, <2>5
    <2> QED
      BY <2>6, <2>7, <2>8 DEF RailInv
  <1>3. CASE close
    <2>1. /\ subscribers' = {} /\ railClosed' = TRUE
          /\ rail' = [s \in Streams |-> IF s \in subscribers THEN Offered(rail[s], Sentinel) ELSE rail[s]]
          /\ UNCHANGED <<loopCalls, nextFrame, delivered>>
      BY <1>3 DEF close
    <2>2. ASSUME NEW s \in Streams
          PROVE  /\ rail'[s] \in StreamRecord /\ rail'[s].turn = rail[s].turn
                 /\ Shows(rail'[s], delivered[rail[s].turn], FALSE)
      <3>1. CASE s \in subscribers
        <4>1. rail'[s] = Offered(rail[s], Sentinel) /\ (s \in subscribers) = TRUE
          BY <3>1, <2>1
        <4>2. Shows(rail[s], delivered[rail[s].turn], TRUE)
          BY <4>1, <1>t
        <4> QED
          BY <4>1, <4>2, <1>s, HearsTheEnd
      <3>2. CASE s \notin subscribers
        <4>1. rail'[s] = rail[s] /\ (s \in subscribers) = FALSE
          BY <3>2, <2>1
        <4> QED
          BY <4>1, <1>t, <1>s
      <3> QED
        BY <3>1, <3>2
    <2>3. RailTypeOK'
      BY <2>1, <2>2, <1>t DEF RailTypeOK
    <2>4. PublishedInOrder'
      BY <2>1, <1>t DEF PublishedInOrder
    <2>5. \A s \in Streams : (s \in subscribers') = FALSE
      BY <2>1
    <2>6. \A s \in Streams : Shows(rail[s], delivered[rail[s].turn], s \in subscribers)'
      BY <2>1, <2>2, <2>5
    <2> QED
      BY <2>3, <2>4, <2>6 DEF RailInv
  <1>4. ASSUME NEW s \in Streams, subscribe(s) PROVE RailInv'
    <2> DEFINE r == rail[s]
               n == Len(delivered[r.turn])
               o == [r EXCEPT !.at = "open", !.joined = n]
    <2>1. /\ r.at = "new" /\ rail' = [rail EXCEPT ![s] = o] /\ subscribers' = subscribers \cup {s}
          /\ UNCHANGED <<railClosed, loopCalls, nextFrame, delivered>>
      BY <1>4, <1>s, <1>t DEF subscribe, RailTypeOK, StreamRecord
    <2>2. n \in Nat
      BY <1>s, LenProperties
    <2> HIDE DEF n
    <2>3. /\ o \in StreamRecord /\ o.turn = r.turn /\ o.at = "open" /\ o.joined = n
          /\ o.queue = r.queue /\ o.out = r.out
      BY <2>2, <1>s DEF StreamRecord
    <2> HIDE DEF o
    <2>4. r.out = <<>> /\ r.queue = <<>>
      BY <2>1, <1>t DEF Shows
    <2>5. Shown(o) = <<>>
      <3>1. Frames(<<>>) = <<>>
        BY DEF Frames
      <3> QED
        BY <2>3, <2>4, <3>1 DEF Shown
    <2>6. /\ IsAscending(<<>>) /\ AllOf(<<>>, delivered[r.turn]) /\ SentinelIsLast(<<>>, TRUE) /\ Len(<<>>) = 0
          /\ After(<<>>, delivered[r.turn], n)
      BY <2>2 DEF IsAscending, AllOf, SentinelIsLast, After, n
    <2>7. Shows(o, delivered[r.turn], TRUE)
      <3>1. o.joined <= Len(delivered[r.turn]) /\ o.joined + 0 = Len(delivered[r.turn])
        BY <2>2, <2>3 DEF n
      <3>2. AllOf(Shown(o), delivered[r.turn]) /\ IsAscending(Shown(o)) /\ Len(Shown(o)) = 0
        BY <2>5, <2>6
      <3>3. After(Shown(o), delivered[r.turn], o.joined) /\ SentinelIsLast(o.queue, TRUE)
        BY <2>3, <2>4, <2>5, <2>6
      <3> QED
        BY <2>3, <3>1, <3>2, <3>3 DEF Shows
    <2>8. Shows(o, delivered[o.turn], s \in subscribers')
      BY <2>1, <2>3, <2>7
    <2> QED
      BY <2>1, <2>3, <2>8, OneStreamMoves
  <1>5. ASSUME NEW s \in Streams, NEW o \in StreamRecord, rail[s].at = "open",
               o.turn = rail[s].turn, o.joined = rail[s].joined, rail[s].short => o.short,
               Shown(o) = Shown(rail[s]), SentinelIsLast(o.queue, FALSE),
               EndStream(s, o), UNCHANGED <<railClosed, loopCalls, nextFrame, delivered>>
        PROVE  RailInv'
    <2> DEFINE e == [o EXCEPT !.at = "ended"]
    <2>1. rail' = [rail EXCEPT ![s] = e] /\ subscribers' = subscribers \ {s}
      BY <1>5 DEF EndStream
    <2>2. /\ e \in StreamRecord /\ e.turn = o.turn /\ e.at = "ended" /\ e.joined = o.joined /\ e.short = o.short
          /\ e.queue = o.queue /\ e.out = o.out
      BY DEF StreamRecord
    <2> HIDE DEF e
    <2>3. Shown(e) = Shown(o)
      BY <2>2 DEF Shown
    <2>4. Shows(e, delivered[rail[s].turn], FALSE)
      <3>1. (s \in subscribers) \in BOOLEAN /\ FALSE \in BOOLEAN
        OBVIOUS
      <3>2. rail[s] \in StreamRecord /\ delivered[rail[s].turn] \in Seq(Frame)
        BY <1>s
      <3>3. Shows(rail[s], delivered[rail[s].turn], s \in subscribers)
        BY <1>t
      <3>4. /\ rail[s].at # "new" /\ e.at # "new" /\ e.joined = rail[s].joined
            /\ rail[s].short => e.short
            /\ Shown(e) = Shown(rail[s]) /\ SentinelIsLast(e.queue, FALSE)
        BY <1>5, <2>2, <2>3
      <3> QED
        BY <2>2, <3>1, <3>2, <3>3, <3>4, ShowsTheSame
    <2>5. Shows(e, delivered[e.turn], s \in subscribers')
      <3>1. (s \in subscribers') = FALSE
        BY <2>1
      <3>2. e.turn = rail[s].turn
        BY <1>5, <2>2
      <3> QED
        BY <2>4, <3>1, <3>2
    <2> QED
      BY <1>5, <2>1, <2>2, <2>5, OneStreamMoves
  <1>6. ASSUME NEW s \in Streams, TakeItem(s) PROVE RailInv'
    <2> DEFINE r == rail[s]
               item == Head(r.queue)
               taken == [r EXCEPT !.queue = Tail(r.queue)]
               sent == [taken EXCEPT !.out = Append(r.out, item)]
    <2>1. /\ r.at = "open" /\ r.queue # <<>>
          /\ UNCHANGED <<railClosed, loopCalls, nextFrame, delivered>>
      BY <1>6 DEF TakeItem, InTime, Resumed
    <2>2. /\ item = Sentinel => EndStream(s, taken)
          /\ item # Sentinel => \/ EndStream(s, sent)
                                \/ rail' = [rail EXCEPT ![s] = sent] /\ UNCHANGED subscribers
      BY <1>6, <1>s DEF TakeItem, StreamRecord
    <2>3. r.queue \in Seq(Items) /\ r.out \in Seq(Frame) /\ SentinelIsLast(r.queue, s \in subscribers)
      BY <1>s, <1>t DEF StreamRecord, Items, Shows
    <2>4. /\ Tail(r.queue) \in Seq(Items) /\ SentinelIsLast(Tail(r.queue), s \in subscribers)
          /\ SentinelIsLast(Tail(r.queue), FALSE)
          /\ item = Sentinel => r.out \o Frames(Tail(r.queue)) = r.out \o Frames(r.queue)
          /\ item # Sentinel => /\ Append(r.out, item) \in Seq(Frame)
                                /\ Append(r.out, item) \o Frames(Tail(r.queue)) = r.out \o Frames(r.queue)
      <3>1. (s \in subscribers) \in BOOLEAN
        OBVIOUS
      <3> QED
        BY <2>1, <2>3, <3>1, FramesOfTail DEF SentinelIsLast
    <2>5. /\ taken \in StreamRecord /\ taken.turn = r.turn /\ taken.at = "open" /\ taken.joined = r.joined
          /\ taken.short = r.short /\ taken.queue = Tail(r.queue) /\ taken.out = r.out
      BY <2>1, <2>4, <1>s DEF StreamRecord, Items
    <2>6. item # Sentinel =>
            /\ sent \in StreamRecord /\ sent.turn = r.turn /\ sent.at = "open" /\ sent.joined = r.joined
            /\ sent.short = r.short /\ sent.queue = Tail(r.queue) /\ sent.out = Append(r.out, item)
      <3> HIDE DEF taken
      <3> QED
        BY <2>4, <2>5 DEF StreamRecord
    <2> HIDE DEF taken, sent, item
    <2>7. item = Sentinel => Shown(taken) = Shown(r)
      BY <2>4, <2>5 DEF Shown
    <2>8. item # Sentinel => Shown(sent) = Shown(r)
      BY <2>4, <2>6 DEF Shown
    <2>9. CASE item = Sentinel
      BY <2>1, <2>2, <2>4, <2>5, <2>7, <2>9, <1>5
    <2>10. CASE item # Sentinel /\ EndStream(s, sent)
      BY <2>1, <2>2, <2>4, <2>6, <2>8, <2>10, <1>5
    <2>11. CASE item # Sentinel /\ rail' = [rail EXCEPT ![s] = sent] /\ UNCHANGED subscribers
      <3>1. rail' = [rail EXCEPT ![s] = sent] /\ subscribers' = subscribers
        BY <2>11
      <3>2. (s \in subscribers) \in BOOLEAN
        OBVIOUS
      <3>3. Shows(sent, delivered[r.turn], s \in subscribers)
        BY <2>1, <2>4, <2>6, <2>8, <2>11, <3>2, <1>s, <1>t, ShowsTheSame
      <3>4. Shows(sent, delivered[sent.turn], s \in subscribers')
        BY <2>6, <2>11, <3>1, <3>3
      <3> QED
        BY <2>1, <2>6, <2>11, <3>1, <3>4, OneStreamMoves
    <2> QED
      BY <2>2, <2>9, <2>10, <2>11
  <1>b. ASSUME NEW s \in Streams, NEW n \in Nat, rail[s].at = "open",
               rail' = [rail EXCEPT ![s].beats = n], UNCHANGED subscribers,
               UNCHANGED <<railClosed, loopCalls, nextFrame, delivered>>
        PROVE  RailInv'
    <2> DEFINE r == rail[s]
               o == [r EXCEPT !.beats = n]
    <2>1. /\ r.at = "open" /\ rail' = [rail EXCEPT ![s] = o] /\ subscribers' = subscribers
          /\ UNCHANGED <<railClosed, loopCalls, nextFrame, delivered>>
      BY <1>b, <1>t DEF RailTypeOK, StreamRecord
    <2>2. /\ o \in StreamRecord /\ o.turn = r.turn /\ o.at = "open" /\ o.joined = r.joined /\ o.short = r.short
          /\ o.queue = r.queue /\ o.out = r.out
      BY <2>1, <1>s DEF StreamRecord
    <2> HIDE DEF o
    <2>3. Shown(o) = Shown(r)
      BY <2>2 DEF Shown
    <2>4. (s \in subscribers) \in BOOLEAN /\ SentinelIsLast(o.queue, s \in subscribers)
      BY <2>2, <1>t DEF Shows
    <2>5. Shows(o, delivered[r.turn], s \in subscribers)
      BY <2>1, <2>2, <2>3, <2>4, <1>s, <1>t, ShowsTheSame
    <2>6. Shows(o, delivered[o.turn], s \in subscribers')
      BY <2>1, <2>2, <2>5
    <2> QED
      BY <2>1, <2>2, <2>6, OneStreamMoves
  <1>7. ASSUME NEW s \in Streams, KeepAlive(s) PROVE RailInv'
    <2> DEFINE b == rail[s].beats
               n == b + 1
    <2>1. n \in Nat
      <3>1. b \in Nat
        BY <1>s DEF StreamRecord
      <3> HIDE DEF b
      <3> QED
        BY <3>1
    <2>2. rail[s].at = "open" /\ rail' = [rail EXCEPT ![s].beats = n] /\ UNCHANGED subscribers
      BY <1>7, <1>t DEF KeepAlive, InTime, Resumed, RailTypeOK, StreamRecord
    <2> HIDE DEF n
    <2>3. UNCHANGED <<railClosed, loopCalls, nextFrame, delivered>>
      BY <1>7 DEF KeepAlive
    <2> QED
      BY <2>1, <2>2, <2>3, <1>b
  <1>8. ASSUME NEW s \in Streams, Expire(s) PROVE RailInv'
    <2>1. /\ rail[s].at = "open" /\ EndStream(s, rail[s])
          /\ UNCHANGED <<railClosed, loopCalls, nextFrame, delivered>>
      BY <1>8 DEF Expire, Resumed
    <2> QED
      BY <2>1, <1>s, <1>5
  <1>9. ASSUME NEW s \in Streams, Disconnect(s) PROVE RailInv'
    <2> DEFINE r == rail[s]
               o == [r EXCEPT !.short = TRUE]
    <2>1. /\ r.at = "open" /\ EndStream(s, o)
          /\ UNCHANGED <<railClosed, loopCalls, nextFrame, delivered>>
      BY <1>9 DEF Disconnect
    <2>2. /\ o \in StreamRecord /\ o.turn = r.turn /\ o.joined = r.joined /\ o.short /\ o.queue = r.queue /\ o.out = r.out
      BY <1>s DEF StreamRecord
    <2> HIDE DEF o
    <2>3. Shown(o) = Shown(r)
      BY <2>2 DEF Shown
    <2> QED
      BY <2>1, <2>2, <2>3, <1>s, <1>5
  <1>10. CASE UNCHANGED <<rail, subscribers, railClosed, loopCalls, nextFrame, delivered>>
    <2>1. RailTypeOK' /\ PublishedInOrder'
      BY <1>10, <1>t DEF RailTypeOK, PublishedInOrder
    <2>2. \A s \in Streams : Shows(rail[s], delivered[rail[s].turn], s \in subscribers)'
      BY <1>10, <1>t
    <2> QED
      BY <2>1, <2>2 DEF RailInv
  <1>11. ASSUME NEW s \in Streams, NEW late \in BOOLEAN, ReadAgain(s, late) PROVE RailInv'
    <2>1. rail[s].at = "open" /\ UNCHANGED <<railClosed, loopCalls, nextFrame, delivered>>
      BY <1>11 DEF ReadAgain
    <2>2. CASE EndStream(s, rail[s])
      BY <2>1, <2>2, <1>s, <1>5
    <2>3. CASE rail' = [rail EXCEPT ![s].beats = MaxBeats] /\ UNCHANGED subscribers
      BY <2>1, <2>3, <1>b, RailConstants
    <2>4. CASE UNCHANGED <<rail, subscribers>>
      <3>1. UNCHANGED <<rail, subscribers, railClosed, loopCalls, nextFrame, delivered>>
        BY <2>1, <2>4
      <3> QED
        BY <3>1, <1>10
    <2> QED
      BY <1>11, <2>2, <2>3, <2>4 DEF ReadAgain
  <1> QED
    BY <1>1, <1>2, <1>3, <1>4, <1>6, <1>7, <1>8, <1>9, <1>10, <1>11 DEF RailNext, ReadRail, railVars

-----------------------------------------------------------------------------
\* The invariant says what a browser sees.
LEMMA WhatTheRailShows == RailInv => RailShowsTheTurn
  <1> SUFFICES ASSUME RailInv, NEW s \in Streams
               PROVE LET r == rail[s]
                         frames == r.out \o Frames(r.queue)
                     IN  /\ Sentinel \notin {frames[i] : i \in DOMAIN frames}
                         /\ IsAscending(frames)
                         /\ \A i \in DOMAIN frames : \E j \in DOMAIN delivered[r.turn] : delivered[r.turn][j] = frames[i]
                         /\ (r.at = "open" /\ ~r.short /\ s \in subscribers) => frames = Heard(r)
                         /\ (r.at = "ended" /\ r.out # <<>> /\ r.out[Len(r.out)] = LastFrame /\ ~r.short)
                               => r.out = Heard(r)
    BY DEF RailShowsTheTurn, ShownToTheEnd
  <1> DEFINE r == rail[s]
             f == Shown(r)
             D == delivered[r.turn]
             H == SubSeq(D, r.joined + 1, Len(D))
  <1>1. r \in StreamRecord /\ D \in Seq(Frame) /\ r.out \in Seq(Frame) /\ r.joined \in Nat /\ r.turn \in RailTurns
    BY DEF RailInv, RailTypeOK, StreamRecord
  <1>2. Shows(r, D, s \in subscribers)
    BY DEF RailInv
  <1>3. SentinelIsLast(r.queue, FALSE)
    BY <1>2 DEF Shows, SentinelIsLast
  <1>4. f \in Seq(Frame) /\ Len(f) \in Nat /\ DOMAIN f = 1..Len(f)
    BY <1>1, <1>3, ShownType, LenProperties
  <1>5. Len(D) \in Nat /\ DOMAIN D = 1..Len(D) /\ (\A j \in 1..Len(D) : D[j] \in Frame) /\ r.joined <= Len(D)
    BY <1>1, <1>2, LenProperties, ElementOfSeq DEF Shows
  <1>6. Sentinel \notin {f[i] : i \in DOMAIN f}
    <2>1. \A i \in 1..Len(f) : f[i] \in Frame
      BY <1>4, ElementOfSeq
    <2> QED
      BY <2>1, <1>4, ItemsAreInts
  <1>7. IsAscending(f) /\ \A i \in DOMAIN f : \E j \in DOMAIN D : D[j] = f[i]
    BY <1>2 DEF Shows, AllOf
  <1>8. /\ H \in Seq(Frame) /\ Len(H) = Len(D) - r.joined
        /\ \A i \in 1..(Len(D) - r.joined) : H[i] = D[r.joined + i]
    <2> DEFINE a == r.joined + 1
               b == Len(D)
    <2>1. a \in Int /\ b \in Int /\ a >= 1 /\ b + 1 >= a /\ b - a + 1 = b - r.joined
      BY SMTT(20), <1>1, <1>5
    <2>2. \A i \in a..b : D[i] \in Frame
      BY <2>1, <1>5
    <2>3. \A i \in 1..(b - r.joined) : a + i - 1 = r.joined + i
      BY <1>1
    <2> HIDE DEF D, r, a, b
    <2>4. /\ SubSeq(D, a, b) \in Seq(Frame)
          /\ Len(SubSeq(D, a, b)) = IF a <= b THEN b - a + 1 ELSE 0
          /\ \A i \in 1..(b - a + 1) : SubSeq(D, a, b)[i] = D[a + i - 1]
      BY <2>1, <2>2, SubSeqProperties
    <2>5. Len(SubSeq(D, a, b)) = b - r.joined
      BY <2>1, <2>4, <1>1
    <2> QED
      BY <2>1, <2>3, <2>4, <2>5 DEF a, b
  <1> HIDE DEF H
  <1>9. ASSUME r.at = "open", ~r.short, s \in subscribers PROVE f = H
    <2>1. r.joined + Len(f) = Len(D) /\ \A i \in DOMAIN f : f[i] = D[r.joined + i]
      BY <1>2, <1>9 DEF Shows, After
    <2> HIDE DEF f, D, r
    <2>2. Len(f) = Len(H) /\ \A i \in 1..Len(f) : f[i] = H[i]
      <3>1. Len(f) = Len(H)
        BY <2>1, <1>1, <1>4, <1>5, <1>8
      <3>2. ASSUME NEW i \in 1..Len(f) PROVE f[i] = H[i]
        <4>1. i \in DOMAIN f /\ i \in 1..(Len(D) - r.joined)
          BY <3>1, <1>4, <1>8
        <4> QED
          BY <4>1, <2>1, <1>8
      <3> QED
        BY <3>1, <3>2
    <2> QED
      BY <2>2, <1>4, <1>8, SeqEqual
  <1>10. ASSUME r.at = "ended", r.out # <<>>, r.out[Len(r.out)] = LastFrame, ~r.short PROVE r.out = H
    <2> DEFINE n == Len(r.out)
    <2>1. n \in Nat /\ n > 0
      BY <1>1, <1>10, EmptySeq
    <2>2. n <= Len(f) /\ \A i \in 1..n : f[i] = r.out[i]
      <3>1. Frames(r.queue) \in Seq(Frame)
        BY <1>1, <1>3, FramesType DEF StreamRecord, Items
      <3>2. Len(Frames(r.queue)) \in Nat
        BY <3>1, LenProperties
      <3>3. /\ Len(r.out \o Frames(r.queue)) = n + Len(Frames(r.queue))
            /\ \A i \in 1..(n + Len(Frames(r.queue))) :
                  (r.out \o Frames(r.queue))[i] = IF i <= n THEN r.out[i] ELSE Frames(r.queue)[i - n]
        BY <1>1, <3>1, ConcatProperties
      <3> DEFINE fq == Frames(r.queue)
                 w == r.out \o fq
      <3>4. Len(fq) \in Nat /\ Len(w) = n + Len(fq)
            /\ \A i \in 1..(n + Len(fq)) : w[i] = IF i <= n THEN r.out[i] ELSE fq[i - n]
        BY <3>2, <3>3
      <3>5. f = w
        BY DEF Shown
      <3> HIDE DEF w, fq, f, r, n
      <3>6. n <= Len(w) /\ \A i \in 1..n : i \in 1..(n + Len(fq)) /\ i <= n
        BY <2>1, <3>4
      <3> QED
        BY <3>4, <3>5, <3>6
    <2>3. r.joined + Len(f) <= Len(D) /\ \A i \in DOMAIN f : f[i] = D[r.joined + i]
      BY <1>2, <1>10 DEF Shows, After
    <2>4. IsAscending(D)
      BY <1>1 DEF RailInv, PublishedInOrder
    <2> HIDE DEF f, D, n
    <2>5. D[r.joined + n] = LastFrame /\ r.joined + n \in 1..Len(D)
      <3>1. n \in 1..n /\ n \in 1..Len(f)
        BY <2>1, <2>2, <1>4
      <3>2. f[n] = LastFrame
        BY <3>1, <2>2, <1>10 DEF n
      <3>3. D[r.joined + n] = LastFrame
        BY <3>1, <3>2, <2>3, <1>4
      <3>4. r.joined + n <= Len(D) /\ r.joined + n >= 1
        BY <2>1, <2>2, <2>3, <1>1, <1>4, <1>5
      <3> QED
        BY <3>3, <3>4, <2>1, <1>1, <1>5
    <2>6. r.joined + n = Len(D)
      <3>1. ASSUME r.joined + n < Len(D) PROVE FALSE
        <4>1. Len(D) \in 1..Len(D) /\ D[r.joined + n] < D[Len(D)]
          BY <3>1, <2>4, <2>5, <1>5 DEF IsAscending
        <4>2. D[Len(D)] \in 0..LastFrame
          BY <4>1, <1>5 DEF Frame
        <4> QED
          BY <4>1, <4>2, <2>5, RailConstants
      <3> QED
        BY <3>1, <2>5, <1>5, <1>1, <2>1
    <2>7. \A i \in 1..n : r.out[i] = H[i]
      <3> SUFFICES ASSUME NEW i \in 1..n PROVE r.out[i] = H[i]
        OBVIOUS
      <3>1. i \in 1..Len(f) /\ i \in 1..(Len(D) - r.joined)
        BY <2>1, <2>2, <2>6, <1>1, <1>4, <1>5
      <3>2. f[i] = r.out[i] /\ f[i] = D[r.joined + i] /\ H[i] = D[r.joined + i]
        BY <3>1, <2>2, <2>3, <1>4, <1>8
      <3> QED
        BY <3>2
    <2>8. Len(r.out) = Len(H)
      BY <2>1, <2>6, <1>1, <1>5, <1>8 DEF n
    <2> QED
      BY <2>7, <2>8, <1>1, <1>8, SeqEqual DEF n
  <1>11. Heard(r) = H /\ r.out \o Frames(r.queue) = f
    BY DEF Heard, H, Shown
  <1> QED
    BY <1>6, <1>7, <1>9, <1>10, <1>11

(***************************************************************************)
(* The rail shows the frames of its turn in order and once, and all that   *)
(* were delivered while a stream that lost none was there (SpanBroker      *)
(* and stream()), for any number of turns, streams, frames and any queue.  *)
(***************************************************************************)
THEOREM RailIsTrue == RailInit /\ [][RailNext]_railVars => []RailShowsTheTurn
  BY WhatTheRailShows, RailInitially, RailStep, PTL

-----------------------------------------------------------------------------
(* The rate limiter.  What is held for a browser is the end of what it was  *)
(* let through, and all that is not held is outside the window.             *)
Rising(D) == \A i, j \in DOMAIN D : i <= j => D[i] <= D[j]

OldUpTo(D, m) == \A i \in 1..m : Old(D[i])

IsRestOf(w, D, m) == m + Len(w) = Len(D) /\ \A i \in 1..Len(w) : w[i] = D[m + i]

HoldsTheRecent(held, b) ==
    /\ b \in DOMAIN held =>
          /\ held[b] \in Seq(Nat) /\ held[b] # <<>>
          /\ \E m \in Nat : IsRestOf(held[b], admitted[b], m) /\ OldUpTo(admitted[b], m)
    /\ b \notin DOMAIN held => OldUpTo(admitted[b], Len(admitted[b]))

GateTypeOK ==
    /\ clock \in Nat
    /\ _swept_at \in Int /\ _swept_at <= clock
    /\ admitted \in [Browsers -> Seq(Nat)]
    /\ DOMAIN _hits \subseteq Browsers

AdmittedInOrder ==
    \A b \in Browsers : Rising(admitted[b]) /\ \A i \in DOMAIN admitted[b] : admitted[b][i] <= clock

SweptSinceItsLast == \A k \in DOMAIN _hits : _swept_at - _hits[k][Len(_hits[k])] <= RateWindow

GateInv ==
    /\ GateTypeOK
    /\ AdmittedInOrder
    /\ \A b \in Browsers : HoldsTheRecent(_hits, b) /\ Counting(b) <= PerMinute
    /\ SweptSinceItsLast

\* A set of numbers that is not empty has a first.
LEMMA FirstOfAll ==
  ASSUME NEW S \in SUBSET Nat, S # {}
  PROVE  \E m \in S : \A n \in S : m <= n
  <1>1. PICK m \in S : \A n \in S : ~(<<n, m>> \in OpToRel(<, Nat))
    BY NatLessThanWellFounded, WFMin
  <1>2. \A n \in S : ~(n < m)
    BY <1>1 DEF OpToRel
  <1> QED
    BY <1>2

\* What allow leaves of a window begins with the first moment that is not old.
LEMMA WhereTheWindowBegins ==
  ASSUME NEW w \in Seq(Nat)
  PROVE  /\ FirstFresh(w) \in 1..(Len(w) + 1)
         /\ OldUpTo(w, FirstFresh(w) - 1)
         /\ FirstFresh(w) <= Len(w) => ~Old(w[FirstFresh(w)])
  <1> DEFINE S == {n \in 1..(Len(w) + 1) : n <= Len(w) => ~Old(w[n])}
  <1>1. Len(w) \in Nat
    BY LenProperties
  <1>2. Len(w) + 1 \in S /\ S \in SUBSET Nat
    BY <1>1
  <1>3. PICK m \in S : \A n \in S : m <= n
    BY <1>2, FirstOfAll
  <1>4. m \in 1..(Len(w) + 1) /\ (m <= Len(w) => ~Old(w[m]))
    BY <1>3
  <1>5. \A i \in 1..(m - 1) : Old(w[i])
    <2> SUFFICES ASSUME NEW i \in 1..(m - 1), ~Old(w[i]) PROVE FALSE
      OBVIOUS
    <2>1. i \in 1..(Len(w) + 1) /\ i < m
      BY <1>1, <1>4
    <2>2. i \in S
      BY <2>1
    <2> QED
      BY <2>1, <2>2, <1>3, <1>4
  <1>6. \E n \in 1..(Len(w) + 1) :
           /\ \A i \in 1..(n - 1) : Old(w[i])
           /\ n <= Len(w) => ~Old(w[n])
    BY <1>4, <1>5
  <1> QED
    BY <1>6 DEF FirstFresh, OldUpTo

\* The window allow counts is what was let through and still is in the window.
LEMMA WhatIsPruned ==
  ASSUME GateTypeOK, AdmittedInOrder, NEW held, NEW b \in Browsers, HoldsTheRecent(held, b)
  PROVE  /\ Pruned(held, b) \in Seq(Nat)
         /\ \E m \in Nat : /\ IsRestOf(Pruned(held, b), admitted[b], m) /\ OldUpTo(admitted[b], m)
                           /\ \A i \in (m + 1)..Len(admitted[b]) : ~Old(admitted[b][i])
  <1> DEFINE D == admitted[b]
             l == Len(D)
  <1>1. D \in Seq(Nat) /\ l \in Nat /\ DOMAIN D = 1..l
    BY LenProperties DEF GateTypeOK
  <1>2. CASE b \notin DOMAIN held
    <2>1. Pruned(held, b) = <<>> /\ OldUpTo(D, l)
      BY <1>2 DEF Pruned, HoldsTheRecent
    <2>2. <<>> \in Seq(Nat) /\ Len(<<>>) = 0
      BY EmptySeq
    <2>3. IsRestOf(<<>>, D, l) /\ \A i \in (l + 1)..l : ~Old(D[i])
      BY <1>1, <2>2 DEF IsRestOf
    <2> QED
      BY <1>1, <2>1, <2>2, <2>3
  <1>3. CASE b \in DOMAIN held
    <2> DEFINE w == held[b]
               n == FirstFresh(w)
               p == SubSeq(w, n, Len(w))
    <2>1. w \in Seq(Nat) /\ Pruned(held, b) = p
      BY <1>3 DEF HoldsTheRecent, Pruned, Popped
    <2>2. PICK k \in Nat : IsRestOf(w, D, k) /\ OldUpTo(D, k)
      BY <1>3 DEF HoldsTheRecent
    <2>3. n \in 1..(Len(w) + 1) /\ OldUpTo(w, n - 1) /\ (n <= Len(w) => ~Old(w[n]))
      BY <2>1, WhereTheWindowBegins
    <2>4. Len(w) \in Nat /\ DOMAIN w = 1..Len(w)
      BY <2>1, LenProperties
    <2>5. k + Len(w) = l /\ \A i \in 1..Len(w) : w[i] = D[k + i]
      BY <2>2 DEF IsRestOf
    <2> DEFINE v == Len(w)
               m == k + (n - 1)
    <2>6. /\ p \in Seq(Nat) /\ Len(p) = v + 1 - n
          /\ \A i \in 1..(v + 1 - n) : p[i] = w[n + i - 1]
      <3>1. \A i \in n..v : w[i] \in Nat
        BY SMTT(20), <2>1, <2>3, <2>4, ElementOfSeq
      <3>2. n \in Int /\ v \in Int /\ n <= v + 1
        BY <2>3, <2>4
      <3> HIDE DEF n, w, v
      <3>3. /\ SubSeq(w, n, v) \in Seq(Nat)
            /\ Len(SubSeq(w, n, v)) = IF n <= v THEN v - n + 1 ELSE 0
            /\ \A i \in 1..(v - n + 1) : SubSeq(w, n, v)[i] = w[n + i - 1]
        BY <3>1, <3>2, SubSeqProperties
      <3>4. Len(SubSeq(w, n, v)) = v + 1 - n /\ v - n + 1 = v + 1 - n
        BY <3>2, <3>3
      <3> QED
        BY <3>3, <3>4 DEF v
    <2> HIDE DEF p, n, w, D, l
    <2>7. m \in Nat /\ v \in Nat /\ n \in Int /\ n >= 1 /\ n <= v + 1
      BY <2>3, <2>4
    <2>8. IsRestOf(p, D, m)
      <3>1. m + Len(p) = l
        <4>1. k + v = l /\ Len(p) = v + 1 - n /\ n \in Int /\ v \in Int /\ k \in Int
          BY <2>5, <2>6, <2>7
        <4> HIDE DEF v
        <4> QED
          BY <4>1
      <3>2. ASSUME NEW i \in 1..Len(p) PROVE p[i] = D[m + i]
        <4>1. i \in 1..(v + 1 - n) /\ n + i - 1 \in 1..v /\ k + (n + i - 1) = m + i
          BY <2>6, <2>7
        <4>2. p[i] = w[n + i - 1] /\ w[n + i - 1] = D[k + (n + i - 1)]
          BY <4>1, <2>5, <2>6
        <4> QED
          BY <4>1, <4>2
      <3> QED
        BY <3>1, <3>2 DEF IsRestOf, l
    <2>9. OldUpTo(D, m)
      <3> SUFFICES ASSUME NEW i \in 1..m PROVE Old(D[i])
        BY DEF OldUpTo
      <3>1. CASE i <= k
        <4>1. i \in 1..k
          BY <3>1
        <4> QED
          BY <4>1, <2>2 DEF OldUpTo
      <3>2. CASE i > k
        <4>1. i - k \in 1..(n - 1) /\ i - k \in 1..v /\ k + (i - k) = i
          BY <3>2, <2>7
        <4>2. Old(w[i - k]) /\ w[i - k] = D[k + (i - k)]
          BY <4>1, <2>3, <2>5 DEF OldUpTo
        <4> QED
          BY <4>1, <4>2
      <3> QED
        BY <3>1, <3>2, <2>7
    <2>10. ASSUME NEW i \in (m + 1)..l PROVE ~Old(D[i])
      <3>1. i \in 1..l /\ m + 1 \in 1..l /\ m + 1 <= i /\ n <= v /\ n \in 1..v /\ k + n = m + 1
        BY <2>5, <2>7, <1>1
      <3>2. ~Old(D[m + 1])
        BY <3>1, <2>3, <2>5
      <3>3. D[m + 1] <= D[i] /\ D[i] \in Nat /\ D[m + 1] \in Nat
        <4>1. Rising(D)
          BY DEF AdmittedInOrder, D
        <4>2. D[i] \in Nat /\ D[m + 1] \in Nat
          BY <3>1, <1>1, ElementOfSeq DEF l
        <4> QED
          BY <4>1, <4>2, <3>1, <1>1 DEF Rising
      <3> QED
        BY <3>2, <3>3, GateConstants DEF Old, GateTypeOK
    <2> QED
      BY <2>1, <2>6, <2>7, <2>8, <2>9, <2>10 DEF D, l
  <1> QED
    BY <1>2, <1>3

\* So the length of the window is the number of requests that count.
LEMMA WindowIsTheCount ==
  ASSUME GateTypeOK, NEW b \in Browsers, NEW w \in Seq(Nat), NEW m \in Nat,
         IsRestOf(w, admitted[b], m), OldUpTo(admitted[b], m),
         \A i \in (m + 1)..Len(admitted[b]) : ~Old(admitted[b][i])
  PROVE  Counting(b) = Len(w) /\ Counting(b) \in Nat
  <1> DEFINE D == admitted[b]
             l == Len(D)
             fresh == {i \in DOMAIN D : ~Old(D[i])}
  <1>1. D \in Seq(Nat) /\ l \in Nat /\ DOMAIN D = 1..l /\ Len(w) \in Nat
    BY LenProperties DEF GateTypeOK
  <1>2. m + Len(w) = l
    BY DEF IsRestOf
  <1>3. fresh = (m + 1)..l
    <2>1. \A i \in 1..l : i \in 1..m \/ i \in (m + 1)..l
      BY <1>1
    <2>2. \A i \in (m + 1)..l : i \in 1..l
      BY <1>1
    <2> QED
      BY <2>1, <2>2, <1>1 DEF OldUpTo
  <1>4. Cardinality((m + 1)..l) = IF m + 1 > l THEN 0 ELSE l - (m + 1) + 1
    <2>1. m + 1 \in Int /\ l \in Int
      BY <1>1
    <2> HIDE DEF l
    <2> QED
      BY <2>1, FS_Interval
  <1>5. Counting(b) = Cardinality(fresh)
    BY DEF Counting
  <1> HIDE DEF fresh, l
  <1> QED
    BY <1>1, <1>2, <1>3, <1>4, <1>5

\* A sweep drops a key only when nothing of it counts.
LEMMA SweptKeepsTheRecent ==
  ASSUME GateTypeOK, AdmittedInOrder, NEW b \in Browsers, HoldsTheRecent(_hits, b)
  PROVE  /\ HoldsTheRecent(_sweep, b)
         /\ b \in DOMAIN _sweep => b \in DOMAIN _hits /\ _sweep[b] = _hits[b] /\ (SweepDue => ~Idle(_hits[b]))
  <1>1. CASE ~SweepDue
    BY <1>1 DEF _sweep
  <1>2. CASE SweepDue
    <2> DEFINE kept == {k \in DOMAIN _hits : ~Idle(_hits[k])}
    <2>1. _sweep = [k \in kept |-> _hits[k]]
      BY <1>2 DEF _sweep
    <2>2. DOMAIN _sweep = kept /\ \A k \in kept : _sweep[k] = _hits[k]
      BY <2>1
    <2>3. CASE b \in kept
      BY <2>2, <2>3, <1>2 DEF HoldsTheRecent
    <2>4. CASE b \notin DOMAIN _hits
      BY <2>2, <2>4 DEF HoldsTheRecent
    <2>5. CASE b \in DOMAIN _hits /\ b \notin kept
      <3> DEFINE D == admitted[b]
                 l == Len(D)
                 w == _hits[b]
                 v == Len(w)
      <3>1. D \in Seq(Nat) /\ l \in Nat /\ DOMAIN D = 1..l
        BY LenProperties DEF GateTypeOK
      <3>2. w \in Seq(Nat) /\ w # <<>> /\ Idle(w)
        BY <2>5 DEF HoldsTheRecent
      <3>3. PICK m \in Nat : IsRestOf(w, D, m)
        BY <2>5 DEF HoldsTheRecent
      <3>4. v \in Nat /\ v > 0 /\ Old(w[v])
        BY <3>2, EmptySeq DEF Idle
      <3>5. m + v = l /\ w[v] = D[m + v]
        BY <3>3, <3>4 DEF IsRestOf
      <3> HIDE DEF D, l, w, v
      <3>6. l \in 1..l /\ Old(D[l])
        BY <3>1, <3>4, <3>5
      <3>7. ASSUME NEW i \in 1..l PROVE Old(D[i])
        <4>1. Rising(D)
          BY DEF AdmittedInOrder, D
        <4>2. D[i] \in Nat /\ D[l] \in Nat
          BY <3>1, <3>6, ElementOfSeq DEF l
        <4>3. D[i] <= D[l]
          BY <4>1, <3>1, <3>6 DEF Rising
        <4> QED
          BY <4>2, <4>3, <3>6, GateConstants DEF Old, GateTypeOK
      <3>8. OldUpTo(admitted[b], Len(admitted[b]))
        BY <3>7 DEF OldUpTo, D, l
      <3> QED
        BY <2>2, <2>5, <3>8 DEF HoldsTheRecent
    <2> QED
      BY <2>3, <2>4, <2>5
  <1> QED
    BY <1>1, <1>2

\* What a request meets: its window, which is what counts.
LEMMA WhatAllowSees ==
  ASSUME GateInv, NEW b \in Browsers
  PROVE  /\ Pruned(_sweep, b) \in Seq(Nat)
         /\ Counting(b) = Len(Pruned(_sweep, b)) /\ Counting(b) \in Nat
         /\ \E m \in Nat : /\ IsRestOf(Pruned(_sweep, b), admitted[b], m) /\ OldUpTo(admitted[b], m)
                           /\ \A i \in (m + 1)..Len(admitted[b]) : ~Old(admitted[b][i])
  <1>1. GateTypeOK /\ AdmittedInOrder /\ HoldsTheRecent(_hits, b)
    BY DEF GateInv
  <1>2. HoldsTheRecent(_sweep, b)
    BY <1>1, SweptKeepsTheRecent
  <1>3. /\ Pruned(_sweep, b) \in Seq(Nat)
        /\ \E m \in Nat : /\ IsRestOf(Pruned(_sweep, b), admitted[b], m) /\ OldUpTo(admitted[b], m)
                          /\ \A i \in (m + 1)..Len(admitted[b]) : ~Old(admitted[b][i])
    BY <1>1, <1>2, WhatIsPruned
  <1>4. PICK m \in Nat : /\ IsRestOf(Pruned(_sweep, b), admitted[b], m) /\ OldUpTo(admitted[b], m)
                         /\ \A i \in (m + 1)..Len(admitted[b]) : ~Old(admitted[b][i])
    BY <1>3
  <1>5. Counting(b) = Len(Pruned(_sweep, b)) /\ Counting(b) \in Nat
    BY <1>1, <1>3, <1>4, WindowIsTheCount
  <1> QED
    BY <1>3, <1>5

\* The invariant says what the limiter promises.
LEMMA WhatTheLimiterPromises == GateInv => LimiterIsASlidingWindow
  <1> SUFFICES ASSUME GateInv PROVE LimiterIsASlidingWindow
    OBVIOUS
  <1>1. ASSUME NEW b \in Browsers PROVE Counting(b) <= PerMinute /\ (Allowed(b) <=> Counting(b) < PerMinute)
    BY WhatAllowSees DEF Allowed, GateInv
  <1>2. \A k \in DOMAIN _hits : _hits[k] # <<>>
    BY DEF GateInv, GateTypeOK, HoldsTheRecent
  <1> QED
    BY <1>1, <1>2 DEF LimiterIsASlidingWindow, GateInv, SweptSinceItsLast

\* Nobody has asked at first.
LEMMA GateInitially == GateInit => GateInv
  <1> SUFFICES ASSUME GateInit PROVE GateInv
    OBVIOUS
  <1>1. /\ clock = 0 /\ _swept_at = -SweepInterval /\ DOMAIN _hits = {}
        /\ admitted = [b \in Browsers |-> <<>>] /\ \A b \in Browsers : admitted[b] = <<>>
    BY DEF GateInit
  <1>2. <<>> \in Seq(Nat) /\ Len(<<>>) = 0 /\ DOMAIN <<>> = {}
    BY EmptySeq
  <1>3. GateTypeOK
    BY <1>1, <1>2, GateConstants DEF GateTypeOK
  <1>4. AdmittedInOrder
    BY <1>1, <1>2 DEF AdmittedInOrder, Rising
  <1>5. ASSUME NEW b \in Browsers PROVE HoldsTheRecent(_hits, b) /\ Counting(b) <= PerMinute
    <2>1. OldUpTo(admitted[b], Len(admitted[b]))
      BY <1>1, <1>2 DEF OldUpTo
    <2>2. {i \in DOMAIN admitted[b] : ~Old(admitted[b][i])} = {}
      BY <1>1, <1>2
    <2>3. Counting(b) = 0
      BY <2>2, FS_EmptySet DEF Counting
    <2> QED
      BY <1>1, <2>1, <2>3, GateConstants DEF HoldsTheRecent
  <1>6. SweptSinceItsLast
    BY <1>1 DEF SweptSinceItsLast
  <1> QED
    BY <1>3, <1>4, <1>5, <1>6 DEF GateInv

\* One more request is let through.
LEMMA OneMoreCounts ==
  ASSUME NEW D \in Seq(Nat), NEW c \in Nat
  PROVE  LET E == Append(D, c)
             before == {i \in DOMAIN D : ~Old(D[i])}
             after == {i \in DOMAIN E : ~Old(E[i])}
         IN  /\ E \in Seq(Nat) /\ Len(E) = Len(D) + 1 /\ DOMAIN E = 1..(Len(D) + 1)
             /\ E[Len(D) + 1] = c /\ \A i \in 1..Len(D) : E[i] = D[i]
             /\ Cardinality(before) \in Nat /\ Cardinality(after) \in Nat
             /\ Cardinality(after) <= Cardinality(before) + 1
  <1> DEFINE E == Append(D, c)
             l == Len(D)
             before == {i \in DOMAIN D : ~Old(D[i])}
             after == {i \in DOMAIN E : ~Old(E[i])}
  <1>1. l \in Nat /\ DOMAIN D = 1..l
    BY LenProperties
  <1>2. E \in Seq(Nat) /\ Len(E) = l + 1 /\ E[l + 1] = c /\ \A i \in 1..l : E[i] = D[i]
    BY AppendProperties
  <1> HIDE DEF E
  <1>3. DOMAIN E = 1..(l + 1)
    BY <1>2, LenProperties
  <1> HIDE DEF l
  <1>4. after \subseteq before \cup {l + 1}
    <2>1. \A i \in 1..(l + 1) : i \in 1..l \/ i = l + 1
      BY <1>1
    <2> QED
      BY <2>1, <1>1, <1>2, <1>3
  <1>5. before \subseteq 1..l
    BY <1>1
  <1>6. IsFiniteSet(1..l)
    BY <1>1, FS_Interval
  <1> HIDE DEF before, after
  <1>7. IsFiniteSet(before) /\ Cardinality(before) \in Nat
    BY <1>5, <1>6, FS_Subset, FS_CardinalityType
  <1>8. IsFiniteSet(before \cup {l + 1})
    BY <1>7, FS_AddElement
  <1>9. Cardinality(before \cup {l + 1}) \in Nat
    BY <1>8, FS_CardinalityType
  <1>10. Cardinality(before \cup {l + 1}) = IF l + 1 \in before THEN Cardinality(before) ELSE Cardinality(before) + 1
    BY <1>7, FS_AddElement
  <1>11. IsFiniteSet(after) /\ Cardinality(after) <= Cardinality(before \cup {l + 1})
    BY <1>4, <1>8, FS_Subset
  <1>12. Cardinality(after) \in Nat
    BY <1>11, FS_CardinalityType
  <1>13. Cardinality(after) <= Cardinality(before) + 1
    BY <1>7, <1>9, <1>10, <1>11, <1>12
  <1> QED
    BY <1>2, <1>3, <1>7, <1>12, <1>13 DEF E, l, before, after

\* Every step keeps the window of each address.
LEMMA GateStep == GateInv /\ [GateNext]_gateVars => GateInv'
  <1> SUFFICES ASSUME GateInv, [GateNext]_gateVars PROVE GateInv'
    OBVIOUS
  <1>t. GateTypeOK /\ AdmittedInOrder /\ SweptSinceItsLast
        /\ \A b \in Browsers : HoldsTheRecent(_hits, b) /\ Counting(b) <= PerMinute
    BY DEF GateInv
  <1>1. ASSUME UNCHANGED <<_hits, _swept_at, clock, admitted>> PROVE GateInv'
    <2>1. GateTypeOK' /\ AdmittedInOrder' /\ SweptSinceItsLast'
      BY <1>1, <1>t DEF GateTypeOK, AdmittedInOrder, SweptSinceItsLast
    <2>2. \A b \in Browsers : HoldsTheRecent(_hits, b)' /\ (Counting(b) <= PerMinute)'
      BY <1>1, <1>t DEF HoldsTheRecent, OldUpTo, Old, Counting
    <2> QED
      BY <2>1, <2>2 DEF GateInv
  <1>2. ASSUME NEW a \in Browsers, NEW route \in Routes, NEW bearer \in BOOLEAN, NEW own \in BOOLEAN,
               Serve(a, route, bearer, own)
        PROVE  GateInv'
    <2> DEFINE w == Pruned(_sweep, a)
               D == admitted[a]
               next == IF Allowed(a) THEN Append(w, clock) ELSE w
    <2>1. /\ clock' = clock /\ clock \in Nat
          /\ _hits' = HeldWith(_sweep, a, next)
          /\ _swept_at' = IF SweepDue THEN clock ELSE _swept_at
          /\ admitted' = IF Allowed(a) THEN [admitted EXCEPT ![a] = Append(D, clock)] ELSE admitted
      BY <1>2, <1>t DEF Serve, allow, GateTypeOK
    <2>2. w \in Seq(Nat) /\ Counting(a) = Len(w) /\ Counting(a) \in Nat /\ Len(w) \in Nat
      BY WhatAllowSees
    <2>3. PICK m \in Nat : /\ IsRestOf(w, D, m) /\ OldUpTo(D, m)
                           /\ \A i \in (m + 1)..Len(D) : ~Old(D[i])
      BY WhatAllowSees
    <2>4. D \in Seq(Nat) /\ DOMAIN D = 1..Len(D) /\ Len(D) \in Nat /\ m + Len(w) = Len(D)
      BY <1>t, <2>3, LenProperties DEF GateTypeOK, IsRestOf
    <2>a. Allowed(a) <=> Len(w) < PerMinute
      BY DEF Allowed
    <2> DEFINE E == Append(D, clock)
    <2>5. /\ E \in Seq(Nat) /\ Len(E) = Len(D) + 1 /\ DOMAIN E = 1..(Len(D) + 1)
          /\ E[Len(D) + 1] = clock /\ \A i \in 1..Len(D) : E[i] = D[i]
          /\ Cardinality({i \in DOMAIN D : ~Old(D[i])}) \in Nat /\ Cardinality({i \in DOMAIN E : ~Old(E[i])}) \in Nat
          /\ Cardinality({i \in DOMAIN E : ~Old(E[i])}) <= Cardinality({i \in DOMAIN D : ~Old(D[i])}) + 1
      BY <2>1, <2>4, OneMoreCounts
    <2>6. \A b \in Browsers : (b # a \/ ~Allowed(a)) => admitted'[b] = admitted[b]
      BY <2>1, <1>t DEF GateTypeOK
    <2>7. Allowed(a) => admitted'[a] = E
      BY <2>1, <1>t DEF GateTypeOK
    <2>8. next \in Seq(Nat) /\ next # <<>>
      <3>1. CASE Allowed(a)
        <4>1. next = Append(w, clock) /\ w \in Seq(Nat) /\ clock \in Nat
          BY <3>1, <2>1, <2>2
        <4> HIDE DEF next, w
        <4>2. Append(w, clock) \in Seq(Nat) /\ Append(w, clock) # <<>>
          BY <4>1, AppendProperties
        <4> QED
          BY <4>1, <4>2
      <3>2. CASE ~Allowed(a)
        <4>1. Len(w) > 0
          BY <3>2, <2>2, <2>a, GateConstants
        <4>2. next = w
          BY <3>2
        <4> QED
          BY <4>1, <4>2, <2>2, EmptySeq
      <3> QED
        BY <3>1, <3>2
    <2>9. next[Len(next)] \in Nat /\ next[Len(next)] <= clock /\ clock - next[Len(next)] <= RateWindow
      <3>1. CASE Allowed(a)
        <4>1. next = Append(w, clock)
          BY <3>1
        <4>2. Len(next) = Len(w) + 1 /\ next[Len(w) + 1] = clock
          BY <4>1, <2>1, <2>2, AppendProperties
        <4> HIDE DEF next
        <4> QED
          BY <4>2, <2>1, GateConstants
      <3>2. CASE ~Allowed(a)
        <4>1. Len(w) > 0
          BY <3>2, <2>2, <2>a, GateConstants
        <4>2. next = w
          BY <3>2
        <4> HIDE DEF next, w, D
        <4>3. Len(w) \in 1..Len(w) /\ w[Len(w)] = D[Len(D)]
          BY <4>1, <2>2, <2>3, <2>4 DEF IsRestOf
        <4>4. Len(D) \in (m + 1)..Len(D) /\ Len(D) \in 1..Len(D)
          BY <4>1, <2>2, <2>4
        <4>5. ~Old(D[Len(D)]) /\ D[Len(D)] \in Nat
          BY <4>4, <2>3, <2>4, ElementOfSeq
        <4>6. D[Len(D)] <= clock
          BY <4>4, <2>4, <1>t DEF AdmittedInOrder, D
        <4> QED
          BY <4>2, <4>3, <4>5, <4>6, <2>1, GateConstants DEF Old
      <3> QED
        BY <3>1, <3>2
    <2> HIDE DEF next
    <2>10. /\ DOMAIN _hits' = (DOMAIN _sweep \ {a}) \cup {a}
           /\ _hits'[a] = next
           /\ \A b \in DOMAIN _sweep : b # a => _hits'[b] = _sweep[b]
      BY <2>1, <2>8 DEF HeldWith
    <2>11. \A b \in Browsers :
              /\ HoldsTheRecent(_sweep, b)
              /\ b \in DOMAIN _sweep => b \in DOMAIN _hits /\ _sweep[b] = _hits[b] /\ (SweepDue => ~Idle(_hits[b]))
      BY <1>t, SweptKeepsTheRecent
    <2>12. DOMAIN _sweep \subseteq DOMAIN _hits
      BY DEF _sweep
    <2>13. GateTypeOK'
      <3>1. admitted' \in [Browsers -> Seq(Nat)]
        <4> HIDE DEF E
        <4> QED
          BY <2>1, <2>5, <1>t DEF GateTypeOK, E
      <3>2. _swept_at' \in Int /\ _swept_at' <= clock
        BY <2>1, <1>t DEF GateTypeOK
      <3> QED
        BY <3>1, <3>2, <2>1, <2>10, <2>12, <1>t DEF GateTypeOK
    <2>14. AdmittedInOrder'
      <3> HIDE DEF D, E
      <3>1. Rising(D) /\ \A i \in 1..Len(D) : D[i] <= clock /\ D[i] \in Nat
        BY <2>4, <1>t, ElementOfSeq DEF AdmittedInOrder, D
      <3>2. \A i \in 1..(Len(D) + 1) : i \in 1..Len(D) \/ i = Len(D) + 1
        BY <2>4
      <3>3. \A i \in 1..(Len(D) + 1) : E[i] <= clock
        BY SMTT(20), <3>1, <3>2, <2>1, <2>5
      <3>4. Rising(E)
        <4> SUFFICES ASSUME NEW i \in 1..(Len(D) + 1), NEW j \in 1..(Len(D) + 1), i <= j PROVE E[i] <= E[j]
          BY <2>5 DEF Rising
        <4>1. CASE j = Len(D) + 1
          BY <4>1, <3>3, <2>5
        <4>2. CASE j \in 1..Len(D)
          <5>1. i \in 1..Len(D)
            BY <4>2, <2>4
          <5> QED
            BY <5>1, <4>2, <3>1, <2>4, <2>5 DEF Rising
        <4> QED
          BY <4>1, <4>2, <3>2
      <3>5. ASSUME NEW b \in Browsers
            PROVE  Rising(admitted'[b]) /\ \A i \in DOMAIN admitted'[b] : admitted'[b][i] <= clock
        <4>1. CASE b = a /\ Allowed(a)
          BY <4>1, <3>3, <3>4, <2>5, <2>7
        <4>2. CASE b # a \/ ~Allowed(a)
          BY <4>2, <2>6, <1>t DEF AdmittedInOrder
        <4> QED
          BY <4>1, <4>2
      <3> QED
        BY <3>5, <2>1 DEF AdmittedInOrder
    <2>15. ASSUME NEW b \in Browsers PROVE HoldsTheRecent(_hits, b)'
      <3>1. CASE b # a
        <4>1. admitted'[b] = admitted[b] /\ (b \in DOMAIN _hits') = (b \in DOMAIN _sweep)
              /\ (b \in DOMAIN _sweep => _hits'[b] = _sweep[b])
          BY <3>1, <2>6, <2>10
        <4> QED
          BY <4>1, <2>1, <2>11 DEF HoldsTheRecent, OldUpTo, Old
      <3>2. CASE b = a
        <4>1. IsRestOf(next, admitted'[a], m)
          <5>1. CASE Allowed(a)
            <6>1. next = Append(w, clock) /\ admitted'[a] = E
              BY <5>1, <2>7 DEF next
            <6> DEFINE v == Len(w)
            <6>2. Len(next) = v + 1 /\ next[v + 1] = clock /\ \A i \in 1..v : next[i] = w[i]
              BY <6>1, <2>1, <2>2, AppendProperties
            <6>3. v \in Nat /\ m + v = Len(D) /\ \A i \in 1..v : w[i] = D[m + i]
              BY <2>2, <2>3, <2>4 DEF IsRestOf
            <6> HIDE DEF D, E, w, v
            <6>4. ASSUME NEW i \in 1..(v + 1) PROVE next[i] = E[m + i]
              <7>1. CASE i = v + 1
                <8>1. m + i = Len(D) + 1
                  BY <7>1, <6>3
                <8> QED
                  BY <8>1, <7>1, <6>2, <2>5
              <7>2. CASE i \in 1..v
                <8>1. m + i \in 1..Len(D)
                  BY <7>2, <6>3
                <8> QED
                  BY <8>1, <7>2, <6>2, <6>3, <2>5
              <7> QED
                BY <7>1, <7>2, <6>3
            <6>5. m + (v + 1) = Len(E)
              BY <6>3, <2>5
            <6> QED
              BY <6>1, <6>2, <6>4, <6>5 DEF IsRestOf
          <5>2. CASE ~Allowed(a)
            BY <5>2, <2>3, <2>6 DEF next
          <5> QED
            BY <5>1, <5>2
        <4>2. ASSUME NEW i \in 1..m PROVE clock' - admitted'[a][i] > RateWindow
          <5>1. admitted'[a][i] = D[i]
            <6>1. i \in 1..Len(D)
              BY <2>2, <2>4
            <6> QED
              BY <6>1, <2>5, <2>6, <2>7
          <5> QED
            BY <5>1, <2>1, <2>3 DEF OldUpTo, Old
        <4> QED
          <5>1. a \in DOMAIN _hits' /\ _hits'[a] \in Seq(Nat) /\ _hits'[a] # <<>>
            BY <2>8, <2>10
          <5>2. IsRestOf(_hits'[a], admitted'[a], m) /\ \A i \in 1..m : clock' - admitted'[a][i] > RateWindow
            BY <4>1, <4>2, <2>10
          <5>3. HoldsTheRecent(_hits, a)'
            BY <5>1, <5>2 DEF HoldsTheRecent, OldUpTo, Old
          <5> QED
            BY <5>3, <3>2
      <3> QED
        BY <3>1, <3>2
    <2>16. ASSUME NEW b \in Browsers PROVE (Counting(b) <= PerMinute)'
      <3>1. Counting(b)' = Cardinality({i \in DOMAIN admitted'[b] : ~(clock' - admitted'[b][i] > RateWindow)})
        BY DEF Counting, Old
      <3>2. CASE b = a /\ Allowed(a)
        <4>1. Counting(b)' = Cardinality({i \in DOMAIN E : ~Old(E[i])})
          BY <3>1, <3>2, <2>1, <2>7 DEF Old
        <4>2. Counting(a) = Cardinality({i \in DOMAIN D : ~Old(D[i])})
          BY DEF Counting
        <4>3. Counting(a) + 1 <= PerMinute
          BY <3>2, <2>a, <2>2, GateConstants
        <4> HIDE DEF D, E
        <4> QED
          BY <4>1, <4>2, <4>3, <2>2, <2>5, GateConstants
      <3>3. CASE b # a \/ ~Allowed(a)
        <4>1. Counting(b)' = Counting(b)
          BY <3>1, <3>3, <2>1, <2>6 DEF Counting, Old
        <4> QED
          BY <4>1, <1>t
      <3> QED
        BY <3>2, <3>3
    <2>17. SweptSinceItsLast'
      <3> SUFFICES ASSUME NEW k \in DOMAIN _hits' PROVE _swept_at' - _hits'[k][Len(_hits'[k])] <= RateWindow
        BY DEF SweptSinceItsLast
      <3>1. CASE k = a
        <4>1. _swept_at' \in Int /\ _swept_at' <= clock
          BY <2>1, <1>t DEF GateTypeOK
        <4>2. _hits'[k] = next
          BY <3>1, <2>10
        <4> QED
          BY <4>1, <4>2, <2>1, <2>9, GateConstants
      <3>2. CASE k # a
        <4>1. k \in DOMAIN _sweep /\ k \in DOMAIN _hits /\ k \in Browsers /\ _hits'[k] = _sweep[k]
          BY <3>2, <2>10, <2>12, <1>t DEF GateTypeOK
        <4>2. _hits'[k] = _hits[k] /\ (SweepDue => ~Idle(_hits[k]))
          BY <4>1, <2>11
        <4>3. CASE SweepDue
          <5>1. ~Old(_hits[k][Len(_hits[k])])
            BY <4>2, <4>3 DEF Idle
          <5>2. _hits[k] \in Seq(Nat) /\ _hits[k] # <<>>
            BY <4>1, <1>t DEF HoldsTheRecent
          <5>3. Len(_hits[k]) \in 1..Len(_hits[k])
            BY <5>2, EmptySeq
          <5>4. _hits[k][Len(_hits[k])] \in Nat
            BY <5>2, <5>3, ElementOfSeq
          <5> QED
            BY <5>1, <5>4, <4>2, <4>3, <2>1, GateConstants DEF Old
        <4>4. CASE ~SweepDue
          BY <4>1, <4>2, <4>4, <2>1, <1>t DEF SweptSinceItsLast
        <4> QED
          BY <4>3, <4>4
      <3> QED
        BY <3>1, <3>2
    <2> QED
      BY <2>13, <2>14, <2>15, <2>16, <2>17 DEF GateInv
  <1>3. CASE Tick
    <2>1. /\ clock' = clock + 1 /\ clock \in Nat /\ UNCHANGED <<_hits, _swept_at, admitted>>
          /\ _swept_at \in Int /\ _swept_at <= clock
      BY <1>3, <1>t DEF Tick, GateTypeOK
    <2>2. ASSUME NEW b \in Browsers
          PROVE  /\ admitted[b] \in Seq(Nat) /\ Len(admitted[b]) \in Nat /\ DOMAIN admitted[b] = 1..Len(admitted[b])
                 /\ \A i \in 1..Len(admitted[b]) : admitted[b][i] \in Nat
      <3>1. admitted[b] \in Seq(Nat)
        BY <1>t DEF GateTypeOK
      <3> QED
        BY <3>1, LenProperties, ElementOfSeq
    <2>3. GateTypeOK'
      BY <2>1, <1>t DEF GateTypeOK
    <2>4. AdmittedInOrder'
      <3> SUFFICES ASSUME NEW b \in Browsers
                   PROVE  Rising(admitted[b]) /\ \A i \in DOMAIN admitted[b] : admitted[b][i] <= clock + 1
        BY <2>1 DEF AdmittedInOrder
      <3> QED
        BY <2>1, <2>2, <1>t DEF AdmittedInOrder
    <2>6. ASSUME NEW b \in Browsers PROVE HoldsTheRecent(_hits, b)' /\ (Counting(b) <= PerMinute)'
      <3> DEFINE K == clock + 1
                 D == admitted[b]
                 now == {i \in DOMAIN D : ~Old(D[i])}
                 then == {i \in DOMAIN D : ~(K - D[i] > RateWindow)}
      <3>a. \A i \in 1..Len(D) : Old(D[i]) => K - D[i] > RateWindow
        <4> SUFFICES ASSUME NEW i \in 1..Len(D), Old(D[i]) PROVE K - D[i] > RateWindow
          OBVIOUS
        <4>1. D[i] \in Nat
          BY <2>2
        <4> HIDE DEF D
        <4> QED
          BY <4>1, <2>1, GateConstants DEF Old
      <3>1. \A m \in Nat : (m <= Len(D) /\ OldUpTo(D, m)) => \A i \in 1..m : K - D[i] > RateWindow
        <4> SUFFICES ASSUME NEW m \in Nat, m <= Len(D), OldUpTo(D, m), NEW i \in 1..m
                     PROVE  K - D[i] > RateWindow
          OBVIOUS
        <4>1. i \in 1..Len(D)
          BY <2>2
        <4> QED
          BY <4>1, <3>a DEF OldUpTo
      <3>2. HoldsTheRecent(_hits, b)'
        <4>1. ASSUME b \in DOMAIN _hits
              PROVE  /\ _hits[b] \in Seq(Nat) /\ _hits[b] # <<>>
                     /\ \E m \in Nat : IsRestOf(_hits[b], D, m) /\ \A i \in 1..m : K - D[i] > RateWindow
          <5>1. _hits[b] \in Seq(Nat) /\ _hits[b] # <<>>
            BY <4>1, <1>t DEF HoldsTheRecent
          <5>2. PICK m \in Nat : IsRestOf(_hits[b], D, m) /\ OldUpTo(D, m)
            BY <4>1, <1>t DEF HoldsTheRecent
          <5>3. m <= Len(D)
            <6>1. m + Len(_hits[b]) = Len(D)
              BY <5>2 DEF IsRestOf
            <6>2. Len(_hits[b]) \in Nat
              BY <5>1, LenProperties
            <6> QED
              BY <6>1, <6>2, <2>2
          <5> QED
            BY <5>1, <5>2, <5>3, <3>1
        <4>2. ASSUME b \notin DOMAIN _hits
              PROVE  \A i \in 1..Len(D) : K - D[i] > RateWindow
          <5>1. OldUpTo(D, Len(D))
            BY <4>2, <1>t DEF HoldsTheRecent
          <5> QED
            BY <5>1, <3>1, <2>2
        <4> QED
          <5>1. admitted'[b] = D /\ _hits' = _hits /\ clock' = K
            BY <2>1
          <5> HIDE DEF D, K
          <5>2. b \in DOMAIN _hits' =>
                  /\ _hits'[b] \in Seq(Nat) /\ _hits'[b] # <<>>
                  /\ \E m \in Nat : IsRestOf(_hits'[b], admitted'[b], m)
                                  /\ \A i \in 1..m : clock' - admitted'[b][i] > RateWindow
            BY <4>1, <5>1
          <5>3. b \notin DOMAIN _hits' => \A i \in 1..Len(admitted'[b]) : clock' - admitted'[b][i] > RateWindow
            BY <4>2, <5>1
          <5> QED
            BY <5>2, <5>3 DEF HoldsTheRecent, OldUpTo, Old
      <3>3. Counting(b)' = Cardinality(then)
        <4>1. Counting(b)' = Cardinality({i \in DOMAIN admitted'[b] : ~(clock' - admitted'[b][i] > RateWindow)})
          BY DEF Counting, Old
        <4>2. admitted'[b] = D /\ clock' = K
          BY <2>1
        <4> HIDE DEF D, K
        <4> QED
          BY <4>1, <4>2
      <3>4. Counting(b) = Cardinality(now)
        BY DEF Counting
      <3>5. then \subseteq now /\ now \subseteq 1..Len(D)
        <4>1. DOMAIN D = 1..Len(D)
          BY <2>2
        <4> HIDE DEF D, K
        <4> QED
          BY <4>1, <3>a
      <3>6. IsFiniteSet(1..Len(D))
        <4>1. 1 \in Int /\ Len(D) \in Int
          BY <2>2
        <4> HIDE DEF D
        <4> QED
          BY <4>1, FS_Interval
      <3> HIDE DEF then, now, D
      <3>7. IsFiniteSet(now) /\ IsFiniteSet(then) /\ Cardinality(then) <= Cardinality(now)
        BY <3>5, <3>6, FS_Subset
      <3>8. Cardinality(then) \in Nat /\ Cardinality(now) \in Nat
        BY <3>7, FS_CardinalityType
      <3>9. Counting(b)' <= PerMinute
        <4>1. Cardinality(now) <= PerMinute
          BY <3>4, <1>t
        <4> QED
          BY <4>1, <3>3, <3>7, <3>8, GateConstants
      <3> QED
        BY <3>2, <3>9
    <2>7. SweptSinceItsLast'
      BY <2>1, <1>t DEF SweptSinceItsLast
    <2> QED
      BY <2>3, <2>4, <2>6, <2>7 DEF GateInv
  <1>4. ASSUME NEW b \in Browsers, NEW supplied \in {"right", "wrong"}, access_submit(b, supplied) PROVE GateInv'
    BY <1>1, <1>4 DEF access_submit
  <1>5. ASSUME NEW b \in Browsers, access_logout(b) PROVE GateInv'
    BY <1>1, <1>5 DEF access_logout
  <1>6. ASSUME NEW b \in Browsers, NEW actor \in {"employee", "admin"}, set_actor(b, actor) PROVE GateInv'
    BY <1>1, <1>6 DEF set_actor
  <1>7. CASE UNCHANGED gateVars
    BY <1>1, <1>7 DEF gateVars
  <1> QED
    BY <1>2, <1>3, <1>4, <1>5, <1>6, <1>7 DEF GateNext

(***************************************************************************)
(* The limiter is an exact sliding window (RateLimiter.allow and _sweep),  *)
(* for any number of browsers, any limit, window and sweep interval.       *)
(***************************************************************************)
THEOREM LimiterIsExact == GateInit /\ [][GateNext]_gateVars => []LimiterIsASlidingWindow
  BY WhatTheLimiterPromises, GateInitially, GateStep, PTL

-----------------------------------------------------------------------------
(* The lifespan.  A turn that is open in the store, and that no failed      *)
(* close has lost, is held by its buffer; the last flush lets go of all of  *)
(* them, and nothing opens a turn after it.                                 *)
Phases == {"up", "failed", "closing", "awaiting", "stopped"}
WarmStations == {"none", "start", "discovering", "opening", "calling", "closing", "ended"}
BufferStates == {"none", "held", "rearmed", "closed"}

BootTypeOK ==
    /\ bootSetup \in [embed_warmup : BOOLEAN, keep_alive : BOOLEAN]
    /\ life \in [phase : Phases, step : 1..8, signalled : BOOLEAN]
    /\ warm \in [at : WarmStations, tries : Nat, late : BOOLEAN]
    /\ app \in [ready : BOOLEAN, reason : {"none", "warming", "handshake", "call"}, proved : BOOLEAN]
    /\ request \in [Requests -> {"none", "running", "raised", "answered", "apologised", "cut"}]
    /\ buffer \in [AllTurns -> BufferStates]

OpenIsHeldOrLost == \A t \in openRows : t \in AllTurns /\ (t \in lost \/ buffer[t] = "held")

StoppedHoldsNothing ==
    life.phase = "stopped" => warm.at = "ended" /\ \A t \in AllTurns : buffer[t] # "held"

\* The warm-up starts with the tasks, and says ready only when it has nothing left to try.
WarmUpIsOnce ==
    /\ (life.phase = "up" /\ life.step < 8) => warm.at = "none"
    /\ app.ready => /\ warm.at \in {"closing", "ended"} /\ app.reason = "none"
                    /\ bootSetup.embed_warmup => app.proved

RequestsHoldTheirTurns ==
    \A r \in Requests :
        /\ request[r] \in {"running", "raised"} => buffer[r] # "none"
        /\ request[r] = "answered" => buffer[r] = "closed"
        /\ request[r] = "apologised" => buffer[r] \in {"closed", "rearmed"}

\* Only a flush arms a buffer again, and it has ended the row before.
RearmedIsEnded ==
    /\ life.phase \in {"closing", "awaiting", "stopped"} => life.signalled
    /\ \A t \in AllTurns : buffer[t] = "rearmed" => t \notin openRows /\ life.signalled

BootInv == BootTypeOK /\ OpenIsHeldOrLost /\ StoppedHoldsNothing /\ WarmUpIsOnce /\ RequestsHoldTheirTurns

\* Nothing runs at first.
LEMMA BootInitially == BootInit => BootInv
  BY DEF BootInit, BootInv, BootTypeOK, OpenIsHeldOrLost, StoppedHoldsNothing, WarmUpIsOnce,
         RequestsHoldTheirTurns, Phases, WarmStations, BufferStates, AllTurns

\* The steps of lifespan that the warm-up depends on.
LEMMA TheSteps == \A i \in 1..8 : (Steps[i] = "serving" <=> i = 8) /\ (Steps[i] = "tasks" <=> i = 7)
  <1>1. /\ Steps[1] = "handlers" /\ Steps[2] = "migrate" /\ Steps[3] = "writer" /\ Steps[4] = "maintain"
        /\ Steps[5] = "bind" /\ Steps[6] = "orchestrator" /\ Steps[7] = "tasks" /\ Steps[8] = "serving"
    BY DEF Steps
  <1>2. \A i \in 1..8 : i = 1 \/ i = 2 \/ i = 3 \/ i = 4 \/ i = 5 \/ i = 6 \/ i = 7 \/ i = 8
    OBVIOUS
  <1> QED
    BY <1>1, <1>2

\* What a close and a flush do to the turns: they let go, and lose what the store missed.
LetsGo ==
    /\ buffer' \in [AllTurns -> BufferStates]
    /\ OpenIsHeldOrLost'
    /\ \A t \in AllTurns : /\ buffer'[t] = "held" => buffer[t] = "held"
                           /\ buffer[t] = "closed" => buffer'[t] = "closed"
                           /\ buffer[t] = "rearmed" => buffer'[t] \in {"closed", "rearmed"}
                           /\ buffer[t] # "none" => buffer'[t] # "none"

\* Closing turns lets go of their buffers.
LEMMA CloseLetsGo ==
  ASSUME BootTypeOK, OpenIsHeldOrLost, NEW turns \in SUBSET AllTurns, Close(turns)
  PROVE  LetsGo /\ \A t \in turns : buffer[t] # "none" => buffer'[t] = "closed"
  <1> DEFINE closing == {t \in turns : buffer[t] \in {"held", "rearmed"}}
  <1>1. /\ buffer' = [t \in AllTurns |-> IF t \in closing THEN "closed" ELSE buffer[t]]
        /\ IF storeUp THEN openRows' = openRows \ closing /\ UNCHANGED lost
                      ELSE lost' = lost \cup closing /\ UNCHANGED openRows
    BY DEF Close
  <1>2. buffer' \in [AllTurns -> BufferStates]
    BY <1>1 DEF BootTypeOK, BufferStates
  <1>3. OpenIsHeldOrLost'
    BY <1>1 DEF OpenIsHeldOrLost
  <1>4. \A t \in turns : buffer[t] # "none" => buffer'[t] = "closed"
    BY <1>1 DEF BootTypeOK, BufferStates
  <1> QED
    BY <1>1, <1>2, <1>3, <1>4 DEF LetsGo

\* A flush leaves no buffer held.
LEMMA FlushLetsGo ==
  ASSUME BootTypeOK, OpenIsHeldOrLost, flush_open_turns
  PROVE  LetsGo /\ \A t \in AllTurns : buffer'[t] # "held"
  <1> DEFINE held == {t \in AllTurns : buffer[t] = "held"}
  <1>1. /\ buffer' = [t \in AllTurns |-> IF t \notin held THEN buffer[t]
                                         ELSE IF storeUp THEN "rearmed" ELSE "closed"]
        /\ IF storeUp THEN openRows' = openRows \ held /\ UNCHANGED lost
                      ELSE lost' = lost \cup held /\ UNCHANGED openRows
    BY DEF flush_open_turns
  <1>2. buffer' \in [AllTurns -> BufferStates]
    BY <1>1 DEF BootTypeOK, BufferStates
  <1>3. OpenIsHeldOrLost'
    BY <1>1 DEF OpenIsHeldOrLost
  <1> QED
    BY <1>1, <1>2, <1>3 DEF LetsGo

\* A step of the lifespan, the warm-up or the maintenance that leaves turns and requests alone.
LEMMA TurnsAlone ==
  ASSUME BootInv, KeepTurns, UNCHANGED request, BootTypeOK', StoppedHoldsNothing', WarmUpIsOnce'
  PROVE  BootInv'
  BY DEF BootInv, KeepTurns, OpenIsHeldOrLost, RequestsHoldTheirTurns

\* Every step keeps what a shutdown relies on.
LEMMA BootStepKeeps == BootInv /\ [BootNext]_bootVars => BootInv'
  <1> SUFFICES ASSUME BootInv, [BootNext]_bootVars PROVE BootInv'
    OBVIOUS
  <1>t. BootTypeOK /\ OpenIsHeldOrLost /\ StoppedHoldsNothing /\ WarmUpIsOnce /\ RequestsHoldTheirTurns
    BY DEF BootInv
  <1>w. Requests \subseteq AllTurns /\ WarmTurn \in AllTurns /\ WarmTurn \notin Requests
    BY BootConstants DEF AllTurns
  <1>1. CASE BootStep
    <2> DEFINE w == IF Steps[life.step] = "tasks" THEN [warm EXCEPT !.at = "start"] ELSE warm
    <2>1. /\ life.phase = "up" /\ life.step \in 1..7 /\ life' = [life EXCEPT !.step = @ + 1]
          /\ warm' = w
          /\ UNCHANGED <<bootSetup, app, request, storeUp>> /\ KeepTurns
      BY <1>1, <1>t, TheSteps DEF BootStep, Serving, BootTypeOK
    <2>2. life' \in [phase : Phases, step : 1..8, signalled : BOOLEAN] /\ life'.phase = "up" /\ life'.step = life.step + 1
      BY <2>1, <1>t DEF BootTypeOK
    <2>3. /\ warm' \in [at : WarmStations, tries : Nat, late : BOOLEAN]
          /\ life.step < 7 => warm' = warm
      BY <2>1, <1>t, TheSteps DEF BootTypeOK, WarmStations
    <2>4. BootTypeOK'
      BY <2>1, <2>2, <2>3, <1>t DEF BootTypeOK, KeepTurns
    <2>5. warm.at = "none" /\ ~app.ready
      BY <2>1, <1>t DEF WarmUpIsOnce
    <2> HIDE DEF w
    <2>6. StoppedHoldsNothing' /\ WarmUpIsOnce'
      BY <2>1, <2>2, <2>3, <2>5 DEF StoppedHoldsNothing, WarmUpIsOnce
    <2> QED
      BY <2>1, <2>4, <2>6, TurnsAlone
  <1>2. CASE BootFails
    <2>1. /\ life' \in [phase : Phases, step : 1..8, signalled : BOOLEAN] /\ life'.phase = "failed"
          /\ UNCHANGED <<bootSetup, warm, app, request>> /\ KeepTurns
      BY <1>2, <1>t DEF BootFails, BootTypeOK, Phases
    <2> QED
      BY <2>1, <1>t, TurnsAlone DEF BootTypeOK, KeepTurns, StoppedHoldsNothing, WarmUpIsOnce
  <1>3. CASE StoreFlips
    BY <1>3, <1>t, TurnsAlone DEF StoreFlips, BootTypeOK, KeepTurns, StoppedHoldsNothing, WarmUpIsOnce
  <1>4. CASE WarmStart
    <2>1. warm.at = "start" /\ UNCHANGED <<bootSetup, life, request>> /\ KeepTurns
      BY <1>4 DEF WarmStart
    <2>2. CASE bootSetup.embed_warmup
      BY <1>4, <2>1, <2>2, <1>t, TurnsAlone
      DEF WarmStart, BootTypeOK, KeepTurns, StoppedHoldsNothing, WarmUpIsOnce, WarmStations
    <2>3. CASE ~bootSetup.embed_warmup
      BY ZenonT(40), <1>4, <2>1, <2>3, <1>t, TurnsAlone
      DEF WarmStart, BootTypeOK, KeepTurns, StoppedHoldsNothing, WarmUpIsOnce, WarmStations
    <2> QED
      BY <2>2, <2>3
  <1>5. ASSUME NEW found \in BOOLEAN, WarmDiscover(found) PROVE BootInv'
    <2>1. warm.at = "discovering" /\ UNCHANGED <<bootSetup, life, request>> /\ KeepTurns
      BY <1>5 DEF WarmDiscover
    <2>2. ~app.ready /\ life.phase # "stopped" /\ ~(life.phase = "up" /\ life.step < 8)
      BY <2>1, <1>t DEF WarmUpIsOnce, StoppedHoldsNothing
    <2>3. warm' \in [at : WarmStations, tries : Nat, late : BOOLEAN]
      <3>1. CASE found
        <4>1. warm' = [warm EXCEPT !.at = "opening", !.tries = 0]
          BY <1>5, <3>1 DEF WarmDiscover
        <4> QED
          BY <4>1, <1>t DEF BootTypeOK, WarmStations
      <3>2. CASE ~found /\ warm.late
        BY <1>5, <3>2, <1>t DEF WarmDiscover, BootTypeOK, WarmStations
      <3>3. CASE ~found /\ ~warm.late
        BY <1>5, <3>3, <1>t DEF WarmDiscover, BootTypeOK, WarmStations
      <3> QED
        BY <3>1, <3>2, <3>3
    <2>4. app' \in [ready : {FALSE}, reason : {"none", "warming", "handshake", "call"}, proved : BOOLEAN]
      BY <1>5, <2>2, <1>t DEF WarmDiscover, BootTypeOK
    <2>5. BootTypeOK'
      BY <2>1, <2>3, <2>4, <1>t DEF BootTypeOK, KeepTurns
    <2>6. StoppedHoldsNothing' /\ WarmUpIsOnce'
      BY <2>1, <2>2, <2>4 DEF WarmUpIsOnce, StoppedHoldsNothing
    <2> QED
      BY <2>1, <2>5, <2>6, TurnsAlone
  <1>6. CASE WarmOpens
    <2>1. warm.at = "opening" /\ UNCHANGED <<bootSetup, life, app, request>>
      BY <1>6 DEF WarmOpens
    <2>2. ~app.ready /\ life.phase # "stopped" /\ ~(life.phase = "up" /\ life.step < 8)
      BY <2>1, <1>t DEF WarmUpIsOnce, StoppedHoldsNothing
    <2>3. warm' \in [at : WarmStations, tries : Nat, late : BOOLEAN]
      BY <1>6, <1>t DEF WarmOpens, BootTypeOK, WarmStations
    <2>4. StoppedHoldsNothing' /\ WarmUpIsOnce'
      BY <2>1, <2>2 DEF WarmUpIsOnce, StoppedHoldsNothing
    <2>5. CASE Open(WarmTurn)
      <3>1. buffer' = [buffer EXCEPT ![WarmTurn] = "held"] /\ openRows' = openRows \cup {WarmTurn} /\ UNCHANGED lost
        BY <2>5 DEF Open
      <3>2. BootTypeOK'
        BY <3>1, <2>1, <2>3, <1>t DEF BootTypeOK, BufferStates
      <3>3. OpenIsHeldOrLost'
        BY <3>1, <1>t, <1>w DEF OpenIsHeldOrLost, BootTypeOK
      <3>4. RequestsHoldTheirTurns'
        BY <3>1, <2>1, <1>t, <1>w DEF RequestsHoldTheirTurns, BootTypeOK
      <3> QED
        BY <2>4, <3>2, <3>3, <3>4 DEF BootInv
    <2>6. CASE KeepTurns
      BY <2>1, <2>3, <2>4, <2>6, <1>t, TurnsAlone DEF BootTypeOK, KeepTurns
    <2> QED
      BY <1>6, <2>5, <2>6 DEF WarmOpens
  <1>7. ASSUME NEW ok \in BOOLEAN, WarmCall(ok) PROVE BootInv'
    <2>1. warm.at = "calling" /\ UNCHANGED <<bootSetup, life, request>> /\ KeepTurns
      BY <1>7 DEF WarmCall
    <2>2. ~app.ready /\ life.phase # "stopped" /\ ~(life.phase = "up" /\ life.step < 8)
      BY <2>1, <1>t DEF WarmUpIsOnce, StoppedHoldsNothing
    <2>3. warm' \in [at : WarmStations, tries : Nat, late : BOOLEAN]
      BY <1>7, <1>t DEF WarmCall, BootTypeOK, WarmStations
    <2>4. CASE ok
      <3>1. app' = [ready |-> TRUE, reason |-> "none", proved |-> TRUE] /\ warm'.at = "closing"
        BY <1>7, <2>4, <1>t DEF WarmCall, BootTypeOK
      <3>2. BootTypeOK'
        BY <3>1, <2>1, <2>3, <1>t DEF BootTypeOK, KeepTurns
      <3> QED
        BY <3>1, <3>2, <2>1, <2>2, TurnsAlone DEF WarmUpIsOnce, StoppedHoldsNothing
    <2>5. CASE ~ok
      <3>1. app' = [app EXCEPT !.reason = "call"]
        BY <1>7, <2>5 DEF WarmCall
      <3>2. app' \in [ready : {FALSE}, reason : {"none", "warming", "handshake", "call"}, proved : BOOLEAN]
        BY <3>1, <2>2, <1>t DEF BootTypeOK
      <3>3. BootTypeOK'
        BY <3>2, <2>1, <2>3, <1>t DEF BootTypeOK, KeepTurns
      <3> QED
        BY <3>2, <3>3, <2>1, <2>2, TurnsAlone DEF WarmUpIsOnce, StoppedHoldsNothing
    <2> QED
      BY <2>4, <2>5
  <1>8. CASE WarmCloses
    <2>1. /\ warm.at = "closing" /\ warm' = [warm EXCEPT !.at = "ended"] /\ Close({WarmTurn})
          /\ UNCHANGED <<bootSetup, life, app, request>>
      BY <1>8 DEF WarmCloses
    <2>2. LetsGo
      BY <2>1, <1>t, <1>w, CloseLetsGo
    <2>3. warm' \in [at : WarmStations, tries : Nat, late : BOOLEAN] /\ warm'.at = "ended"
      BY <2>1, <1>t DEF BootTypeOK, WarmStations
    <2>4. BootTypeOK'
      BY <2>1, <2>2, <2>3, <1>t DEF BootTypeOK, LetsGo
    <2>5. StoppedHoldsNothing' /\ WarmUpIsOnce'
      BY <2>1, <2>2, <2>3, <1>t DEF WarmUpIsOnce, StoppedHoldsNothing, LetsGo
    <2>6. RequestsHoldTheirTurns'
      <3>1. buffer' = [t \in AllTurns |-> IF t = WarmTurn /\ buffer[t] \in {"held", "rearmed"} THEN "closed" ELSE buffer[t]]
        BY <2>1 DEF Close
      <3> QED
        BY <2>1, <3>1, <1>t, <1>w DEF RequestsHoldTheirTurns
    <2> QED
      BY <2>2, <2>4, <2>5, <2>6 DEF BootInv, LetsGo
  <1>9. CASE DeadlinePasses
    <2>1. /\ warm' = [warm EXCEPT !.late = TRUE] /\ UNCHANGED <<bootSetup, life, app, request>> /\ KeepTurns
      BY <1>9 DEF DeadlinePasses
    <2>2. warm' \in [at : WarmStations, tries : Nat, late : BOOLEAN] /\ warm'.at = warm.at
      BY <2>1, <1>t DEF BootTypeOK
    <2> QED
      BY <2>1, <2>2, <1>t, TurnsAlone DEF BootTypeOK, KeepTurns, StoppedHoldsNothing, WarmUpIsOnce
  <1>10. CASE _maintenance_pass \/ \E ok \in BOOLEAN : PassReturns(ok)
    BY <1>10, <1>t, TurnsAlone
    DEF _maintenance_pass, PassReturns, BootTypeOK, KeepTurns, StoppedHoldsNothing, WarmUpIsOnce
  <1>11. ASSUME NEW r \in Requests, ChatOpens(r) PROVE BootInv'
    <2>1. /\ life.phase = "up" /\ request[r] = "none" /\ request' = [request EXCEPT ![r] = "running"]
          /\ buffer' = [buffer EXCEPT ![r] = "held"] /\ openRows' = openRows \cup {r}
          /\ UNCHANGED <<bootSetup, life, warm, app, lost>>
      BY <1>11 DEF ChatOpens, Open, Serving
    <2>2. BootTypeOK'
      BY <2>1, <1>t DEF BootTypeOK, BufferStates
    <2>3. OpenIsHeldOrLost'
      BY <2>1, <1>t, <1>w DEF OpenIsHeldOrLost, BootTypeOK
    <2>4. RequestsHoldTheirTurns'
      BY <2>1, <1>t, <1>w DEF RequestsHoldTheirTurns, BootTypeOK
    <2>5. StoppedHoldsNothing' /\ WarmUpIsOnce'
      BY <2>1, <1>t DEF StoppedHoldsNothing, WarmUpIsOnce
    <2> QED
      BY <2>2, <2>3, <2>4, <2>5 DEF BootInv
  <1>12. ASSUME NEW r \in Requests, NEW ends \in {"answered", "raised", "apologised"},
                request[r] \in {"running", "raised"}, request' = [request EXCEPT ![r] = ends],
                \/ Close({r})
                \/ ends = "apologised" /\ buffer[r] # "held" /\ KeepTurns,
                UNCHANGED <<bootSetup, life, warm, app>>
         PROVE  BootInv'
    <2>1. /\ LetsGo
          /\ buffer'[r] = "closed" \/ (ends = "apologised" /\ buffer'[r] = "rearmed")
      <3>1. buffer[r] \in {"held", "rearmed", "closed"}
        BY <1>12, <1>t, <1>w DEF RequestsHoldTheirTurns, BootTypeOK, BufferStates
      <3>2. CASE Close({r})
        BY <1>t, <1>w, <3>1, <3>2, CloseLetsGo
      <3>3. CASE ends = "apologised" /\ buffer[r] # "held" /\ KeepTurns
        BY <1>t, <3>1, <3>3 DEF LetsGo, KeepTurns, BootTypeOK, OpenIsHeldOrLost
      <3> QED
        BY <1>12, <3>2, <3>3
    <2>2. BootTypeOK'
      BY <1>12, <2>1, <1>t DEF BootTypeOK, LetsGo
    <2>3. StoppedHoldsNothing' /\ WarmUpIsOnce'
      BY <1>12, <2>1, <1>t DEF WarmUpIsOnce, StoppedHoldsNothing, LetsGo
    <2>4. ASSUME NEW q \in Requests
          PROVE  /\ request'[q] \in {"running", "raised"} => buffer'[q] # "none"
                 /\ request'[q] = "answered" => buffer'[q] = "closed"
                 /\ request'[q] = "apologised" => buffer'[q] \in {"closed", "rearmed"}
      <3>1. CASE q = r
        <4>1. request'[r] = ends
          BY <1>12, <1>t DEF BootTypeOK
        <4> QED
          BY <3>1, <4>1, <2>1
      <3>2. CASE q # r
        <4>1. request'[q] = request[q]
          BY <1>12, <3>2, <1>t DEF BootTypeOK
        <4> QED
          BY <4>1, <2>1, <1>t, <1>w DEF RequestsHoldTheirTurns, LetsGo
      <3> QED
        BY <3>1, <3>2
    <2>5. RequestsHoldTheirTurns'
      BY <2>4 DEF RequestsHoldTheirTurns
    <2> QED
      BY <2>1, <2>2, <2>3, <2>5 DEF BootInv, LetsGo
  <1>13. ASSUME NEW r \in Requests, ChatCloses(r) PROVE BootInv'
    <2> DEFINE ends == IF storeUp \/ buffer[r] = "closed" THEN "answered" ELSE "raised"
    <2>1. /\ request[r] \in {"running", "raised"} /\ request' = [request EXCEPT ![r] = ends] /\ Close({r})
          /\ UNCHANGED <<bootSetup, life, warm, app>>
      BY <1>13 DEF ChatCloses
    <2>2. ends \in {"answered", "raised", "apologised"}
      OBVIOUS
    <2> HIDE DEF ends
    <2> QED
      BY <2>1, <2>2, <1>12
  <1>14. ASSUME NEW r \in Requests, unhandled_error_response(r) PROVE BootInv'
    <2>1. /\ request[r] \in {"running", "raised"} /\ request' = [request EXCEPT ![r] = "apologised"]
          /\ Close({r}) \/ (buffer[r] # "held" /\ KeepTurns)
          /\ UNCHANGED <<bootSetup, life, warm, app>>
      BY <1>14 DEF unhandled_error_response
    <2> QED
      BY <2>1, <1>12
  <1>15. ASSUME NEW phase \in Phases, life'.phase = phase, flush_open_turns,
                life' \in [phase : Phases, step : 1..8, signalled : BOOLEAN], life'.step = life.step,
                phase = life.phase \/ (phase = "stopped" /\ warm.at = "ended"),
                UNCHANGED <<bootSetup, warm, app, request>>
         PROVE  BootInv'
    <2>1. LetsGo /\ \A t \in AllTurns : buffer'[t] # "held"
      BY <1>15, <1>t, FlushLetsGo
    <2>2. BootTypeOK'
      BY <1>15, <2>1, <1>t DEF BootTypeOK, LetsGo
    <2>3. StoppedHoldsNothing' /\ WarmUpIsOnce'
      BY <1>15, <2>1, <1>t DEF WarmUpIsOnce, StoppedHoldsNothing
    <2>4. RequestsHoldTheirTurns'
      BY <1>15, <2>1, <1>t, <1>w DEF RequestsHoldTheirTurns, LetsGo
    <2> QED
      BY <2>1, <2>2, <2>3, <2>4 DEF BootInv, LetsGo
  <1>16. CASE Signalled
    <2>1. /\ life' = [life EXCEPT !.signalled = TRUE] /\ flush_open_turns
          /\ UNCHANGED <<bootSetup, warm, app, request>>
      BY <1>16 DEF Signalled
    <2>2. /\ life' \in [phase : Phases, step : 1..8, signalled : BOOLEAN]
          /\ life'.step = life.step /\ life'.phase = life.phase /\ life.phase \in Phases
      BY <2>1, <1>t DEF BootTypeOK
    <2> QED
      BY <2>1, <2>2, <1>15
  <1>17. CASE ShutdownBegins
    <2>1. /\ life' = [life EXCEPT !.phase = "closing"]
          /\ request' = [r \in Requests |-> IF request[r] \in {"running", "raised"} THEN "cut" ELSE request[r]]
          /\ UNCHANGED <<bootSetup, warm, app, buffer, openRows, lost>>
      BY <1>17 DEF ShutdownBegins, KeepTurns
    <2>2. /\ life' \in [phase : Phases, step : 1..8, signalled : BOOLEAN] /\ life'.phase = "closing"
          /\ request' \in [Requests -> {"none", "running", "raised", "answered", "apologised", "cut"}]
      BY <2>1, <1>t DEF BootTypeOK, Phases
    <2>3. RequestsHoldTheirTurns'
      BY <2>1, <1>t DEF RequestsHoldTheirTurns
    <2> QED
      BY <2>1, <2>2, <2>3, <1>t DEF BootInv, BootTypeOK, OpenIsHeldOrLost, StoppedHoldsNothing, WarmUpIsOnce
  <1>18. CASE CancelTasks
    <2>1. /\ life' = [life EXCEPT !.phase = "awaiting"]
          /\ warm' = CASE warm.at \in {"start", "discovering", "opening"} -> [warm EXCEPT !.at = "ended"]
                       [] warm.at = "calling" -> [warm EXCEPT !.at = "closing"]
                       [] OTHER -> warm
          /\ UNCHANGED <<bootSetup, app, request>> /\ KeepTurns
      BY <1>18 DEF CancelTasks
    <2>2. life' \in [phase : Phases, step : 1..8, signalled : BOOLEAN] /\ life'.phase = "awaiting"
      BY <2>1, <1>t DEF BootTypeOK, Phases
    <2>3. /\ warm' \in [at : WarmStations, tries : Nat, late : BOOLEAN]
          /\ warm.at \in {"closing", "ended"} => warm'.at = warm.at
      <3>1. CASE warm.at \in {"start", "discovering", "opening"}
        BY <2>1, <3>1, <1>t DEF BootTypeOK, WarmStations
      <3>2. CASE warm.at = "calling"
        BY <2>1, <3>2, <1>t DEF BootTypeOK, WarmStations
      <3>3. CASE warm.at \notin {"start", "discovering", "opening", "calling"}
        BY <2>1, <3>3, <1>t DEF BootTypeOK
      <3> QED
        BY <3>1, <3>2, <3>3
    <2>4. BootTypeOK'
      BY <2>1, <2>2, <2>3, <1>t DEF BootTypeOK, KeepTurns
    <2>5. StoppedHoldsNothing' /\ WarmUpIsOnce'
      BY <2>1, <2>2, <2>3, <1>t DEF WarmUpIsOnce, StoppedHoldsNothing
    <2> QED
      BY <2>1, <2>4, <2>5, TurnsAlone
  <1>19. CASE FlushOpenTurns
    <2>1. /\ warm.at = "ended" /\ life' = [life EXCEPT !.phase = "stopped"] /\ flush_open_turns
          /\ UNCHANGED <<bootSetup, warm, app, request>>
      BY <1>19 DEF FlushOpenTurns
    <2>2. /\ life' \in [phase : Phases, step : 1..8, signalled : BOOLEAN]
          /\ life'.step = life.step /\ life'.phase = "stopped" /\ "stopped" \in Phases
      BY <2>1, <1>t DEF BootTypeOK, Phases
    <2> QED
      BY <2>1, <2>2, <1>15
  <1>20. CASE UNCHANGED bootVars
    BY <1>20, <1>t, TurnsAlone DEF bootVars, BootTypeOK, KeepTurns, StoppedHoldsNothing, WarmUpIsOnce
  <1> QED
    BY <1>1, <1>2, <1>3, <1>4, <1>5, <1>6, <1>7, <1>8, <1>9, <1>10, <1>11, <1>13, <1>14, <1>16, <1>17, <1>18, <1>19, <1>20
       DEF BootNext

\* A step that keeps the signal, and what is armed and open, or lets go of it.
LEMMA StaysEnded ==
  ASSUME RearmedIsEnded, life'.signalled = life.signalled,
         life'.phase \in {"closing", "awaiting", "stopped"} => life.signalled,
         \A t \in AllTurns : buffer'[t] = "rearmed" =>
             buffer[t] = "rearmed" /\ (t \notin openRows => t \notin openRows')
  PROVE  RearmedIsEnded'
  BY DEF RearmedIsEnded, AllTurns

\* Closing lets go of a buffer and ends rows.
LEMMA CloseStaysEnded ==
  ASSUME RearmedIsEnded, UNCHANGED life, NEW turns, Close(turns)
  PROVE  RearmedIsEnded'
  <1>1. \A t \in AllTurns : buffer'[t] = "rearmed" =>
             buffer[t] = "rearmed" /\ (t \notin openRows => t \notin openRows')
    BY DEF Close
  <1> QED
    BY <1>1, StaysEnded DEF RearmedIsEnded

\* A flush after the signal arms again what it has ended.
LEMMA FlushEnds ==
  ASSUME RearmedIsEnded, life'.signalled, flush_open_turns
  PROVE  RearmedIsEnded'
  <1>1. \A t \in AllTurns : buffer'[t] = "rearmed" => t \notin openRows'
    BY DEF flush_open_turns, RearmedIsEnded
  <1> QED
    BY <1>1 DEF RearmedIsEnded, AllTurns

\* Every step keeps the rows of armed buffers ended.
LEMMA RearmedStep == BootInv /\ RearmedIsEnded /\ [BootNext]_bootVars => RearmedIsEnded'
  <1> SUFFICES ASSUME BootInv, RearmedIsEnded, [BootNext]_bootVars PROVE RearmedIsEnded'
    OBVIOUS
  <1>t. /\ life \in [phase : Phases, step : 1..8, signalled : BOOLEAN]
        /\ buffer \in [AllTurns -> BufferStates]
    BY DEF BootInv, BootTypeOK
  <1>1. CASE UNCHANGED <<life, buffer, openRows>>
    BY <1>1 DEF RearmedIsEnded, AllTurns
  <1>2. CASE BootStep \/ BootFails
    <2>1. /\ life' = [life EXCEPT !.step = @ + 1] \/ life' = [life EXCEPT !.phase = "failed"]
          /\ life.phase = "up" /\ KeepTurns
      BY <1>2 DEF BootStep, BootFails
    <2>2. life'.signalled = life.signalled /\ life'.phase \in {"up", "failed"}
      BY <2>1, <1>t
    <2> QED
      BY <2>1, <2>2, StaysEnded DEF KeepTurns
  <1>3. CASE ShutdownBegins \/ CancelTasks
    <2>1. /\ life.signalled /\ KeepTurns
          /\ life' = [life EXCEPT !.phase = "closing"] \/ life' = [life EXCEPT !.phase = "awaiting"]
      BY <1>3 DEF ShutdownBegins, CancelTasks, RearmedIsEnded
    <2>2. life'.signalled = life.signalled
      BY <2>1, <1>t
    <2> QED
      BY <2>1, <2>2, StaysEnded DEF KeepTurns
  <1>4. CASE Signalled \/ FlushOpenTurns
    <2>1. flush_open_turns /\ life'.signalled
      BY <1>4, <1>t DEF Signalled, FlushOpenTurns, RearmedIsEnded
    <2> QED
      BY <2>1, FlushEnds
  <1>5. ASSUME NEW t \in AllTurns, Open(t), UNCHANGED life PROVE RearmedIsEnded'
    <2>1. buffer' = [buffer EXCEPT ![t] = "held"] /\ openRows' = openRows \cup {t}
      BY <1>5 DEF Open
    <2> QED
      BY <1>5, <1>t, <2>1, StaysEnded DEF RearmedIsEnded
  <1>6. ASSUME NEW turns, Close(turns), UNCHANGED life PROVE RearmedIsEnded'
    BY <1>6, CloseStaysEnded
  <1>7. CASE WarmOpens \/ WarmCloses
    BY <1>1, <1>5, <1>6, <1>7 DEF WarmOpens, WarmCloses, KeepTurns, AllTurns
  <1>8. ASSUME NEW r \in Requests, ChatOpens(r) \/ ChatCloses(r) \/ unhandled_error_response(r)
        PROVE  RearmedIsEnded'
    BY <1>1, <1>5, <1>6, <1>8
    DEF ChatOpens, ChatCloses, unhandled_error_response, KeepTurns, AllTurns
  <1>9. CASE \/ StoreFlips \/ WarmStart \/ DeadlinePasses \/ _maintenance_pass \/ UNCHANGED bootVars
            \/ \E ok \in BOOLEAN : WarmDiscover(ok) \/ WarmCall(ok) \/ PassReturns(ok)
    BY <1>1, <1>9 DEF StoreFlips, WarmStart, DeadlinePasses, _maintenance_pass, bootVars,
       WarmDiscover, WarmCall, PassReturns, KeepTurns
  <1> QED
    BY <1>2, <1>3, <1>4, <1>7, <1>8, <1>9 DEF BootNext

(***************************************************************************)
(* Once lifespan is over every row without ended_at is one whose close met *)
(* a store that did not answer, and a process that says ready has proved   *)
(* it (lifespan, _warm_up, flush_open_turns), for any number of requests.  *)
(***************************************************************************)
THEOREM ShutdownIsClean == BootInit /\ [][BootNext]_bootVars => []ShutdownSettlesTurns
  <1>1. BootInit => RearmedIsEnded
    BY DEF BootInit, RearmedIsEnded, AllTurns
  <1>2. BootInv /\ RearmedIsEnded => ShutdownSettlesTurns
    BY DEF BootInv, OpenIsHeldOrLost, StoppedHoldsNothing, WarmUpIsOnce, RequestsHoldTheirTurns,
       RearmedIsEnded, ShutdownSettlesTurns, AllTurns
  <1> QED
    BY <1>1, <1>2, BootInitially, BootStepKeeps, RearmedStep, PTL

-----------------------------------------------------------------------------
(* The archive.  A pass that is about to import a file holds a document,   *)
(* and the digest it will record is that document's, unless the file was   *)
(* seen to be replaced.                                                    *)
Document == [kind : Kinds, version : Nat]

PassOK(p) ==
    \/ p.at = "rest"
    \/ p.at = "next" /\ p.todo \subseteq ResultFiles
    \/ p.at = "read" /\ p.file \in ResultFiles /\ p.document \in Document /\ p.todo \subseteq ResultFiles
    \/ /\ p.at = "import" /\ p.file \in ResultFiles /\ p.document \in Document /\ p.digest \in Nat
       /\ p.todo \subseteq ResultFiles
       /\ p.file \notin torn => p.digest = _sha256(p.document)

ArchiveInv ==
    /\ disk \in [ResultFiles -> Document]
    /\ written \in Nat
    /\ DOMAIN import = Importers
    /\ import_state \in [ResultFiles -> Nat \cup {NoDigest}]
    /\ eval_results \in [ResultFiles -> Nat \cup {NoDigest}]
    /\ \A i \in Importers : PassOK(import[i])
    /\ VouchedForIsStored

\* Nothing is archived at first.
LEMMA ArchiveInitially == ArchiveInit => ArchiveInv
  BY DEF ArchiveInit, ArchiveInv, PassOK, Document, Kinds, NoDigest, Resting, VouchedForIsStored

\* A pass that goes on as p, and leaves the store, the files and torn alone.
LEMMA PassGoesOn ==
  ASSUME ArchiveInv, NEW i \in Importers, NEW p, import' = [import EXCEPT ![i] = p],
         PassOK(p), UNCHANGED <<disk, written, import_state, eval_results, torn>>
  PROVE  ArchiveInv'
  BY DEF ArchiveInv, PassOK, VouchedForIsStored, Document

\* Every step keeps what the archive vouches for.
LEMMA ArchiveStep == ArchiveInv /\ [ArchiveNext]_archiveVars => ArchiveInv'
  <1> SUFFICES ASSUME ArchiveInv, [ArchiveNext]_archiveVars PROVE ArchiveInv'
    OBVIOUS
  <1>1. ASSUME NEW i \in Importers, ImportBegins(i) PROVE ArchiveInv'
    <2> DEFINE p == [at |-> "next", todo |-> ResultFiles, known |-> import_state]
    <2>1. PassOK(p)
      BY DEF PassOK
    <2> QED
      BY <1>1, <2>1, PassGoesOn DEF ImportBegins
  <1>2. ASSUME NEW i \in Importers, NEW f \in ResultFiles, ReadResults(i, f) PROVE ArchiveInv'
    <2> DEFINE q == import[i]
               read == [at |-> "read", todo |-> q.todo \ {f}, known |-> q.known, file |-> f, document |-> disk[f]]
               rest == [at |-> "next", todo |-> q.todo \ {f}, known |-> q.known]
    <2>1. q.todo \subseteq ResultFiles /\ disk[f] \in Document
      BY <1>2 DEF ReadResults, ArchiveInv, PassOK
    <2>2. PassOK(read) /\ PassOK(rest)
      BY <2>1 DEF PassOK
    <2>3. /\ import' = [import EXCEPT ![i] = IF _is_run_object(disk[f]) THEN read ELSE rest]
          /\ UNCHANGED <<disk, written, import_state, eval_results, torn>>
      BY <1>2 DEF ReadResults
    <2> QED
      BY <2>2, <2>3, PassGoesOn
  <1>3. ASSUME NEW i \in Importers, DigestResults(i) PROVE ArchiveInv'
    <2> DEFINE q == import[i]
               digest == _sha256(disk[q.file])
               again == q.known[q.file] = digest
               p == [at |-> "import", todo |-> q.todo, known |-> q.known, file |-> q.file,
                     document |-> q.document, digest |-> digest]
    <2>1. /\ q.at = "read" /\ q.file \in ResultFiles /\ q.document \in Document
          /\ q.todo \subseteq ResultFiles
      BY <1>3 DEF DigestResults, ArchiveInv, PassOK
    <2>2. digest \in Nat
      BY <2>1 DEF ArchiveInv, Document, _sha256
    <2>3. CASE again
      <3>1. import' = [import EXCEPT ![i] = NextFile(q)] /\ UNCHANGED <<disk, written, import_state, eval_results, torn>>
        BY <1>3, <2>3 DEF DigestResults
      <3>2. PassOK(NextFile(q))
        BY <2>1 DEF PassOK, NextFile
      <3> QED
        BY <3>1, <3>2, PassGoesOn
    <2>4. CASE ~again
      <3>1. /\ import' = [import EXCEPT ![i] = p]
            /\ torn' = IF digest # _sha256(q.document) THEN torn \cup {q.file} ELSE torn
            /\ UNCHANGED <<disk, written, import_state, eval_results>>
        BY <1>3, <2>4 DEF DigestResults
      <3>2. q.file \notin torn' => digest = _sha256(q.document)
        BY <3>1
      <3>3. PassOK(p)'
        BY <3>1, <3>2, <2>1, <2>2 DEF PassOK
      <3>4. torn \subseteq torn'
        BY <3>1
      <3>5. ASSUME NEW j \in Importers PROVE PassOK(import[j])'
        <4>1. CASE j = i
          <5>1. import'[j] = p
            BY <3>1, <4>1 DEF ArchiveInv
          <5> QED
            BY <5>1, <3>1, <3>2, <2>1, <2>2 DEF PassOK
        <4>2. CASE j # i
          <5>1. import'[j] = import[j] /\ PassOK(import[j])
            BY <3>1, <4>2 DEF ArchiveInv
          <5> QED
            BY <5>1, <3>4 DEF PassOK
        <4> QED
          BY <4>1, <4>2
      <3> QED
        BY <3>1, <3>4, <3>5 DEF ArchiveInv, VouchedForIsStored
    <2> QED
      BY <2>3, <2>4
  <1>4. ASSUME NEW i \in Importers, NEW committed \in BOOLEAN, _import_run(i, committed) PROVE ArchiveInv'
    <2> DEFINE q == import[i]
    <2>1. /\ q.at = "import" /\ q.file \in ResultFiles /\ q.document \in Document /\ q.digest \in Nat
          /\ q.todo \subseteq ResultFiles
          /\ q.file \notin torn => q.digest = _sha256(q.document)
      BY <1>4 DEF _import_run, ArchiveInv, PassOK
    <2>2. import' = [import EXCEPT ![i] = NextFile(q)] /\ UNCHANGED <<disk, written, torn>>
      BY <1>4 DEF _import_run
    <2>3. PassOK(NextFile(q))
      BY <2>1 DEF PassOK, NextFile
    <2>4. CASE ~committed
      BY <1>4, <2>2, <2>3, <2>4, PassGoesOn DEF _import_run
    <2>5. CASE committed
      <3>1. /\ eval_results' = [eval_results EXCEPT ![q.file] = _sha256(q.document)]
            /\ import_state' = [import_state EXCEPT ![q.file] = q.digest]
        BY <1>4, <2>5 DEF _import_run
      <3>2. _sha256(q.document) \in Nat
        BY <2>1 DEF _sha256, Document
      <3>3. VouchedForIsStored'
        BY <2>1, <2>2, <3>1, <3>2 DEF ArchiveInv, VouchedForIsStored, NoDigest
      <3>4. ASSUME NEW j \in Importers PROVE PassOK(import[j])'
        <4>1. import'[j] = IF j = i THEN NextFile(q) ELSE import[j]
          BY <2>2 DEF ArchiveInv
        <4>2. PassOK(import'[j])
          BY <4>1, <2>3 DEF ArchiveInv
        <4> QED
          BY <4>2, <2>2 DEF PassOK
      <3>5. disk' \in [ResultFiles -> Document] /\ written' \in Nat /\ DOMAIN import' = Importers
        BY <2>2 DEF ArchiveInv
      <3>6. /\ import_state' \in [ResultFiles -> Nat \cup {NoDigest}]
            /\ eval_results' \in [ResultFiles -> Nat \cup {NoDigest}]
        BY <2>1, <3>1, <3>2 DEF ArchiveInv
      <3> QED
        BY <3>3, <3>4, <3>5, <3>6 DEF ArchiveInv
    <2> QED
      BY <2>4, <2>5
  <1>5. ASSUME NEW i \in Importers, ImportEnds(i) PROVE ArchiveInv'
    <2>1. PassOK(Resting)
      BY DEF PassOK, Resting
    <2> QED
      BY <1>5, <2>1, PassGoesOn DEF ImportEnds
  <1>6. ASSUME NEW f \in ResultFiles, NEW kind \in Kinds, RewriteResults(f, kind) PROVE ArchiveInv'
    BY <1>6 DEF RewriteResults, ArchiveInv, PassOK, VouchedForIsStored, Document
  <1>7. CASE UNCHANGED archiveVars
    BY <1>7 DEF archiveVars, ArchiveInv, PassOK, VouchedForIsStored
  <1> QED
    BY <1>1, <1>2, <1>3, <1>4, <1>5, <1>6, <1>7 DEF ArchiveNext

(***************************************************************************)
(* What import_state vouches for is stored, for any number of importers    *)
(* and files and however often these are replaced.                         *)
(***************************************************************************)
THEOREM ArchiveIsTrue == ArchiveInit /\ [][ArchiveNext]_archiveVars => []VouchedForIsStored
  <1>1. ArchiveInv => VouchedForIsStored
    BY DEF ArchiveInv
  <1> QED
    BY <1>1, ArchiveInitially, ArchiveStep, PTL

-----------------------------------------------------------------------------
(* Every non-empty set of naturals has a least element, and a bounded one   *)
(* a greatest, which is what Max chooses.                                   *)
LEMMA StampMin ==
  ASSUME NEW S \in SUBSET Nat, S # {}
  PROVE  \E m \in S : \A n \in S : m <= n
  <1>1. PICK m \in S : \A n \in S : ~(<<n, m>> \in OpToRel(<, Nat))
    BY NatLessThanWellFounded, WFMin
  <1>2. \A n \in S : ~(n < m)
    BY <1>1 DEF OpToRel
  <1> QED
    BY <1>2

\* The largest of a set of stamps is one of them.
LEMMA MaxIsOne ==
  ASSUME NEW n \in Nat, NEW S \in SUBSET (0..n), S # {}
  PROVE  Max(S) \in S
  <1> DEFINE D == {d \in Nat : n - d \in S}
  <1>1. D # {}
    <2>1. PICK x \in S : TRUE
      OBVIOUS
    <2>2. n - x \in D
      BY <2>1
    <2> QED
      BY <2>2
  <1>2. PICK d \in D : \A e \in D : d <= e
    BY <1>1, StampMin
  <1>3. n - d \in S /\ \A y \in S : n - d >= y
    <2>1. ASSUME NEW y \in S PROVE n - d >= y
      <3>1. n - y \in D
        OBVIOUS
      <3> QED
        BY <3>1, <1>2
    <2> QED
      BY <2>1
  <1> QED
    BY <1>3 DEF Max

-----------------------------------------------------------------------------
(* The store.  The sessions a sweep has chosen stay chosen until its batch  *)
(* is over, and a write that is filed for one of them meanwhile is late.    *)
SessionRows == [session : 0..MaxStamp, exempt : BOOLEAN, turn : BOOLEAN, spans : BOOLEAN,
                card : {"none", "unused", "used"}, write : BOOLEAN]
Buffers == [open : BOOLEAN, spans : BOOLEAN]

StoreTypeOK ==
    /\ backend \in build_store
    /\ rows \in [Sessions -> SessionRows]
    /\ filing \subseteq Sessions
    /\ memory \in [Sessions -> Buffers]
    /\ pass \in [at : {"idle", "pruning"}, doomed : SUBSET Sessions]

ChosenThenFiledIsLate ==
    /\ pass.at = "idle" => pass.doomed = {}
    /\ \A s \in pass.doomed : rows[s].write => s \in lateWrite

\* A write that is being filed has its spent card, or a sweep has taken the card since.
FiledUnderACard ==
    /\ \A s \in Sessions : rows[s].card = "unused" => ~rows[s].write /\ s \notin filing
    /\ \A s \in filing : \/ rows[s].card = "used"
                         \/ rows[s].card = "none" /\ s \in cardLost

StoreInv == StoreTypeOK /\ ChosenThenFiledIsLate /\ FiledUnderACard /\ RetentionKeepsTheRecord

\* Nothing is stored at first.
LEMMA StoreInitially == StoreInit => StoreInv
  <1> SUFFICES ASSUME StoreInit PROVE StoreInv
    OBVIOUS
  <1>1. NoRows \in SessionRows
    BY StoreConstants DEF NoRows, SessionRows
  <1>2. StoreTypeOK
    BY <1>1 DEF StoreInit, StoreTypeOK, Buffers
  <1>3. filing = {} /\ \A s \in Sessions : ~rows[s].write /\ ~rows[s].turn /\ ~rows[s].spans
    BY DEF StoreInit, NoRows
  <1> QED
    BY <1>2, <1>3 DEF StoreInit, StoreInv, ChosenThenFiledIsLate, FiledUnderACard, RetentionKeepsTheRecord

\* A step that only moves the buffers.
LEMMA OnlyBuffersMove ==
  ASSUME StoreInv, memory' \in [Sessions -> Buffers],
         UNCHANGED <<backend, rows, filing, pass, lateWrite, lateFlush, cardLost>>
  PROVE  StoreInv'
  BY DEF StoreInv, StoreTypeOK, ChosenThenFiledIsLate, FiledUnderACard, RetentionKeepsTheRecord, HasSession

\* The last stamp of all is within the bound.
LEMMA StampsAreSessions ==
  ASSUME StoreTypeOK, NEW s \in Sessions
  PROVE  LastStamp \in 0..MaxStamp
  <1> DEFINE S == {rows[r].session : r \in Sessions}
  <1>1. S \in SUBSET (0..MaxStamp) /\ rows[s].session \in S
    BY DEF StoreTypeOK, SessionRows
  <1>2. Max(S) \in S
    BY <1>1, MaxIsOne, StoreConstants
  <1> QED
    BY <1>1, <1>2 DEF LastStamp

\* Every step keeps the record that retention relies on.
LEMMA StoreStep == StoreInv /\ [StoreNext]_storeVars => StoreInv'
  <1> SUFFICES ASSUME StoreInv, [StoreNext]_storeVars PROVE StoreInv'
    OBVIOUS
  <1>t. StoreTypeOK
    BY DEF StoreInv
  <1>1. ASSUME NEW s \in Sessions, NEW exempt \in BOOLEAN, StartTurnIn(s, exempt) PROVE StoreInv'
    <2> DEFINE stamp == IF rows[s].session > 0 THEN rows[s].session ELSE LastStamp + 1
               ex == IF rows[s].session > 0 THEN rows[s].exempt ELSE exempt
               row == [rows[s] EXCEPT !.session = stamp, !.exempt = ex, !.turn = TRUE]
    <2>1. stamp \in 1..MaxStamp /\ ex \in BOOLEAN
      BY <1>1, <1>t, StampsAreSessions, StoreConstants DEF StartTurnIn, StoreTypeOK, SessionRows
    <2>2. rows' = [rows EXCEPT ![s] = row]
      BY <1>1, <1>t DEF StartTurnIn, StoreTypeOK, SessionRows
    <2> HIDE DEF stamp, ex
    <2>3. /\ row \in SessionRows /\ row.session > 0 /\ row.turn
          /\ row.write = rows[s].write /\ row.card = rows[s].card /\ row.spans = rows[s].spans
      <3>1. rows[s] \in SessionRows /\ stamp \in 0..MaxStamp /\ stamp > 0
        BY <2>1, <1>t, StoreConstants DEF StoreTypeOK
      <3>2. row \in SessionRows
        BY <3>1, <2>1 DEF SessionRows
      <3> QED
        BY <3>1, <3>2 DEF SessionRows
    <2> HIDE DEF row
    <2>4. /\ memory' = [memory EXCEPT ![s] = [open |-> TRUE, spans |-> FALSE]]
          /\ UNCHANGED <<backend, filing, pass, lateWrite, lateFlush, cardLost>>
      BY <1>1 DEF StartTurnIn
    <2>5. StoreTypeOK'
      BY <2>2, <2>3, <2>4, <1>t DEF StoreTypeOK, Buffers
    <2> QED
      BY <2>2, <2>3, <2>4, <2>5, <1>t DEF StoreInv, StoreTypeOK, ChosenThenFiledIsLate, FiledUnderACard, RetentionKeepsTheRecord, HasSession
  <1>2. ASSUME NEW s \in Sessions, RecordSpan(s) PROVE StoreInv'
    BY <1>2, <1>t, OnlyBuffersMove DEF RecordSpan, StoreTypeOK, Buffers
  <1>3. ASSUME NEW s \in Sessions, MintCard(s) PROVE StoreInv'
    <2>1. [rows[s] EXCEPT !.card = "unused"] \in SessionRows
      BY <1>t DEF StoreTypeOK, SessionRows
    <2>2. StoreTypeOK'
      BY <2>1, <1>3, <1>t DEF MintCard, StoreTypeOK
    <2>3. ASSUME NEW r \in Sessions
          PROVE  /\ rows'[r].write = rows[r].write /\ rows'[r].session = rows[r].session
                 /\ rows'[r].turn = rows[r].turn /\ rows'[r].spans = rows[r].spans
                 /\ r # s => rows'[r].card = rows[r].card
      BY <1>3, <1>t DEF MintCard, StoreTypeOK, SessionRows
    <2>4. rows'[s].card = "unused" /\ ~rows[s].write /\ s \notin filing /\ cardLost' = cardLost \ {s}
      BY <1>3, <1>t DEF MintCard, StoreTypeOK, SessionRows
    <2> QED
      BY <1>3, <2>2, <2>3, <2>4 DEF MintCard, StoreInv, StoreTypeOK, ChosenThenFiledIsLate, FiledUnderACard, RetentionKeepsTheRecord, HasSession
  <1>4. ASSUME NEW s \in Sessions, SpendCard(s) PROVE StoreInv'
    <2>1. [rows[s] EXCEPT !.card = "used"] \in SessionRows
      BY <1>t DEF StoreTypeOK, SessionRows
    <2>2. StoreTypeOK'
      BY <2>1, <1>4, <1>t DEF SpendCard, StoreTypeOK
    <2>3. ASSUME NEW r \in Sessions
          PROVE  /\ rows'[r].write = rows[r].write /\ rows'[r].session = rows[r].session
                 /\ rows'[r].turn = rows[r].turn /\ rows'[r].spans = rows[r].spans
                 /\ r # s => rows'[r].card = rows[r].card
      BY <1>4, <1>t DEF SpendCard, StoreTypeOK, SessionRows
    <2>4. rows'[s].card = "used" /\ rows[s].card = "unused" /\ filing' = filing \cup {s}
      BY <1>4, <1>t DEF SpendCard, StoreTypeOK, SessionRows
    <2> QED
      BY <1>4, <2>2, <2>3, <2>4 DEF SpendCard, StoreInv, StoreTypeOK, ChosenThenFiledIsLate, FiledUnderACard, RetentionKeepsTheRecord, HasSession
  <1>11. ASSUME NEW s \in Sessions, NEW reaches \in BOOLEAN, InsertWrite(s, reaches) PROVE StoreInv'
    <2> DEFINE stored == reaches /\ (backend = "sqlite" => rows[s].card = "used")
    <2>1. /\ s \in filing /\ filing' = filing \ {s}
          /\ rows' = IF stored THEN [rows EXCEPT ![s].write = TRUE] ELSE rows
          /\ lateWrite' = IF stored /\ (s \in pass.doomed \/ ~HasSession(s)) THEN lateWrite \cup {s} ELSE lateWrite
          /\ UNCHANGED <<backend, memory, pass, lateFlush, cardLost>>
      BY <1>11 DEF InsertWrite
    <2>2. CASE ~stored
      BY <2>1, <2>2, <1>t DEF StoreInv, StoreTypeOK, ChosenThenFiledIsLate, FiledUnderACard, RetentionKeepsTheRecord, HasSession
    <2>3. CASE stored
      <3>1. [rows[s] EXCEPT !.write = TRUE] \in SessionRows
        BY ZenonT(40), <1>t DEF StoreTypeOK, SessionRows
      <3>2. rows' = [rows EXCEPT ![s] = [rows[s] EXCEPT !.write = TRUE]]
        BY <2>1, <2>3, <1>t DEF StoreTypeOK, SessionRows
      <3>3. StoreTypeOK'
        BY <2>1, <3>1, <3>2, <1>t DEF StoreTypeOK
      <3>4. ASSUME NEW r \in Sessions
            PROVE  /\ rows'[r].session = rows[r].session /\ rows'[r].card = rows[r].card
                   /\ rows'[r].turn = rows[r].turn /\ rows'[r].spans = rows[r].spans
                   /\ r # s => rows'[r].write = rows[r].write
        BY <3>2, <1>t DEF StoreTypeOK, SessionRows
      <3>5. rows[s].card = "used" \/ (rows[s].card = "none" /\ s \in cardLost /\ backend = "turso")
        BY <2>1, <2>3, <1>t DEF StoreInv, FiledUnderACard, StoreTypeOK, build_store
      <3>6. lateWrite' = IF s \in pass.doomed \/ ~HasSession(s) THEN lateWrite \cup {s} ELSE lateWrite
        BY <2>1, <2>3
      <3> HIDE DEF stored
      <3> QED
        BY <2>1, <3>3, <3>4, <3>5, <3>6 DEF StoreInv, StoreTypeOK, ChosenThenFiledIsLate, FiledUnderACard, RetentionKeepsTheRecord, HasSession
    <2> QED
      BY <2>2, <2>3
  <1>5. ASSUME NEW s \in Sessions, NEW reaches \in BOOLEAN, CloseTurn(s, reaches) PROVE StoreInv'
    <2> DEFINE stored == reaches /\ ForeignKeyHolds(s) /\ memory[s].spans
    <2>1. /\ rows' = IF stored THEN [rows EXCEPT ![s].spans = TRUE] ELSE rows
          /\ lateFlush' = IF stored /\ ~rows[s].turn THEN lateFlush \cup {s} ELSE lateFlush
          /\ memory' = [memory EXCEPT ![s] = [open |-> FALSE, spans |-> FALSE]]
          /\ UNCHANGED <<backend, filing, pass, lateWrite, cardLost>>
      BY <1>5 DEF CloseTurn
    <2>2. CASE ~stored
      BY <2>1, <2>2, <1>t, OnlyBuffersMove DEF StoreTypeOK, Buffers
    <2>3. CASE stored
      <3>1. backend = "turso" \/ rows[s].turn
        BY <2>3, <1>t DEF ForeignKeyHolds, StoreTypeOK, build_store
      <3>2. [rows[s] EXCEPT !.spans = TRUE] \in SessionRows
        BY ZenonT(40), <1>t DEF StoreTypeOK, SessionRows
      <3>3. rows' = [rows EXCEPT ![s] = [rows[s] EXCEPT !.spans = TRUE]]
        BY <2>1, <2>3, <1>t DEF StoreTypeOK, SessionRows
      <3>4. StoreTypeOK'
        BY <2>1, <3>2, <3>3, <1>t DEF StoreTypeOK, Buffers
      <3>5. ASSUME NEW r \in Sessions
            PROVE  /\ rows'[r].write = rows[r].write /\ rows'[r].session = rows[r].session
                   /\ rows'[r].turn = rows[r].turn /\ rows'[r].card = rows[r].card
                   /\ r # s => rows'[r].spans = rows[r].spans
        BY <3>3, <1>t DEF StoreTypeOK, SessionRows
      <3>6. lateFlush' = IF ~rows[s].turn THEN lateFlush \cup {s} ELSE lateFlush
        BY <2>1, <2>3
      <3> HIDE DEF stored
      <3> QED
        BY <2>1, <3>1, <3>4, <3>5, <3>6 DEF StoreInv, StoreTypeOK, ChosenThenFiledIsLate, FiledUnderACard, RetentionKeepsTheRecord, HasSession
    <2> QED
      BY <2>2, <2>3
  <1>6. ASSUME NEW s \in Sessions, ReopenTurn(s) PROVE StoreInv'
    BY <1>6, <1>t, OnlyBuffersMove DEF ReopenTurn, StoreTypeOK, Buffers
  <1>7. CASE ResetSandbox
    <2>1. \A s \in Sessions : rows'[s] = [rows[s] EXCEPT !.write = FALSE]
      BY <1>7 DEF ResetSandbox
    <2>2. ASSUME NEW s \in Sessions
          PROVE  /\ rows'[s] \in SessionRows /\ ~rows'[s].write
                 /\ rows'[s].session = rows[s].session /\ rows'[s].turn = rows[s].turn
                 /\ rows'[s].spans = rows[s].spans /\ rows'[s].card = rows[s].card
      BY <2>1, <1>t DEF StoreTypeOK, SessionRows
    <2>3. DOMAIN rows' = Sessions /\ rows' = [s \in Sessions |-> rows'[s]]
      BY <1>7 DEF ResetSandbox
    <2>4. rows' \in [Sessions -> SessionRows]
      BY <2>2, <2>3
    <2> QED
      BY <1>7, <2>2, <2>4 DEF ResetSandbox, StoreInv, StoreTypeOK, ChosenThenFiledIsLate, FiledUnderACard, RetentionKeepsTheRecord, HasSession
  <1>8. CASE SelectPrunable
    <2>1. PRUNABLE_SESSIONS \subseteq Sessions /\ \A s \in PRUNABLE_SESSIONS : ~rows[s].write
      BY DEF PRUNABLE_SESSIONS
    <2>2. pass' \in [at : {"idle", "pruning"}, doomed : SUBSET Sessions]
      BY <1>8, <2>1 DEF SelectPrunable
    <2>3. /\ pass'.at = "idle" => pass'.doomed = {}
          /\ \A s \in pass'.doomed : ~rows[s].write
      BY <1>8, <2>1 DEF SelectPrunable
    <2> QED
      BY <1>8, <2>2, <2>3 DEF SelectPrunable, StoreInv, StoreTypeOK, ChosenThenFiledIsLate, FiledUnderACard, RetentionKeepsTheRecord, HasSession
  <1>9. ASSUME NEW committed \in BOOLEAN, NEW answered \in BOOLEAN, DeletePruned(committed, answered) PROVE StoreInv'
    <2>1. /\ pass' = [at |-> "idle", doomed |-> {}]
          /\ UNCHANGED <<backend, filing, memory, lateWrite>>
      BY <1>9 DEF DeletePruned
    <2>2. CASE ~committed
      BY <1>9, <2>1, <2>2 DEF DeletePruned, StoreInv, StoreTypeOK, ChosenThenFiledIsLate, FiledUnderACard, RetentionKeepsTheRecord, HasSession
    <2>3. CASE committed
      <3>1. /\ rows' = [s \in Sessions |-> IF s \in pass.doomed THEN Pruned5(rows[s]) ELSE rows[s]]
            /\ lateFlush' = lateFlush \ pass.doomed
            /\ cardLost' = cardLost \cup (pass.doomed \cap filing)
        BY <1>9, <2>3 DEF DeletePruned
      <3>2. ASSUME NEW s \in Sessions, s \in pass.doomed
            PROVE  /\ rows'[s] \in SessionRows /\ rows'[s].write = rows[s].write /\ ~rows'[s].turn
                   /\ ~rows'[s].spans /\ rows'[s].card = IF rows[s].write THEN rows[s].card ELSE "none"
        <4>1. rows'[s] = [session |-> 0, exempt |-> FALSE, turn |-> FALSE, spans |-> FALSE,
                          card |-> IF rows[s].write THEN rows[s].card ELSE "none", write |-> rows[s].write]
          BY <3>1, <3>2 DEF Pruned5, NoRows
        <4> QED
          BY <4>1, <1>t, StoreConstants DEF StoreTypeOK, SessionRows
      <3>3. ASSUME NEW s \in Sessions, s \notin pass.doomed PROVE rows'[s] = rows[s]
        BY <3>1, <3>3
      <3>4. rows' \in [Sessions -> SessionRows]
        BY <3>1, <3>2, <3>3, <1>t DEF StoreTypeOK
      <3> QED
        BY <2>1, <3>1, <3>2, <3>3, <3>4 DEF StoreInv, StoreTypeOK, ChosenThenFiledIsLate, FiledUnderACard, RetentionKeepsTheRecord, HasSession
    <2> QED
      BY <2>2, <2>3
  <1>10. CASE UNCHANGED storeVars
    BY <1>10 DEF storeVars, StoreInv, StoreTypeOK, ChosenThenFiledIsLate, FiledUnderACard, RetentionKeepsTheRecord, HasSession
  <1> QED
    BY <1>1, <1>2, <1>3, <1>4, <1>5, <1>6, <1>7, <1>8, <1>9, <1>10, <1>11 DEF StoreNext

(***************************************************************************)
(* Retention keeps the record up to the exceptions the property names: a   *)
(* write without its card only over Turso and only when a sweep came       *)
(* between the card's UPDATE and the write's INSERT, a write without its   *)
(* session only when it was filed after the sweep's SELECT; whatever the   *)
(* number of sessions, of writes and of sandbox resets (retention.sweep,   *)
(* consume).                                                               *)
(***************************************************************************)
THEOREM RetentionIsSafe == StoreInit /\ [][StoreNext]_storeVars => []RetentionKeepsTheRecord
  <1>1. StoreInv => RetentionKeepsTheRecord
    BY DEF StoreInv
  <1> QED
    BY <1>1, StoreInitially, StoreStep, PTL

-----------------------------------------------------------------------------
(* The model calls.  The counter of the day is never further behind the     *)
(* record than what the query that seeded it could not see, and what is in  *)
(* the cache was made.                                                      *)
LlmSpan == [provider : Providers, ok : BOOLEAN, hit : BOOLEAN, key : CallKeys, day : Nat]

RoundTrip ==
    [at : {"first", "second"}, key : CallKeys, day : 0..utcDay, left : Int, schema : BOOLEAN,
     who : Providers, mode : {"chat", "strict", "prompted", "prompted_repair"}]

InACall == [at : {"limiter"}, key : CallKeys] \cup RoundTrip

CacheRows == [row : {"none"}] \cup [row : {"fresh", "stale"}, provider : Providers]

LlmTypeOK ==
    /\ llmSetup \in build_agent_model
    /\ call \in [Callers -> {NoCall} \cup InACall]
    /\ spanLog \in [Callers -> Seq(LlmSpan)]
    /\ flushedLlm \in [Callers -> Nat]
    /\ heard \in [Callers -> Seq({"ok", "failed"})]
    /\ counter \in [day : Nat, seeded : BOOLEAN, count : Nat, since : Nat]
    /\ unseen \in Nat
    /\ llmCache \in [CallKeys -> CacheRows]
    /\ utcDay \in Nat

\* No span is of a day to come, and the store has no more of them than there are.
SpansArePast ==
    \A t \in Callers :
        /\ flushedLlm[t] <= Len(spanLog[t])
        /\ \A i \in DOMAIN spanLog[t] : spanLog[t][i].day <= utcDay

\* The counter, rolled to today, is behind what was recorded by what the last seed missed.
CounterKeepsUp ==
    /\ IsFiniteSet(Places(Recorded))
    /\ RecordedToday <= rolled.count + unseen

\* A completion with this key was made, by this provider, and it succeeded.
WasMade(log, k, p) ==
    \E u \in Callers : \E j \in DOMAIN log[u] :
        ~log[u][j].hit /\ log[u][j].ok /\ log[u][j].key = k /\ log[u][j].provider = p

CachedWasMade == \A k \in CallKeys : llmCache[k].row # "none" => WasMade(spanLog, k, llmCache[k].provider)

LlmInv == LlmTypeOK /\ SpansArePast /\ CounterKeepsUp /\ CachedWasMade /\ SpansTellTheCalls

\* Before the first call nothing is recorded.
LEMMA LlmInitially == LlmInit => LlmInv
  <1> SUFFICES ASSUME LlmInit PROVE LlmInv
    OBVIOUS
  <1>1. LlmTypeOK
    BY LlmConstants DEF LlmInit, LlmTypeOK, CacheRows, InACall
  <1>2. Places(Recorded) = {}
    BY DEF LlmInit, Places, Recorded
  <1>3. IsFiniteSet(Places(Recorded)) /\ RecordedToday = 0
    <2>1. TodaysSpans(Recorded) = {}
      BY <1>2 DEF TodaysSpans
    <2> QED
      BY <1>2, <2>1, FS_EmptySet DEF RecordedToday
  <1>4. CounterKeepsUp
    BY <1>3 DEF CounterKeepsUp, rolled, LlmInit
  <1>5. SpansArePast /\ CachedWasMade /\ SpansTellTheCalls
    BY DEF LlmInit, SpansArePast, CachedWasMade, SpansTellTheCalls
  <1> QED
    BY <1>1, <1>4, <1>5 DEF LlmInv

\* The counter and its rolled form have the same type.
LEMMA RolledType ==
  ASSUME LlmTypeOK
  PROVE  rolled \in [day : Nat, seeded : BOOLEAN, count : Nat, since : Nat] /\ rolled.day = utcDay
  BY DEF LlmTypeOK, rolled

\* A recorded call counts when it went to the primary provider.
LEMMA RecordCounts ==
  ASSUME LlmTypeOK, NEW p \in Providers
  PROVE  /\ record(p) \in [day : Nat, seeded : BOOLEAN, count : Nat, since : Nat]
         /\ record(p).day = utcDay
         /\ record(p).count = rolled.count + (IF p = llmSetup.primary THEN 1 ELSE 0)
  <1>1. /\ rolled \in [day : Nat, seeded : BOOLEAN, count : Nat, since : Nat]
        /\ rolled.day = utcDay
    BY RolledType
  <1> DEFINE since == IF rolled.seeded THEN rolled.since + 1 ELSE rolled.since
  <1>2. since \in Nat
    BY <1>1
  <1>3. record(p) = IF p # llmSetup.primary THEN rolled ELSE [rolled EXCEPT !.count = rolled.count + 1, !.since = since]
    BY <1>1 DEF record
  <1> HIDE DEF since
  <1>4. CASE p # llmSetup.primary
    BY <1>1, <1>3, <1>4
  <1>5. CASE p = llmSetup.primary
    <2>1. record(p) = [rolled EXCEPT !.count = rolled.count + 1, !.since = since]
      BY <1>3, <1>5
    <2>2. rolled.count + 1 \in Nat /\ rolled.count \in Nat
      BY <1>1
    <2>3. record(p) \in [day : Nat, seeded : BOOLEAN, count : Nat, since : Nat]
      BY <1>1, <1>2, <2>1, <2>2
    <2>4. record(p).count = rolled.count + 1 /\ record(p).day = rolled.day
      BY <1>1, <2>1
    <2> QED
      BY <1>1, <1>5, <2>3, <2>4
  <1> QED
    BY <1>4, <1>5

\* The places of the first spans, one by one.
LEMMA PlaceIn ==
  ASSUME NEW upto, NEW x
  PROVE  x \in Places(upto) <=> \E t \in Callers : \E i \in 1..upto[t] : x = <<t, i>>
  BY DEF Places

\* One more span is at most one more of today's.
LEMMA TodayGrowsByOne ==
  ASSUME LlmTypeOK, CounterKeepsUp, NEW t \in Callers, NEW s \in LlmSpan,
         spanLog' = [spanLog EXCEPT ![t] = Append(@, s)], UNCHANGED <<llmSetup, utcDay>>
  PROVE  /\ IsFiniteSet(Places(Recorded)')
         /\ RecordedToday \in Nat
         /\ RecordedToday' \in Nat
         /\ RecordedToday' <= RecordedToday + (IF s.provider = llmSetup.primary THEN 1 ELSE 0)
  <1> DEFINE n == Len(spanLog[t]) + 1
             new == <<t, n>>
             old == TodaysSpans(Recorded)
  <1>1. \A u \in Callers : spanLog'[u] = IF u = t THEN Append(spanLog[t], s) ELSE spanLog[u]
    BY DEF LlmTypeOK
  <1>2. /\ spanLog[t] \in Seq(LlmSpan) /\ Len(spanLog'[t]) = n
        /\ spanLog'[t][n] = s /\ \A i \in 1..(n - 1) : spanLog'[t][i] = spanLog[t][i]
    BY <1>1 DEF LlmTypeOK
  <1>3. \A u \in Callers : Recorded[u] \in Nat /\ Recorded'[u] = IF u = t THEN n ELSE Recorded[u]
    BY <1>1, <1>2 DEF Recorded, LlmTypeOK
  <1>4. Recorded[t] = n - 1 /\ n \in Nat
    BY <1>2 DEF Recorded
  <1>5. Places(Recorded)' \subseteq Places(Recorded) \cup {new}
    <2>1. ASSUME NEW x \in Places(Recorded') PROVE x \in Places(Recorded) \cup {new}
      <3>0. PICK u \in Callers : \E i \in 1..Recorded'[u] : x = <<u, i>>
        BY PlaceIn
      <3>1. PICK i \in 1..Recorded'[u] : x = <<u, i>>
        BY <3>0
      <3>2. CASE u = t /\ i = n
        BY <3>1, <3>2
      <3>3. CASE ~(u = t /\ i = n)
        <4>1. i \in 1..Recorded[u]
          BY <1>3, <1>4, <3>3
        <4> QED
          BY <4>1, <3>1, PlaceIn
      <3> QED
        BY <3>2, <3>3
    <2> QED
      BY <2>1 DEF Places
  <1>6. IsFiniteSet(Places(Recorded)')
    BY <1>5, FS_AddElement, FS_Subset DEF CounterKeepsUp
  <1>7. ASSUME NEW x \in TodaysSpans(Recorded)'
        PROVE  x \in old \/ (x = new /\ s.provider = llmSetup.primary)
    <2>1. /\ x \in Places(Recorded)'
          /\ spanLog'[x[1]][x[2]].day = utcDay /\ spanLog'[x[1]][x[2]].provider = llmSetup.primary
      BY <1>7 DEF TodaysSpans, IsToday
    <2>2. CASE x = new
      BY <2>1, <2>2, <1>2
    <2>3. CASE x # new
      <3>1. x \in Places(Recorded)
        BY <2>1, <2>3, <1>5
      <3>0. PICK u \in Callers : \E i \in 1..Recorded[u] : x = <<u, i>>
        BY <3>1, PlaceIn
      <3>2. PICK i \in 1..Recorded[u] : x = <<u, i>>
        BY <3>0
      <3>3. spanLog'[u][i] = spanLog[u][i]
        BY <1>1, <1>2, <1>4, <3>2
      <3>4. IsToday(spanLog[u][i])
        BY <2>1, <3>2, <3>3 DEF IsToday
      <3> QED
        BY <3>1, <3>2, <3>4 DEF TodaysSpans
    <2> QED
      BY <2>2, <2>3
  <1>8. IsFiniteSet(old)
    BY FS_Subset DEF CounterKeepsUp, TodaysSpans
  <1>9. IsFiniteSet(TodaysSpans(Recorded)')
    BY <1>6, FS_Subset DEF TodaysSpans
  <1>10. RecordedToday \in Nat /\ RecordedToday' \in Nat
    BY <1>8, <1>9, FS_CardinalityType DEF RecordedToday
  <1>11. CASE s.provider # llmSetup.primary
    <2>1. TodaysSpans(Recorded)' \subseteq old
      BY <1>7, <1>11
    <2>2. Cardinality(TodaysSpans(Recorded)') <= Cardinality(old)
      BY <2>1, <1>8, FS_Subset
    <2> QED
      BY <2>2, <1>6, <1>10, <1>11 DEF RecordedToday
  <1>12. CASE s.provider = llmSetup.primary
    <2>1. TodaysSpans(Recorded)' \subseteq old \cup {new}
      BY <1>7
    <2>0. Cardinality(old) \in Nat
      BY <1>8, FS_CardinalityType
    <2>a. /\ IsFiniteSet(old \cup {new})
          /\ Cardinality(old \cup {new}) = IF new \in old THEN Cardinality(old) ELSE Cardinality(old) + 1
      BY <1>8, FS_AddElement
    <2>2. IsFiniteSet(old \cup {new}) /\ Cardinality(old \cup {new}) <= Cardinality(old) + 1
      BY <2>0, <2>a
    <2>3. Cardinality(TodaysSpans(Recorded)') <= Cardinality(old \cup {new})
      BY <2>1, <2>2, FS_Subset
    <2>4. Cardinality(old \cup {new}) \in Nat
      BY <2>2, FS_CardinalityType
    <2>5. RecordedToday' <= RecordedToday + 1
      BY <2>2, <2>3, <2>4, <1>10 DEF RecordedToday
    <2> QED
      BY <2>5, <1>6, <1>10, <1>12
  <1> QED
    BY <1>11, <1>12

\* One call is recorded and its turn told: a span that is a hit repeats a made call,
\* and only a call that succeeded goes into the cache.
LEMMA TheCallIsRecorded ==
  ASSUME LlmInv, NEW t \in Callers, NEW s \in LlmSpan, NEW result \in {"ok", "failed"},
         s.day <= utcDay, s.ok = (result = "ok"), s.hit => WasMade(spanLog, s.key, s.provider),
         record_llm_call(t, s), Answered(t, result),
         UNCHANGED <<llmSetup, flushedLlm, unseen, utcDay>>,
         call' \in [Callers -> {NoCall} \cup InACall],
         \/ llmCache' = llmCache
         \/ /\ s.ok /\ ~s.hit
            /\ llmCache' = [llmCache EXCEPT ![s.key] = [row |-> "fresh", provider |-> s.provider]]
  PROVE  LlmInv'
  <1>t. LlmTypeOK /\ SpansArePast /\ CounterKeepsUp /\ CachedWasMade /\ SpansTellTheCalls
    BY DEF LlmInv
  <1> DEFINE n == Len(spanLog[t]) + 1
  <1>1. /\ spanLog' = [spanLog EXCEPT ![t] = Append(spanLog[t], s)]
        /\ counter' = record(s.provider)
        /\ heard' = [heard EXCEPT ![t] = Append(heard[t], result)]
    BY <1>t DEF record_llm_call, Answered, LlmTypeOK
  <1>2. /\ s.key \in CallKeys /\ s.provider \in Providers
        /\ spanLog[t] \in Seq(LlmSpan) /\ heard[t] \in Seq({"ok", "failed"})
    BY <1>t DEF LlmTypeOK, LlmSpan
  <1>3. /\ counter' \in [day : Nat, seeded : BOOLEAN, count : Nat, since : Nat]
        /\ counter'.day = utcDay
        /\ counter'.count = rolled.count + (IF s.provider = llmSetup.primary THEN 1 ELSE 0)
    BY <1>t, <1>1, <1>2, RecordCounts
  <1>4. LlmTypeOK'
    <2>1. spanLog' \in [Callers -> Seq(LlmSpan)] /\ heard' \in [Callers -> Seq({"ok", "failed"})]
      BY <1>t, <1>1, <1>2 DEF LlmTypeOK
    <2>0. [row |-> "fresh", provider |-> s.provider] \in CacheRows
      BY <1>2 DEF CacheRows
    <2>2. llmCache' \in [CallKeys -> CacheRows]
      BY <2>0, <1>t, <1>2 DEF LlmTypeOK
    <2>3. call' \in [Callers -> {NoCall} \cup InACall']
      BY DEF InACall, RoundTrip
    <2> QED
      BY <2>1, <2>2, <2>3, <1>3, <1>t DEF LlmTypeOK
  <1>5. ASSUME NEW u \in Callers
        PROVE  /\ u # t => spanLog'[u] = spanLog[u] /\ heard'[u] = heard[u]
               /\ u = t => /\ Len(spanLog'[u]) = n /\ spanLog'[u][n] = s
                           /\ \A i \in 1..(n - 1) : spanLog'[u][i] = spanLog[u][i]
                           /\ DOMAIN spanLog'[u] = 1..n /\ DOMAIN spanLog[u] = 1..(n - 1)
    BY <1>1, <1>2, <1>t DEF LlmTypeOK
  <1>6. n \in Nat /\ \A u \in Callers : Len(spanLog[u]) \in Nat /\ flushedLlm[u] \in Nat
    BY <1>t DEF LlmTypeOK
  <1>7. SpansArePast'
    <2>1. ASSUME NEW u \in Callers
          PROVE  /\ flushedLlm[u] <= Len(spanLog'[u])
                 /\ \A i \in DOMAIN spanLog'[u] : spanLog'[u][i].day <= utcDay
      <3>1. CASE u # t
        BY <3>1, <1>5, <1>t DEF SpansArePast
      <3>2. CASE u = t
        BY SMTT(20), <3>2, <1>5, <1>6, <1>t DEF SpansArePast
      <3> QED
        BY <3>1, <3>2
    <2> QED
      BY <2>1 DEF SpansArePast
  <1>8. CounterKeepsUp'
    <2>1. spanLog' = [spanLog EXCEPT ![t] = Append(@, s)]
      BY <1>1
    <2>2. /\ IsFiniteSet(Places(Recorded)')
          /\ RecordedToday \in Nat /\ RecordedToday' \in Nat
          /\ RecordedToday' <= RecordedToday + (IF s.provider = llmSetup.primary THEN 1 ELSE 0)
      BY <2>1, <1>t, TodayGrowsByOne
    <2>3. rolled' = counter'
      BY <1>3 DEF rolled
    <2>4. RecordedToday <= rolled.count + unseen /\ rolled.count \in Nat /\ unseen \in Nat
      BY <1>t, RolledType DEF CounterKeepsUp, LlmTypeOK
    <2>5. RecordedToday' <= rolled'.count + unseen'
      BY <1>3, <2>2, <2>3, <2>4
    <2> QED
      BY <2>2, <2>5 DEF CounterKeepsUp
  <1>9. ASSUME NEW k, NEW p, WasMade(spanLog, k, p) PROVE WasMade(spanLog', k, p)
    <2>0. PICK u \in Callers : \E j \in DOMAIN spanLog[u] :
             ~spanLog[u][j].hit /\ spanLog[u][j].ok /\ spanLog[u][j].key = k /\ spanLog[u][j].provider = p
      BY <1>9 DEF WasMade
    <2>1. PICK j \in DOMAIN spanLog[u] :
             ~spanLog[u][j].hit /\ spanLog[u][j].ok /\ spanLog[u][j].key = k /\ spanLog[u][j].provider = p
      BY <2>0
    <2>2. j \in DOMAIN spanLog'[u] /\ spanLog'[u][j] = spanLog[u][j]
      BY <1>5, <1>6
    <2> QED
      BY <2>1, <2>2 DEF WasMade
  <1>10. s.ok /\ ~s.hit => WasMade(spanLog', s.key, s.provider)
    BY <1>5, <1>6 DEF WasMade
  <1>11. CachedWasMade'
    <2>1. ASSUME NEW k \in CallKeys, llmCache'[k].row # "none" PROVE WasMade(spanLog', k, llmCache'[k].provider)
      <3>1. CASE llmCache'[k] = llmCache[k]
        BY <2>1, <3>1, <1>9, <1>t DEF CachedWasMade
      <3>2. CASE llmCache'[k] # llmCache[k]
        <4>1. s.ok /\ ~s.hit /\ k = s.key /\ llmCache'[k].provider = s.provider
          BY <3>2, <1>t DEF LlmTypeOK
        <4> QED
          BY <4>1, <1>10
      <3> QED
        BY <3>1, <3>2
    <2> QED
      BY <2>1 DEF CachedWasMade
  <1>12. SpansTellTheCalls'
    <2>1. ASSUME NEW u \in Callers
          PROVE  /\ Len(heard'[u]) = Len(spanLog'[u])
                 /\ \A i \in DOMAIN heard'[u] :
                       /\ spanLog'[u][i].ok = (heard'[u][i] = "ok")
                       /\ spanLog'[u][i].hit => WasMade(spanLog', spanLog'[u][i].key, spanLog'[u][i].provider)
      <3>0. /\ Len(heard[u]) = Len(spanLog[u])
            /\ \A i \in DOMAIN heard[u] :
                  /\ spanLog[u][i].ok = (heard[u][i] = "ok")
                  /\ spanLog[u][i].hit => WasMade(spanLog, spanLog[u][i].key, spanLog[u][i].provider)
        BY <1>t DEF SpansTellTheCalls, WasMade
      <3>1. CASE u # t
        BY <3>1, <3>0, <1>5, <1>9
      <3>2. CASE u = t
        <4>1. /\ DOMAIN heard[t] = 1..(n - 1) /\ DOMAIN heard'[t] = 1..n /\ Len(heard'[t]) = n
              /\ heard'[t][n] = result /\ \A i \in 1..(n - 1) : heard'[t][i] = heard[t][i]
          BY <3>0, <3>2, <1>1, <1>2, <1>t DEF LlmTypeOK
        <4>2. spanLog'[t][n].hit => WasMade(spanLog', spanLog'[t][n].key, spanLog'[t][n].provider)
          BY <1>5, <1>9
        <4>3. \A i \in 1..(n - 1) :
                  /\ spanLog'[t][i].ok = (heard'[t][i] = "ok")
                  /\ spanLog'[t][i].hit => WasMade(spanLog', spanLog'[t][i].key, spanLog'[t][i].provider)
          BY SMTT(20), <3>0, <3>2, <4>1, <1>5, <1>9
        <4>4. spanLog'[t][n].ok = (heard'[t][n] = "ok") /\ Len(spanLog'[t]) = n
          BY <4>1, <1>5
        <4>5. ASSUME NEW i \in 1..n
              PROVE  /\ spanLog'[t][i].ok = (heard'[t][i] = "ok")
                     /\ spanLog'[t][i].hit => WasMade(spanLog', spanLog'[t][i].key, spanLog'[t][i].provider)
          <5>1. i = n \/ i \in 1..(n - 1)
            BY <1>6
          <5> QED
            BY <5>1, <4>2, <4>3, <4>4
        <4> QED
          BY <4>1, <4>4, <4>5, <3>2
      <3> QED
        BY <3>1, <3>2
    <2> QED
      BY <2>1 DEF SpansTellTheCalls, WasMade
  <1> QED
    BY <1>4, <1>7, <1>8, <1>11, <1>12 DEF LlmInv

\* A step that records nothing and tells the turns nothing.
LEMMA NothingRecorded ==
  ASSUME LlmInv, call' \in [Callers -> {NoCall} \cup InACall],
         UNCHANGED <<llmSetup, spanLog, flushedLlm, heard, counter, unseen, llmCache, utcDay>>
  PROVE  LlmInv'
  <1>1. LlmTypeOK'
    BY DEF LlmInv, LlmTypeOK, InACall, RoundTrip
  <1>2. CounterKeepsUp'
    BY DEF LlmInv, CounterKeepsUp, rolled, RecordedToday, Recorded, Places, TodaysSpans, IsToday
  <1> QED
    BY <1>1, <1>2 DEF LlmInv, SpansArePast, CachedWasMade, SpansTellTheCalls, WasMade

\* Finish is the record of a call that was no hit.
LEMMA FinishRecords ==
  ASSUME LlmInv, NEW t \in Callers, NEW ok \in BOOLEAN, call[t] \in RoundTrip,
         Finish(t, ok, call[t].who), KeepShared
  PROVE  LlmInv'
  <1> DEFINE c == call[t]
             p == IF ok THEN c.who ELSE llmSetup.primary
             s == [provider |-> p, ok |-> ok, hit |-> FALSE, key |-> c.key, day |-> c.day]
             result == IF ok THEN "ok" ELSE "failed"
  <1>t. LlmTypeOK
    BY DEF LlmInv
  <1>1. c.key \in CallKeys /\ c.day \in 0..utcDay /\ c.who \in Providers
    BY DEF RoundTrip
  <1>2. p \in Providers /\ c.day \in Nat /\ c.day <= utcDay
    BY <1>1, <1>t DEF LlmTypeOK, build_agent_model
  <1>3. s \in LlmSpan /\ s.day <= utcDay /\ s.ok = ok /\ ~s.hit /\ s.key = c.key /\ s.provider = p
    BY <1>1, <1>2 DEF LlmSpan
  <1>4. /\ record_llm_call(t, s) /\ Answered(t, result) /\ call' = [call EXCEPT ![t] = NoCall]
        /\ llmCache' = IF ok /\ llmSetup.cached
                       THEN [llmCache EXCEPT ![c.key] = [row |-> "fresh", provider |-> c.who]] ELSE llmCache
        /\ UNCHANGED <<llmSetup, flushedLlm, unseen, utcDay>>
    BY DEF Finish, KeepShared
  <1>5. call' \in [Callers -> {NoCall} \cup InACall]
    BY <1>4, <1>t DEF LlmTypeOK
  <1>6. result \in {"ok", "failed"} /\ s.ok = (result = "ok")
    BY <1>3
  <1>7. \/ llmCache' = llmCache
        \/ /\ s.ok /\ ~s.hit
           /\ llmCache' = [llmCache EXCEPT ![s.key] = [row |-> "fresh", provider |-> s.provider]]
    BY <1>3, <1>4
  <1> HIDE DEF s, result, p, c
  <1> QED
    BY <1>3, <1>4, <1>5, <1>6, <1>7, TheCallIsRecorded

\* The next round trip of a call.
LEMMA NextTripType ==
  ASSUME LlmInv, NEW t \in Callers, NEW trip \in RoundTrip, call' = [call EXCEPT ![t] = trip]
  PROVE  call' \in [Callers -> {NoCall} \cup InACall]
  BY DEF LlmInv, LlmTypeOK, InACall

\* Whoever is in a round trip has its budget, provider and mode.
LEMMA CallingIsARoundTrip ==
  ASSUME LlmInv, NEW t \in Callers, Calling(t)
  PROVE  call[t] \in RoundTrip
  <1>1. call[t] \in {NoCall} \cup InACall
    BY DEF LlmInv, LlmTypeOK
  <1>2. call[t] # NoCall
    BY DEF Calling, NoCall
  <1>3. call[t] \notin [at : {"limiter"}, key : CallKeys]
    BY DEF Calling
  <1> QED
    BY <1>1, <1>2, <1>3 DEF InACall

\* What the cap's check leaves of the counter, and what it lets through.
LEMMA TheCapIsChecked ==
  ASSUME LlmInv, CheckDailyCap, UNCHANGED <<llmSetup, spanLog, flushedLlm, utcDay>>
  PROVE  /\ counter' \in [day : Nat, seeded : BOOLEAN, count : Nat, since : Nat] /\ unseen' \in Nat
         /\ CounterKeepsUp'
         /\ (Capped /\ ~CapRefuses) => RecordedToday < DailyCap + unseen'
  <1>t. LlmTypeOK /\ CounterKeepsUp /\ SpansArePast
    BY DEF LlmInv
  <1>1. /\ rolled \in [day : Nat, seeded : BOOLEAN, count : Nat, since : Nat]
        /\ rolled.day = utcDay
    BY <1>t, RolledType
  <1>2. IsFiniteSet(TodaysSpans(Recorded))
    BY <1>t, FS_Subset DEF CounterKeepsUp, TodaysSpans
  <1>3. TodaysSpans(flushedLlm) \subseteq TodaysSpans(Recorded)
    <2>1. ASSUME NEW x \in Places(flushedLlm) PROVE x \in Places(Recorded)
      <3>1. PICK t \in Callers : \E i \in 1..flushedLlm[t] : x = <<t, i>>
        BY PlaceIn
      <3>2. flushedLlm[t] \in Nat /\ Recorded[t] \in Nat /\ flushedLlm[t] <= Recorded[t]
        BY <1>t DEF LlmTypeOK, SpansArePast, Recorded
      <3>3. \E i \in 1..Recorded[t] : x = <<t, i>>
        BY <3>1, <3>2
      <3> QED
        BY <3>3, PlaceIn
    <2> QED
      BY <2>1 DEF TodaysSpans
  <1>4. /\ RecordedToday \in Nat /\ count_calls_today \in Nat
        /\ count_calls_today <= RecordedToday
    BY <1>2, <1>3, FS_Subset, FS_CardinalityType DEF RecordedToday, count_calls_today
  <1>5. RecordedToday' = RecordedToday /\ Places(Recorded)' = Places(Recorded)
    BY DEF RecordedToday, Recorded, Places, TodaysSpans, IsToday
  <1>6. RecordedToday <= rolled.count + unseen
    BY <1>t DEF CounterKeepsUp
  <1>7. CASE CapAsksStore
    <2>1. counter' = seed(count_calls_today) /\ unseen' = RecordedToday - count_calls_today
      BY <1>7 DEF CheckDailyCap
    <2>2. counter' = [rolled EXCEPT !.seeded = TRUE, !.count = count_calls_today, !.since = 0]
      BY <2>1 DEF seed
    <2>3. counter' \in [day : Nat, seeded : BOOLEAN, count : Nat, since : Nat]
      BY <2>2, <1>1, <1>4
    <2>4. counter'.count = count_calls_today /\ counter'.day = utcDay
      BY <2>2, <1>1
    <2>5. rolled' = counter'
      BY <2>4 DEF rolled
    <2>6. RecordedToday' <= rolled'.count + unseen'
      BY <2>1, <2>4, <2>5, <1>4, <1>5
    <2>7. ~CapRefuses => RecordedToday < DailyCap + unseen'
      BY <1>7, <1>4, <2>1, LlmConstants DEF CapRefuses
    <2> QED
      BY <2>1, <2>3, <2>6, <2>7, <1>4, <1>5, <1>t DEF CounterKeepsUp
  <1>8. CASE ~CapAsksStore
    <2>1. counter' = (IF Capped THEN rolled ELSE counter) /\ unseen' = unseen
      BY <1>8 DEF CheckDailyCap
    <2>2. counter' \in [day : Nat, seeded : BOOLEAN, count : Nat, since : Nat] /\ unseen' \in Nat
      BY <2>1, <1>1, <1>t DEF LlmTypeOK
    <2>3. rolled' = rolled
      BY <2>1, <1>1 DEF rolled
    <2>4. CounterKeepsUp'
      BY <2>1, <2>3, <1>5, <1>t DEF CounterKeepsUp
    <2>5. Capped => RecordedToday < DailyCap + unseen'
      BY <1>8, <1>1, <1>4, <1>6, <2>1, LlmConstants, <1>t DEF CapAsksStore, below, LlmTypeOK
    <2> QED
      BY <2>2, <2>4, <2>5
  <1> QED
    BY <1>7, <1>8

\* Every action between two awaits keeps the invariant.
LEMMA LlmStep == LlmInv /\ [LlmNext]_llmVars => LlmInv'
  <1> SUFFICES ASSUME LlmInv, [LlmNext]_llmVars PROVE LlmInv'
    OBVIOUS
  <1>t. LlmTypeOK
    BY DEF LlmInv
  <1>1. ASSUME NEW t \in Callers, NEW k \in CallKeys, complete(t, k) PROVE LlmInv'
    <2>1. UNCHANGED <<llmSetup, flushedLlm, llmCache, utcDay>>
      BY <1>1 DEF complete
    <2>2. CASE CacheHit(t, k)
      <3> DEFINE s == [provider |-> llmCache[k].provider, ok |-> TRUE, hit |-> TRUE, key |-> k, day |-> utcDay]
      <3>1. llmCache[k] \in [row : {"fresh", "stale"}, provider : Providers] /\ llmCache[k].row = "fresh"
        BY <2>2, <1>t DEF CacheHit, LlmTypeOK, CacheRows
      <3>0. utcDay \in Nat /\ llmCache[k].provider \in Providers
        BY <3>1, <1>t DEF LlmTypeOK
      <3>2. s \in LlmSpan /\ s.day <= utcDay /\ s.ok
        BY <3>0 DEF LlmSpan
      <3>3. WasMade(spanLog, s.key, s.provider)
        BY <3>1 DEF LlmInv, CachedWasMade
      <3>4. record_llm_call(t, s) /\ Answered(t, "ok") /\ UNCHANGED <<call, unseen>>
        BY <2>2 DEF CacheHit
      <3>5. call' \in [Callers -> {NoCall} \cup InACall]
        BY <3>4, <1>t DEF LlmTypeOK
      <3>6. s.ok = ("ok" = "ok")
        BY <3>2
      <3> HIDE DEF s
      <3> QED
        BY <2>1, <3>2, <3>3, <3>4, <3>5, <3>6, TheCallIsRecorded
    <2>3. CASE CacheMiss(t, k)
      <3>1. /\ counter' \in [day : Nat, seeded : BOOLEAN, count : Nat, since : Nat] /\ unseen' \in Nat
            /\ CounterKeepsUp'
        BY <2>1, <2>3, TheCapIsChecked DEF CacheMiss
      <3>2. call' \in [Callers -> {NoCall} \cup InACall]
        <4>1. [at |-> "limiter", key |-> k] \in InACall
          BY DEF InACall
        <4> QED
          BY <4>1, <2>3, <1>t DEF CacheMiss, LlmTypeOK
      <3>3. UNCHANGED <<spanLog, heard>>
        BY <2>3 DEF CacheMiss
      <3>4. LlmTypeOK'
        BY <1>t, <2>1, <3>1, <3>2, <3>3 DEF LlmTypeOK, InACall, RoundTrip
      <3> QED
        BY <2>1, <3>1, <3>3, <3>4 DEF LlmInv, SpansArePast, CachedWasMade, SpansTellTheCalls, WasMade
    <2> QED
      BY <1>1, <2>2, <2>3 DEF complete
  <1>2. ASSUME NEW t \in Callers, acquire(t) PROVE LlmInv'
    <2>1. PICK schema \in BOOLEAN :
             call' = [call EXCEPT ![t] = [at |-> "first", key |-> call[t].key, day |-> utcDay,
                left |-> CallBudget, schema |-> schema, who |-> llmSetup.primary,
                mode |-> IF llmSetup.primary = "openai_compat" /\ schema THEN "strict" ELSE "chat"]]
      BY <1>2, <1>t DEF acquire, LlmTypeOK
    <2>2. call[t].key \in CallKeys
      BY <1>2, <1>t DEF acquire, LlmTypeOK, InACall, RoundTrip, NoCall
    <2>3. [at |-> "first", key |-> call[t].key, day |-> utcDay,
           left |-> CallBudget, schema |-> schema, who |-> llmSetup.primary,
           mode |-> IF llmSetup.primary = "openai_compat" /\ schema THEN "strict" ELSE "chat"] \in RoundTrip
      BY <2>2, <1>t, LlmConstants DEF RoundTrip, LlmTypeOK, build_agent_model
    <2>4. call' \in [Callers -> {NoCall} \cup InACall]
      BY <2>1, <2>3, NextTripType
    <2> QED
      BY <1>2, <2>4, NothingRecorded DEF acquire
  <1>3. CASE refill
    BY <1>3, <1>t, NothingRecorded DEF refill, LlmTypeOK
  <1>4. ASSUME NEW t \in Callers, NEW d \in 1..RoundTripMax, NEW mode \in {"prompted", "prompted_repair"},
               Calling(t), NextChat(t, d, mode), KeepShared
        PROVE  LlmInv'
    <2>1. call[t] \in RoundTrip
      BY <1>4, CallingIsARoundTrip
    <2> DEFINE left == call[t].left - d
    <2>0. left \in Int
      BY <2>1 DEF RoundTrip
    <2>3. call' = [call EXCEPT ![t] = [call[t] EXCEPT !.left = left, !.mode = mode]]
      BY <1>4, <2>1 DEF NextChat, RoundTrip
    <2> HIDE DEF left
    <2>2. [call[t] EXCEPT !.left = left, !.mode = mode] \in RoundTrip
      BY <2>0, <2>1 DEF RoundTrip
    <2>4. call' \in [Callers -> {NoCall} \cup InACall]
      BY <2>2, <2>3, NextTripType
    <2> QED
      BY <1>4, <2>4, NothingRecorded DEF NextChat, KeepRecord, KeepShared
  <1>5. ASSUME NEW t \in Callers, NEW d \in 1..RoundTripMax, NEW json \in BOOLEAN, ChatAnswers(t, d, json)
        PROVE  LlmInv'
    <2>1. CASE call[t].mode = "prompted" /\ ~json
      BY <1>5, <2>1, <1>4 DEF ChatAnswers
    <2>2. CASE ~(call[t].mode = "prompted" /\ ~json)
      BY <1>5, <2>2, CallingIsARoundTrip, FinishRecords DEF ChatAnswers
    <2> QED
      BY <2>1, <2>2
  <1>6. ASSUME NEW t \in Callers, NEW d \in 1..RoundTripMax, StrictRejected(t, d) PROVE LlmInv'
    BY <1>6, <1>4 DEF StrictRejected
  <1>7. ASSUME NEW t \in Callers, NEW d \in 1..RoundTripMax, NEW retryable \in BOOLEAN,
               NEW delay \in 0..(MaxBackoff + 1), ChatFails(t, d, retryable, delay)
        PROVE  LlmInv'
    <2>1. call[t] \in RoundTrip
      BY <1>7, CallingIsARoundTrip DEF ChatFails
    <2>2. CASE ~(call[t].at = "first" /\ retryable)
      BY <1>7, <2>1, <2>2, FinishRecords DEF ChatFails
    <2>3. CASE call[t].at = "first" /\ retryable
      <3> DEFINE c == call[t]
                 left == c.left - d
                 rest == IF delay <= MaxBackoff /\ delay < left THEN left - delay ELSE left
                 who == IF llmSetup.fallback THEN "openai_compat" ELSE c.who
                 mode == IF who = "openai_compat" /\ c.schema THEN "strict" ELSE "chat"
                 trip == [c EXCEPT !.at = "second", !.who = who, !.left = rest, !.mode = mode]
      <3>1. SecondAttempt(t, d, delay) /\ KeepShared
        BY <1>7, <2>3 DEF ChatFails
      <3>2. call' = [call EXCEPT ![t] = trip] /\ KeepRecord
        BY <3>1, <2>1 DEF SecondAttempt, RoundTrip
      <3>3. who \in Providers /\ rest \in Int /\ mode \in {"chat", "strict"}
        BY <2>1, LlmConstants DEF RoundTrip, Providers
      <3> HIDE DEF who, rest, mode
      <3>4. trip \in RoundTrip
        BY <2>1, <3>3 DEF RoundTrip
      <3>5. call' \in [Callers -> {NoCall} \cup InACall]
        BY <3>2, <3>4, NextTripType
      <3> QED
        BY <3>1, <3>2, <3>5, NothingRecorded DEF KeepRecord, KeepShared
    <2> QED
      BY <2>2, <2>3
  <1>8. ASSUME NEW t \in Callers, BudgetSpent(t) PROVE LlmInv'
    BY <1>8, CallingIsARoundTrip, FinishRecords DEF BudgetSpent
  <1>9. ASSUME NEW t \in Callers, FlushLlm(t) PROVE LlmInv'
    <2>1. /\ flushedLlm' = [flushedLlm EXCEPT ![t] = Len(spanLog[t])]
          /\ UNCHANGED <<llmSetup, call, spanLog, heard, counter, unseen, llmCache, utcDay>>
      BY <1>9 DEF FlushLlm
    <2>2. LlmTypeOK'
      BY <1>t, <2>1 DEF LlmTypeOK, InACall, RoundTrip
    <2>3. SpansArePast'
      BY <1>t, <2>1 DEF LlmInv, SpansArePast, LlmTypeOK
    <2>4. CounterKeepsUp'
      BY <2>1 DEF LlmInv, CounterKeepsUp, rolled, RecordedToday, Recorded, Places, TodaysSpans, IsToday
    <2> QED
      BY <2>1, <2>2, <2>3, <2>4 DEF LlmInv, CachedWasMade, SpansTellTheCalls, WasMade
  <1>10. ASSUME NEW k \in CallKeys, CacheAges(k) PROVE LlmInv'
    <2>1. /\ llmCache' = [llmCache EXCEPT ![k] = [llmCache[k] EXCEPT !.row = "stale"]]
          /\ UNCHANGED <<llmSetup, call, spanLog, flushedLlm, heard, counter, unseen, utcDay>>
      BY <1>10, <1>t DEF CacheAges, LlmTypeOK
    <2>2. llmCache[k] \in [row : {"fresh", "stale"}, provider : Providers] /\ llmCache[k].row = "fresh"
      BY <1>10, <1>t DEF CacheAges, LlmTypeOK, CacheRows
    <2>3. /\ [llmCache[k] EXCEPT !.row = "stale"] \in CacheRows
          /\ [llmCache[k] EXCEPT !.row = "stale"].provider = llmCache[k].provider
      BY <2>2 DEF CacheRows
    <2>4. LlmTypeOK'
      BY <1>t, <2>1, <2>3 DEF LlmTypeOK, InACall, RoundTrip
    <2>5. CachedWasMade'
      BY <2>1, <2>2, <2>3, <1>t DEF LlmInv, CachedWasMade, LlmTypeOK, WasMade
    <2>6. CounterKeepsUp'
      BY <2>1 DEF LlmInv, CounterKeepsUp, rolled, RecordedToday, Recorded, Places, TodaysSpans, IsToday
    <2> QED
      BY <2>1, <2>4, <2>5, <2>6 DEF LlmInv, SpansArePast, SpansTellTheCalls, WasMade
  <1>11. CASE Midnight
    <2>1. utcDay' = utcDay + 1 /\ UNCHANGED <<llmSetup, call, spanLog, flushedLlm, heard, counter, unseen, llmCache>>
      BY <1>11 DEF Midnight
    <2>2. InACall \subseteq InACall'
      BY <2>1, <1>t DEF InACall, RoundTrip, LlmTypeOK
    <2>3. LlmTypeOK'
      BY <1>t, <2>1, <2>2 DEF LlmTypeOK
    <2>a. ASSUME NEW t \in Callers, NEW i \in DOMAIN spanLog[t] PROVE spanLog[t][i].day \in Nat
      <3>1. spanLog[t] \in Seq(LlmSpan)
        BY <1>t DEF LlmTypeOK
      <3>2. spanLog[t][i] \in LlmSpan
        BY <3>1
      <3> QED
        BY <3>2 DEF LlmSpan
    <2>4. SpansArePast'
      BY <1>t, <2>1, <2>a DEF LlmInv, SpansArePast, LlmTypeOK
    <2>5. CounterKeepsUp'
      <3>1. Recorded' = Recorded /\ Places(Recorded)' = Places(Recorded)
        BY <2>1 DEF Recorded, Places
      <3>2. TodaysSpans(Recorded)' = {}
        <4> SUFFICES ASSUME NEW x \in TodaysSpans(Recorded)' PROVE FALSE
          OBVIOUS
        <4>1. x \in Places(Recorded) /\ spanLog[x[1]][x[2]].day = utcDay + 1
          BY <2>1, <3>1 DEF TodaysSpans, IsToday
        <4>2. PICK t \in Callers : \E i \in 1..Recorded[t] : x = <<t, i>>
          BY <4>1, PlaceIn
        <4>3. PICK i \in 1..Recorded[t] : x = <<t, i>>
          BY <4>2
        <4>4. i \in DOMAIN spanLog[t] /\ spanLog[t][i].day \in Nat
          BY <2>a, <1>t DEF Recorded, LlmTypeOK
        <4>5. spanLog[t][i].day <= utcDay
          BY <4>4 DEF LlmInv, SpansArePast
        <4> QED
          BY <4>1, <4>3, <4>4, <4>5, <1>t DEF LlmTypeOK
      <3>3. RecordedToday' = 0
        BY <3>2, FS_EmptySet DEF RecordedToday
      <3>4. rolled'.count \in Nat
        BY <2>1, <2>3, RolledType, <1>t DEF rolled, LlmTypeOK
      <3> QED
        BY <2>1, <3>1, <3>3, <3>4, <1>t DEF LlmInv, CounterKeepsUp, LlmTypeOK
    <2> QED
      BY <2>1, <2>3, <2>4, <2>5 DEF LlmInv, CachedWasMade, SpansTellTheCalls, WasMade
  <1>12. CASE UNCHANGED llmVars
    BY <1>12, <1>t, NothingRecorded DEF llmVars, LlmTypeOK
  <1> QED
    BY <1>1, <1>2, <1>3, <1>5, <1>6, <1>7, <1>8, <1>9, <1>10, <1>11, <1>12 DEF LlmNext

(***************************************************************************)
(* Every call that was not refused is recorded once, in order and          *)
(* truthfully, and a cache hit repeats a call that was really made (the    *)
(* span after the with-block of complete(), CachedAdapter), for any number *)
(* of turns and calls.                                                     *)
(***************************************************************************)
THEOREM CallsAreRecorded == LlmInit /\ [][LlmNext]_llmVars => []SpansTellTheCalls
  <1>1. LlmInv => SpansTellTheCalls
    BY DEF LlmInv
  <1> QED
    BY <1>1, LlmInitially, LlmStep, PTL

(***************************************************************************)
(* A call let through the daily cap finds fewer calls recorded than the    *)
(* cap and what the last seeding query missed (DailyCallCounter), for any  *)
(* cap, any reseeding interval and any number of turns.                    *)
(***************************************************************************)
THEOREM CapIsKept == LlmInit /\ [][LlmNext]_llmVars => CapOvershootIsTheUnflushed
  <1> DEFINE Kept ==
        \A t \in Callers :
          (Capped /\ call[t].at = "idle" /\ call'[t].at = "limiter") => RecordedToday < DailyCap + unseen'
  <1>1. LlmInv /\ [LlmNext]_llmVars => [Kept]_llmVars
    <2> SUFFICES ASSUME LlmInv, LlmNext, NEW t \in Callers,
                        Capped, call[t].at = "idle", call'[t].at = "limiter"
                 PROVE  RecordedToday < DailyCap + unseen'
      OBVIOUS
    <2>t. LlmTypeOK
      BY DEF LlmInv
    <2>1. ASSUME NEW u \in Callers, NEW k \in CallKeys, complete(u, k) PROVE RecordedToday < DailyCap + unseen'
      <3>1. UNCHANGED <<llmSetup, flushedLlm, utcDay>>
        BY <2>1 DEF complete
      <3>2. ~CacheHit(u, k)
        BY DEF CacheHit
      <3>3. CacheMiss(u, k)
        BY <2>1, <3>2 DEF complete
      <3>4. CheckDailyCap /\ UNCHANGED spanLog /\ ~CapRefuses
        BY <3>3 DEF CacheMiss
      <3> QED
        BY <3>1, <3>4, TheCapIsChecked
    <2>2. ASSUME NEW u \in Callers, acquire(u) PROVE FALSE
      BY <2>2, <2>t DEF acquire, LlmTypeOK
    <2>3. ASSUME UNCHANGED call PROVE FALSE
      BY <2>3
    <2>4. ASSUME NEW u \in Callers, Calling(u), NEW c, call' = [call EXCEPT ![u] = c], c.at # "limiter" PROVE FALSE
      BY <2>4, <2>t DEF LlmTypeOK
    <2>5. ASSUME NEW u \in Callers, Calling(u), NEW ok, Finish(u, ok, call[u].who) PROVE FALSE
      BY <2>5, <2>4 DEF Finish, NoCall
    <2>6. ASSUME NEW u \in Callers, Calling(u), NEW d, NEW mode, NextChat(u, d, mode) PROVE FALSE
      <3>1. call' = [call EXCEPT ![u] = [call[u] EXCEPT !.left = @ - d, !.mode = mode]]
        BY <2>6 DEF NextChat
      <3>2. call[u] \in RoundTrip
        BY <2>6, CallingIsARoundTrip
      <3> QED
        BY <2>6, <3>1, <3>2, <2>4 DEF RoundTrip
    <2>7. ASSUME NEW u \in Callers, Calling(u), NEW d, NEW delay, SecondAttempt(u, d, delay) PROVE FALSE
      <3>1. call[u] \in RoundTrip
        BY <2>7, CallingIsARoundTrip
      <3>2. PICK who, left, mode :
              call' = [call EXCEPT ![u].at = "second", ![u].who = who, ![u].left = left, ![u].mode = mode]
        BY <2>7 DEF SecondAttempt
      <3>3. call'[u].at = "second" \/ u # t
        BY <3>1, <3>2, <2>t DEF LlmTypeOK, RoundTrip
      <3>4. u # t => call'[t] = call[t]
        BY <3>2, <2>t DEF LlmTypeOK
      <3> QED
        BY <3>3, <3>4
    <2> QED
      BY <2>1, <2>2, <2>3, <2>5, <2>6, <2>7
         DEF LlmNext, refill, ChatAnswers, StrictRejected, ChatFails, BudgetSpent, FlushLlm, CacheAges, Midnight
  <1> QED
    BY <1>1, LlmInitially, LlmStep, PTL DEF CapOvershootIsTheUnflushed

-----------------------------------------------------------------------------
(* The MCP client: whoever is in a handshake holds the lock, on a           *)
(* connection of its own, and nobody has a catalog while it lasts.          *)
Live == {"opening", "open"}
InHandshake == {"opening", "listing"}

Stations == {"start", "reset", "lock", "opening", "listing", "ready", "calling", "done"}

UserRecord ==
    [at : Stations, mine : Connections \cup {None}, why : {None, "begin", "again", "call"}, calls : Nat]

McpTypeOK ==
    /\ role \in [McpUsers -> {"turn", "health", "admin"}]
    /\ user \in [McpUsers -> UserRecord]
    /\ conn \in [Connections -> {"free", "opening", "open", "dead"}]
    /\ _connection \in Connections \cup {None}
    /\ _catalog \in Connections \cup {None}
    /\ _lock \in McpUsers \cup {None}

\* The lock is the one handshake: only its holder is in one, on a connection of its
\* own, and there is no catalog yet.
LockIsTheHandshake ==
    /\ \A u \in McpUsers : user[u].at \in InHandshake <=> _lock = u
    /\ _lock # None => _catalog = None /\ user[_lock].mine \in Connections

\* The shared connection has been opened.
SharedWasOpened == _connection # None => conn[_connection] \in {"open", "dead"}

McpInv == McpTypeOK /\ LockIsTheHandshake /\ SharedWasOpened /\ CatalogAndConnectionAgree

\* Before the first handshake there is no connection.
LEMMA McpInitially == McpInit => McpInv
  BY McpConstants DEF McpInit, McpInv, McpTypeOK, LockIsTheHandshake, SharedWasOpened,
     CatalogAndConnectionAgree, InHandshake, UserRecord, Stations, None

\* discover()'s answer takes its user out of the handshake and touches no other.
LeavesHandshake(u) ==
    /\ user' \in [McpUsers -> UserRecord]
    /\ user'[u].at \notin InHandshake
    /\ \A v \in McpUsers \ {u} : user'[v] = user[v]

\* A caller goes from the handshake to a station outside it.
LEMMA GoesOff ==
  ASSUME NEW u \in McpUsers, McpTypeOK, NEW at \in Stations \ InHandshake, NEW mine \in Connections \cup {None},
         user' = [user EXCEPT ![u].at = at, ![u].mine = mine]
  PROVE  LeavesHandshake(u)
  <1> DEFINE r == [user[u] EXCEPT !.at = at, !.mine = mine]
  <1>1. user[u] \in UserRecord
    BY DEF McpTypeOK
  <1>2. r \in UserRecord /\ r.at = at
    BY <1>1 DEF UserRecord
  <1>3. user' = [user EXCEPT ![u] = r]
    BY <1>1 DEF McpTypeOK
  <1> HIDE DEF r
  <1>4. DOMAIN user = McpUsers /\ \A v \in McpUsers : user[v] \in UserRecord
    BY DEF McpTypeOK
  <1>5. user'[u] = r /\ \A v \in McpUsers \ {u} : user'[v] = user[v]
    BY <1>3, <1>4
  <1>6. user' \in [McpUsers -> UserRecord]
    BY <1>2, <1>3, <1>4
  <1> QED
    BY <1>2, <1>5, <1>6 DEF LeavesHandshake

\* The end of a discovery leaves the handshake, whatever it found.
LEMMA AfterDiscoverLeaves ==
  ASSUME NEW u \in McpUsers, McpTypeOK, _connection' \in Connections \cup {None},
         AfterDiscover(u)
  PROVE  LeavesHandshake(u)
  <1> DEFINE calls == user[u].why = "call"
             live == calls /\ SessionOf(_connection')
             at == IF live THEN "calling" ELSE IF calls \/ role[u] = "turn" THEN "ready" ELSE "done"
             mine == IF live THEN _connection' ELSE None
  <1>1. user' = [user EXCEPT ![u].at = at, ![u].mine = mine]
    BY DEF AfterDiscover
  <1>2. at \in Stations \ InHandshake /\ mine \in Connections \cup {None}
    BY DEF Stations, InHandshake
  <1> HIDE DEF at, mine
  <1> QED
    BY <1>1, <1>2, GoesOff

\* So does its failure.
LEMMA AfterFailureLeaves ==
  ASSUME NEW u \in McpUsers, McpTypeOK, AfterFailure(u)
  PROVE  LeavesHandshake(u)
  <1> DEFINE again == user[u].why = "begin" /\ role[u] = "turn"
             at == IF user[u].why = "call" THEN "ready" ELSE IF again THEN "reset" ELSE "done"
             why == IF again THEN "again" ELSE user[u].why
  <1>1. user' = [user EXCEPT ![u].at = at, ![u].mine = None, ![u].why = why]
    BY DEF AfterFailure, McpTypeOK, UserRecord
  <1>2. at \in Stations \ InHandshake /\ why \in {None, "begin", "again", "call"}
    BY DEF Stations, InHandshake, McpTypeOK, UserRecord
  <1> HIDE DEF at, why
  <1> DEFINE r == [user[u] EXCEPT !.at = at, !.mine = None, !.why = why]
  <1>3. user[u] \in UserRecord /\ user \in [McpUsers -> UserRecord]
    BY DEF McpTypeOK
  <1>4. r \in UserRecord /\ r.at = at
    BY <1>2, <1>3 DEF UserRecord
  <1>5. user' = [user EXCEPT ![u] = r]
    BY <1>1, <1>3
  <1> HIDE DEF r
  <1>6. user' \in [McpUsers -> UserRecord] /\ user'[u] = r
        /\ \A v \in McpUsers \ {u} : user'[v] = user[v]
    BY <1>3, <1>4, <1>5
  <1> QED
    BY <1>2, <1>4, <1>6 DEF LeavesHandshake

\* A step of a user that is in no handshake and enters none, and touches nothing shared.
LEMMA StepAside ==
  ASSUME McpInv, NEW u \in McpUsers, user[u].at \notin InHandshake, LeavesHandshake(u),
         UNCHANGED <<role, conn, _connection, _catalog, _lock, orphaned>>
  PROVE  McpInv'
  BY McpConstants
  DEF McpInv, McpTypeOK, LockIsTheHandshake, SharedWasOpened, CatalogAndConnectionAgree, LeavesHandshake, InHandshake

\* Every await of a user, and every opening and death of a connection, keeps them.
LEMMA McpStep == McpInv /\ [McpNext]_mcpVars => McpInv'
  <1> SUFFICES ASSUME McpInv, [McpNext]_mcpVars PROVE McpInv'
    OBVIOUS
  <1> USE McpConstants DEF McpInv
  <1>1. ASSUME NEW u \in McpUsers, Start(u) PROVE McpInv'
    <2> DEFINE at == IF role[u] = "admin" THEN "reset" ELSE "lock"
    <2>1. user' = [user EXCEPT ![u].at = at, ![u].why = "begin"] /\ user[u].at = "start"
      BY <1>1 DEF Start
    <2>2. at \in Stations \ InHandshake
      BY DEF Stations, InHandshake
    <2> HIDE DEF at
    <2>3. LeavesHandshake(u)
      BY ZenonT(40), <2>1, <2>2 DEF LeavesHandshake, McpTypeOK, UserRecord
    <2> QED
      BY <1>1, <2>1, <2>3, StepAside DEF Start, InHandshake
  <1>2. ASSUME NEW u \in McpUsers, DiscoverCached(u) PROVE McpInv'
    <2>1. AfterDiscover(u) /\ _connection' \in Connections \cup {None}
      BY <1>2 DEF DiscoverCached, McpTypeOK
    <2> QED
      BY <1>2, <2>1, AfterDiscoverLeaves, StepAside DEF DiscoverCached, InHandshake
  <1>3. ASSUME NEW u \in McpUsers, HandshakeStarts(u) PROVE McpInv'
    <2> DEFINE c == CHOOSE c \in Fresh : TRUE
    <2>1. c \in Connections /\ c # _connection /\ conn[c] \in {"free", "dead"}
      BY <1>3 DEF HandshakeStarts, Fresh, Referenced
    <2>2. /\ conn' = [conn EXCEPT ![c] = "opening"]
          /\ user' = [user EXCEPT ![u].at = "opening", ![u].mine = c]
          /\ _lock = None /\ _lock' = u /\ _catalog = None
          /\ UNCHANGED <<role, _connection, _catalog, orphaned>>
      BY <1>3 DEF HandshakeStarts
    <2> HIDE DEF c
    <2>3. McpTypeOK' /\ user'[u].at = "opening" /\ user'[u].mine = c
          /\ \A v \in McpUsers \ {u} : user'[v] = user[v]
      BY ZenonT(40), <2>1, <2>2 DEF McpTypeOK, UserRecord, Stations
    <2>4. LockIsTheHandshake' /\ SharedWasOpened'
      BY <2>1, <2>2, <2>3 DEF McpTypeOK, LockIsTheHandshake, SharedWasOpened, InHandshake
    <2>5. CatalogAndConnectionAgree'
      BY <2>1, <2>2, <2>3 DEF McpTypeOK, CatalogAndConnectionAgree
    <2> QED
      BY <2>3, <2>4, <2>5
  <1>4. ASSUME NEW u \in McpUsers, HandshakeOpened(u) PROVE McpInv'
    BY <1>4 DEF HandshakeOpened, Go, McpTypeOK, LockIsTheHandshake, SharedWasOpened, CatalogAndConnectionAgree, InHandshake,
         UserRecord, Stations, LeavesHandshake
  <1>5. ASSUME NEW u \in McpUsers, HandshakeFails(u) PROVE McpInv'
    <2>1. AfterFailure(u) /\ _lock = u
      BY <1>5 DEF HandshakeFails, LockIsTheHandshake, InHandshake
    <2> QED
      BY <1>5, <2>1, AfterFailureLeaves
      DEF HandshakeFails, McpTypeOK, LockIsTheHandshake, SharedWasOpened, CatalogAndConnectionAgree, InHandshake,
         UserRecord, Stations, LeavesHandshake
  <1>6. ASSUME NEW u \in McpUsers, NEW ok \in BOOLEAN, HandshakeListed(u, ok) PROVE McpInv'
    <2>1. _lock = u /\ user[u].mine \in Connections /\ _catalog = None
      BY <1>6 DEF HandshakeListed, LockIsTheHandshake, InHandshake
    <2>2. _connection' \in Connections \cup {None}
      BY <1>6, <2>1 DEF HandshakeListed
    <2>3. LeavesHandshake(u)
      BY <1>6, <2>2, AfterDiscoverLeaves, AfterFailureLeaves DEF HandshakeListed
    <2> QED
      BY <1>6, <2>1, <2>3
      DEF HandshakeListed, SessionOf, McpTypeOK, LockIsTheHandshake, SharedWasOpened, CatalogAndConnectionAgree, InHandshake,
         UserRecord, Stations, LeavesHandshake
  <1>7. ASSUME NEW u \in McpUsers, reset(u) PROVE McpInv'
    BY <1>7 DEF reset, Go, McpTypeOK, LockIsTheHandshake, SharedWasOpened, CatalogAndConnectionAgree, InHandshake,
         UserRecord, Stations, LeavesHandshake
  <1>8. ASSUME NEW u \in McpUsers, CallReturns(u) \/ CallFails(u) PROVE McpInv'
    <2>1. user' = [user EXCEPT ![u].at = "ready", ![u].mine = None] /\ user[u].at = "calling"
      BY <1>8 DEF CallReturns, CallFails
    <2>a. "ready" \in Stations \ InHandshake
      BY DEF Stations, InHandshake
    <2>2. LeavesHandshake(u)
      BY <2>1, <2>a, GoesOff
    <2> QED
      BY <1>8, <2>1, <2>2, StepAside DEF CallReturns, CallFails, InHandshake
  <1>9. ASSUME NEW u \in McpUsers, HealthTimesOut(u) PROVE McpInv'
    <2>1. user' = [user EXCEPT ![u].at = "done", ![u].mine = None]
      BY <1>9 DEF HealthTimesOut
    <2>a. "done" \in Stations \ InHandshake
      BY DEF Stations, InHandshake
    <2>2. LeavesHandshake(u)
      BY <2>1, <2>a, GoesOff
    <2>3. McpTypeOK' /\ LockIsTheHandshake'
      BY <1>9, <2>2 DEF HealthTimesOut, LeavesHandshake, McpTypeOK, LockIsTheHandshake, InHandshake
    <2>4. SharedWasOpened' /\ CatalogAndConnectionAgree'
      BY <1>9, <2>2 DEF HealthTimesOut, LeavesHandshake, McpTypeOK, LockIsTheHandshake,
                        SharedWasOpened, CatalogAndConnectionAgree, InHandshake
    <2> QED
      BY <2>3, <2>4
  <1>10. ASSUME NEW u \in McpUsers, call_tool(u) PROVE McpInv'
    <2>1. LeavesHandshake(u)
      BY <1>10 DEF call_tool, LeavesHandshake, McpTypeOK, UserRecord, Stations, InHandshake
    <2> QED
      BY <1>10, <2>1, StepAside DEF call_tool, InHandshake
  <1>11. ASSUME NEW c \in Connections, Opens(c) \/ Dies(c) PROVE McpInv'
    BY <1>11 DEF Opens, Dies, McpTypeOK, LockIsTheHandshake, SharedWasOpened, CatalogAndConnectionAgree, InHandshake,
         UserRecord, Stations, LeavesHandshake
  <1>12. CASE UNCHANGED mcpVars
    BY <1>12 DEF mcpVars, McpTypeOK, LockIsTheHandshake, SharedWasOpened, CatalogAndConnectionAgree, InHandshake,
         UserRecord, Stations, LeavesHandshake
  <1> QED
    BY <1>1, <1>2, <1>3, <1>4, <1>5, <1>6, <1>7, <1>8, <1>9, <1>10, <1>11, <1>12 DEF McpNext, UserStep

(***************************************************************************)
(* The catalog a turn is offered is that of the connection its calls go    *)
(* to, and a live connection is in use, in a handshake or one of the two   *)
(* the code abandons (McpClient.discover, reset and call_tool), for any    *)
(* number of turns, health checks and connections.                         *)
(***************************************************************************)
THEOREM ClientIsOneConnection == McpInit /\ [][McpNext]_mcpVars => []CatalogAndConnectionAgree
  <1>1. McpInv => CatalogAndConnectionAgree
    BY DEF McpInv
  <1> QED
    BY <1>1, McpInitially, McpStep, PTL

-----------------------------------------------------------------------------
(* The process.  A step of it is a step of one service and leaves the      *)
(* variables of the others alone, so that a behaviour of the process is,   *)
(* seen from a service, a behaviour of that service.                       *)
\* The process starts with every service in one of its initial states.
LEMMA EveryServiceStarts ==
  ServicesInit => /\ LlmInit /\ RailInit /\ McpInit /\ GateInit /\ StoreInit /\ ArchiveInit /\ BootInit
  BY DEF ServicesInit

\* A step of the process is a step of each service, or leaves it alone.
LEMMA EveryServiceSteps ==
  ASSUME [ServicesNext]_servicesVars
  PROVE  /\ [LlmNext]_llmVars /\ [RailNext]_railVars /\ [McpNext]_mcpVars /\ [GateNext]_gateVars
         /\ [StoreNext]_storeVars /\ [ArchiveNext]_archiveVars /\ [BootNext]_bootVars
  <1>1. CASE UNCHANGED servicesVars
    BY <1>1 DEF servicesVars
  <1>2. CASE ServicesNext
    BY <1>2 DEF ServicesNext, LlmMoves, RailMoves, McpMoves, GateMoves, StoreMoves, ArchiveMoves, BootMoves
  <1> QED
    BY <1>1, <1>2

(***************************************************************************)
(* Every logical call that was not refused leaves one span, in order, and  *)
(* a cache hit repeats a call that really succeeded (record_llm_call).     *)
(***************************************************************************)
THEOREM ServedCallsAreRecorded == ServicesSpec => []SpansTellTheCalls
  BY EveryServiceStarts, EveryServiceSteps, CallsAreRecorded, PTL DEF ServicesSpec

(***************************************************************************)
(* The daily cap is overshot by no more than the spans the seeding query   *)
(* could not see (DailyCallCounter).                                       *)
(***************************************************************************)
THEOREM ServedCapIsKept == ServicesSpec => CapOvershootIsTheUnflushed
  BY EveryServiceStarts, EveryServiceSteps, CapIsKept, PTL DEF ServicesSpec

(***************************************************************************)
(* Every stream shows the frames of its turn in order and once, and all    *)
(* since it joined unless it fell short (SpanBroker, GET /chat/stream).    *)
(***************************************************************************)
THEOREM ServedRailIsTrue == ServicesSpec => []RailShowsTheTurn
  BY EveryServiceStarts, EveryServiceSteps, RailIsTrue, PTL DEF ServicesSpec

(***************************************************************************)
(* The catalog a turn is offered is the one of the connection its calls go *)
(* to, and no connection is leaked but the two the code abandons           *)
(* (MCPClient.discover, reset and call_tool).                              *)
(***************************************************************************)
THEOREM ServedClientIsOneConnection == ServicesSpec => []CatalogAndConnectionAgree
  BY EveryServiceStarts, EveryServiceSteps, ClientIsOneConnection, PTL DEF ServicesSpec

(***************************************************************************)
(* A browser is refused exactly when PerMinute of its admitted requests    *)
(* still lie in the window, whatever was swept (RateLimiter).              *)
(***************************************************************************)
THEOREM ServedLimiterIsExact == ServicesSpec => []LimiterIsASlidingWindow
  BY EveryServiceStarts, EveryServiceSteps, LimiterIsExact, PTL DEF ServicesSpec

(***************************************************************************)
(* Over SQLite a write keeps its used card; over Turso it can lose it only *)
(* to a sweep between the card's UPDATE and the write's INSERT.  It keeps  *)
(* its session unless it was filed after the sweep's SELECT, and a turn    *)
(* keeps its session (sweep, consume).                                     *)
(***************************************************************************)
THEOREM ServedRetentionIsSafe == ServicesSpec => []RetentionKeepsTheRecord
  BY EveryServiceStarts, EveryServiceSteps, RetentionIsSafe, PTL DEF ServicesSpec

(***************************************************************************)
(* What import_state vouches for is what eval_results holds, whatever two  *)
(* importers do to each other (import_results, _import_run).               *)
(***************************************************************************)
THEOREM ServedArchiveIsTrue == ServicesSpec => []VouchedForIsStored
  BY EveryServiceStarts, EveryServiceSteps, ArchiveIsTrue, PTL DEF ServicesSpec

(***************************************************************************)
(* Nothing the process does at its end leaves a turn open by itself, and   *)
(* it says ready only after the warm-up it owes (lifespan, _warm_up).      *)
(***************************************************************************)
THEOREM ServedShutdownIsClean == ServicesSpec => []ShutdownSettlesTurns
  BY EveryServiceStarts, EveryServiceSteps, ShutdownIsClean, PTL DEF ServicesSpec
===============================================================================
