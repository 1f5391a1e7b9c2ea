-------------------------- MODULE TurnTraceProofs --------------------------
(***************************************************************************)
(* What core/trace.py puts on record, proved for any number of turns,      *)
(* requests, spans, signals and faults, as long as no two requests resume  *)
(* one turn at a time (~Overlap; the run TraceOverlap shows what happens   *)
(* when they do).                                                          *)
(*                                                                         *)
(* A buffer is always one span ahead of the record and of what it holds:   *)
(* its next number is the length of the record, plus the spans it holds,   *)
(* plus one, and its totals are those of the row plus the spans it holds.  *)
(* That is inductive only with what keeps a turn in one pair of hands:     *)
(* one request for each turn, a registered buffer that belongs to it, and  *)
(* a checkpoint that finds every buffer it has collected still open.       *)
(*                                                                         *)
(* That a checkpoint by itself costs nothing rests on it too: until        *)
(* something fails, a buffer stays open until its own request closes it    *)
(* (Smooth), so every closing batch lands and the row says what the        *)
(* request goes on to answer.                                              *)
(***************************************************************************)
EXTENDS TurnTrace, SequenceTheorems, TLAPS

AtWork == {"register", "adopt", "use", "work", "error"}

\* What a live buffer knows of its turn's record.
Ahead(r, k) ==
    /\ buffer[r].next = Len(spans[TurnOf(r)]) + k + 1
    /\ buffer[r].count = turns[TurnOf(r)].count + k

InItsPlace(r) ==
    /\ At(r, "off") <=> TurnOf(r) = NoTurn
    /\ request[r].buffer \in {NoRequest, r}
    /\ At(r, "work") => request[r].buffer = r
    /\ At(r, "register") => ~ buffer[r].closed
    /\ request[r].pc \in {"batch", "pop", "popFailed"} => buffer[r].closed
    /\ request[r].pc \in AtWork /\ ~ buffer[r].closed => Ahead(r, buffer[r].held)
    /\ At(r, "batch") =>
          /\ request[r].buffer = r
          /\ request[r].ending # "none"
          /\ Ahead(r, request[r].taken)

Registered(r) ==
    /\ \A t \in Turns : openTurns[t] = r =>
          /\ TurnOf(r) = t
          /\ request[r].pc \notin {"off", "register", "answered"}
          /\ request[r].pc \in AtWork => ~ buffer[r].closed
    /\ r \in checkpoint => ~ buffer[r].closed

OneRequest ==
    \A p, q \in Requests : TurnOf(p) = TurnOf(q) /\ TurnOf(p) # NoTurn => p = q

NotYet ==
    \A t \in Turns, r \in Requests : turns[t].outcome = "absent" => TurnOf(r) # t

TraceInv ==
    /\ TraceTypeOK
    /\ SeqsRunOn
    /\ TotalsMatchSpans
    /\ OneRequest
    /\ NotYet
    /\ \A r \in Requests : InItsPlace(r) /\ Registered(r)
-----------------------------------------------------------------------------
\* A record that runs from 1 up still does when the spans that follow are added.
LEMMA RunGoesOn ==
    ASSUME NEW s \in Seq(Nat), \A i \in DOMAIN s : s[i] = i,
           NEW k \in Nat, NEW n \in Nat, n = Len(s) + k + 1
    PROVE  LET u == [i \in 1 .. k |-> n - k - 1 + i] IN
             /\ s \o u \in Seq(Nat)
             /\ Len(s \o u) = Len(s) + k
             /\ \A i \in DOMAIN (s \o u) : (s \o u)[i] = i
<1> DEFINE u == [i \in 1 .. k |-> n - k - 1 + i]
<1>1. Len(s) \in Nat /\ DOMAIN s = 1 .. Len(s)
  BY LenProperties
<1>2. \A i \in 1 .. k : n - k - 1 + i = Len(s) + i /\ n - k - 1 + i \in Nat
  BY <1>1
<1>3. u \in Seq(Nat) /\ Len(u) = k
  BY <1>2
<1>4. /\ s \o u \in Seq(Nat)
      /\ Len(s \o u) = Len(s) + k
      /\ \A i \in 1 .. Len(s) + k :
            (s \o u)[i] = IF i <= Len(s) THEN s[i] ELSE u[i - Len(s)]
  BY <1>3, ConcatProperties
<1>5. ASSUME NEW i \in 1 .. Len(s) + k
      PROVE  (s \o u)[i] = i
  <2>1. CASE i <= Len(s)
    BY <1>1, <1>4, <2>1
  <2>2. CASE i > Len(s)
    <3>1. i - Len(s) \in 1 .. k
      BY <1>1, <2>2
    <3>2. u[i - Len(s)] = i
      BY <1>1, <1>2, <3>1
    <3> QED BY <1>1, <1>4, <2>2, <3>2
  <2> QED BY <1>1, <2>1, <2>2
<1>6. DOMAIN (s \o u) = 1 .. Len(s) + k
  BY <1>4, LenProperties
<1> QED BY <1>4, <1>5, <1>6

\* Its largest number is its length, so that a reopened turn goes on after it.
LEMMA LastOfRun ==
    ASSUME NEW s \in Seq(Nat), \A i \in DOMAIN s : s[i] = i
    PROVE  MaxSeq(s) = Len(s)
<1>1. Len(s) \in Nat /\ DOMAIN s = 1 .. Len(s)
  BY LenProperties
<1>2. CASE s = <<>>
  BY <1>2 DEF MaxSeq
<1>3. CASE s # <<>>
  <2> DEFINE S == {s[i] : i \in DOMAIN s}
             P(m) == \A i \in DOMAIN s : s[i] <= m
  <2>1. Len(s) \in DOMAIN s
    BY <1>1, <1>3, EmptySeq
  <2>2. Len(s) \in S /\ P(Len(s))
    BY <1>1, <2>1
  <2>3. \A m \in S : P(m) => m = Len(s)
    BY <1>1, <2>1
  <2>4. (CHOOSE m \in S : P(m)) = Len(s)
    BY <2>2, <2>3
  <2> QED BY <1>3, <2>4 DEF MaxSeq
<1> QED BY <1>2, <1>3

\* A buffer made for a turn is in step with its record.
LEMMA ContinuedIsAhead ==
    ASSUME TraceInv, NEW t \in Turns
    PROVE  Continued(t) = [closed |-> FALSE, count |-> turns[t].count, held |-> 0,
                           next |-> Len(spans[t]) + 1]
BY LastOfRun DEF TraceInv, TraceTypeOK, SeqsRunOn, Continued

\* A closing batch leaves the record running on, with totals that match it.
LEMMA WriteRunsOn ==
    ASSUME TraceInv, NEW r \in Requests, NEW t \in Turns, TurnOf(r) = t,
           NEW k \in Nat, Ahead(r, k),
           NEW o \in Outcomes \ {"absent"}, Write(t, r, k, o)
    PROVE  /\ turns' \in [Turns -> [outcome : Outcomes, count : Nat]]
           /\ spans' \in [Turns -> Seq(Nat)]
           /\ SeqsRunOn'
           /\ TotalsMatchSpans'
           /\ Len(spans'[t]) = Len(spans[t]) + k
           /\ turns'[t].count = buffer[r].count
           /\ turns'[t].outcome # "absent"
           /\ \A u \in Turns \ {t} : turns'[u] = turns[u] /\ spans'[u] = spans[u]
<1> USE DEF TraceInv, TraceTypeOK, TurnOf
<1> DEFINE u == Unwritten(r, k)
<1>1. /\ spans[t] \in Seq(Nat) /\ Len(spans[t]) \in Nat
      /\ \A i \in DOMAIN spans[t] : spans[t][i] = i
  BY LenProperties DEF SeqsRunOn
<1>2. buffer[r].next \in Nat /\ buffer[r].next = Len(spans[t]) + k + 1
  BY DEF Ahead
<1>3. u = [i \in 1 .. k |-> buffer[r].next - k - 1 + i]
  BY DEF Unwritten
<1>4. /\ spans[t] \o u \in Seq(Nat)
      /\ Len(spans[t] \o u) = Len(spans[t]) + k
      /\ \A i \in DOMAIN (spans[t] \o u) : (spans[t] \o u)[i] = i
  BY <1>1, <1>2, <1>3, RunGoesOn
<1>5. /\ turns' = [turns EXCEPT ![t] = [outcome |-> o, count |-> buffer[r].count]]
      /\ spans' = [spans EXCEPT ![t] = spans[t] \o u]
  BY DEF Write
<1> HIDE DEF u
<1>6. turns' \in [Turns -> [outcome : Outcomes, count : Nat]]
  <2>1. buffer[r].count \in Nat /\ o \in Outcomes
    BY DEF BufferType
  <2>2. turns \in [Turns -> [outcome : Outcomes, count : Nat]]
    OBVIOUS
  <2> QED BY <1>5, <2>1, <2>2
<1>7. spans' \in [Turns -> Seq(Nat)]
  BY <1>4, <1>5
<1>8. spans'[t] = spans[t] \o u /\ \A v \in Turns \ {t} : spans'[v] = spans[v]
  BY <1>5
<1>9. SeqsRunOn'
  BY <1>4, <1>8 DEF SeqsRunOn
<1>10. TotalsMatchSpans'
  <2>1. buffer[r].count = turns[t].count + k /\ turns[t].count = Len(spans[t])
    BY DEF Ahead, TotalsMatchSpans
  <2> QED BY <1>4, <1>5, <1>8, <2>1 DEF TotalsMatchSpans
<1> QED BY <1>4, <1>5, <1>6, <1>7, <1>8, <1>9, <1>10
-----------------------------------------------------------------------------
\* The record is untouched.
LEMMA RecordStays ==
    ASSUME TraceInv, spans' = spans,
           \A u \in Turns : turns'[u].count = turns[u].count
    PROVE  SeqsRunOn' /\ TotalsMatchSpans'
BY DEF TraceInv, SeqsRunOn, TotalsMatchSpans

\* No request takes up a turn.
LEMMA HandsStay ==
    ASSUME TraceInv,
           \A q \in Requests : request'[q].turn \in {request[q].turn, NoTurn},
           \A u \in Turns : turns'[u].outcome = "absent" => turns[u].outcome = "absent"
    PROVE  OneRequest' /\ NotYet'
BY TraceAssumption DEF TraceInv, OneRequest, NotYet, TurnOf

\* A step on one turn leaves the requests of the others in their place.
LEMMA OthersStay ==
    ASSUME TraceInv, NEW r \in Requests, NEW t \in Turns,
           \A q \in Requests \ {r} : /\ request'[q] = request[q]
                                     /\ buffer'[q] = buffer[q]
                                     /\ TurnOf(q) # t,
           \A u \in Turns \ {t} : /\ spans'[u] = spans[u]
                                  /\ turns'[u].count = turns[u].count,
           \A u \in Turns, q \in Requests \ {r} : openTurns'[u] = q => openTurns[u] = q,
           checkpoint' \subseteq checkpoint
    PROVE  \A q \in Requests \ {r} : InItsPlace(q)' /\ Registered(q)'
<1> TAKE q \in Requests \ {r}
<1>1. InItsPlace(q) /\ Registered(q) /\ request[q].turn \in Turns \cup {NoTurn}
  BY DEF TraceInv, TraceTypeOK, RequestType
<1>2. request[q].pc # "off" => request[q].turn \in Turns \ {t}
  BY <1>1 DEF InItsPlace, At, TurnOf
<1>3. InItsPlace(q)'
  BY <1>1, <1>2 DEF InItsPlace, Ahead, AtWork, At, TurnOf
<1>4. Registered(q)'
  BY <1>1 DEF Registered, AtWork, TurnOf
<1> QED BY <1>3, <1>4

\* While a request is at work on a turn, no other one is.
LEMMA NobodyElse ==
    ASSUME TraceInv, NEW r \in Requests, ~ At(r, "off")
    PROVE  /\ TurnOf(r) \in Turns
           /\ \A q \in Requests \ {r} : TurnOf(q) # TurnOf(r)
           /\ turns[TurnOf(r)].outcome # "absent"
BY DEF TraceInv, TraceTypeOK, RequestType, OneRequest, NotYet, InItsPlace, TurnOf

\* A turn that nobody is at work on is opened.
LEMMA Opened ==
    ASSUME TraceInv, NEW r \in Requests, NEW t \in Turns, At(r, "off"),
           \A q \in Requests : TurnOf(q) # t,
           turns' = [turns EXCEPT ![t].outcome = "open"],
           \/ /\ request' = [request EXCEPT ![r] = [Off EXCEPT !.pc = "register",
                                                               !.turn = t]]
              /\ buffer' = [buffer EXCEPT ![r] = Continued(t)]
              /\ UNCHANGED faults
           \/ Fault /\ UNCHANGED <<buffer, request>>,
           UNCHANGED <<spans, pending, openTurns, checkpoint, signals>>
    PROVE  TraceInv'
<1>1. TraceTypeOK
  BY DEF TraceInv
<1>2. /\ turns' \in [Turns -> [outcome : Outcomes, count : Nat]]
      /\ \A u \in Turns : /\ turns'[u].count = turns[u].count
                          /\ turns'[u].outcome = "absent" =>
                                u # t /\ turns[u].outcome = "absent"
  <2>1. turns \in [Turns -> [outcome : Outcomes, count : Nat]] /\ "open" \in Outcomes
    BY <1>1 DEF TraceTypeOK, Outcomes
  <2> QED BY <2>1
<1>3. SeqsRunOn' /\ TotalsMatchSpans'
  BY <1>2, RecordStays
<1>4. CASE Fault /\ UNCHANGED <<buffer, request>>
  <2>1. TraceTypeOK'
    BY <1>1, <1>2, <1>4 DEF Fault, TraceTypeOK
  <2>2. OneRequest' /\ NotYet'
    BY <1>2, <1>4, HandsStay
  <2>3. \A q \in Requests \ {r} : InItsPlace(q)' /\ Registered(q)'
    BY <1>2, <1>4, OthersStay
  <2>4. InItsPlace(r)' /\ Registered(r)'
    BY <1>4 DEF TraceInv, InItsPlace, Registered, AtWork, At, TurnOf
  <2> QED BY <1>3, <2>1, <2>2, <2>3, <2>4 DEF TraceInv
<1>5. CASE /\ request' = [request EXCEPT ![r] = [Off EXCEPT !.pc = "register",
                                                            !.turn = t]]
           /\ buffer' = [buffer EXCEPT ![r] = Continued(t)]
           /\ UNCHANGED faults
  <2>1. /\ request'[r] = [pc |-> "register", turn |-> t, buffer |-> NoRequest,
                          ending |-> "none", taken |-> 0]
        /\ \A q \in Requests \ {r} : request'[q] = request[q] /\ buffer'[q] = buffer[q]
        /\ buffer'[r] = [closed |-> FALSE, count |-> turns[t].count, held |-> 0,
                         next |-> Len(spans[t]) + 1]
    BY <1>1, <1>5, ContinuedIsAhead DEF Off, TraceTypeOK
  <2>2. Len(spans[t]) \in Nat /\ turns[t].count \in Nat
    BY <1>1, LenProperties DEF TraceTypeOK
  <2>3. TraceTypeOK'
    <3>1. [Off EXCEPT !.pc = "register", !.turn = t] \in RequestType
      BY DEF Off, RequestType, Pcs, Endings
    <3>2. Continued(t) \in BufferType
      <4>1. Len(spans[t]) + 1 \in Nat
        BY <2>2
      <4>2. Continued(t) = [closed |-> FALSE, count |-> turns[t].count, held |-> 0,
                            next |-> Len(spans[t]) + 1]
        BY ContinuedIsAhead
      <4> QED BY <2>2, <4>1, <4>2 DEF BufferType
    <3> QED BY <1>1, <1>2, <1>5, <3>1, <3>2 DEF TraceTypeOK
  <2>4. OneRequest' /\ NotYet'
    BY <1>2, <2>1 DEF TraceInv, OneRequest, NotYet, TurnOf
  <2>5. \A q \in Requests \ {r} : InItsPlace(q)' /\ Registered(q)'
    BY <1>2, <2>1, OthersStay
  <2>6. InItsPlace(r)'
    BY <1>2, <2>1, <2>2, TraceAssumption DEF InItsPlace, Ahead, AtWork, At, TurnOf
  <2>7. Registered(r)'
    <3>1. \A u \in Turns : openTurns[u] # r
      BY DEF TraceInv, Registered, At
    <3> QED BY <2>1, <3>1 DEF Registered
  <2> QED BY <1>3, <2>3, <2>4, <2>5, <2>6, <2>7 DEF TraceInv
<1> QED BY <1>4, <1>5

\* A chat request opens a turn no request is at work on.
LEMMA StartTurnInv ==
    ASSUME TraceInv, NEW r \in Requests, NEW t \in Turns, StartTurn(r, t)
    PROVE  TraceInv'
<1>1. \A q \in Requests : TurnOf(q) # t
  BY DEF StartTurn, TraceInv, NotYet
<1> QED BY <1>1, Opened DEF StartTurn

\* A confirm request reopens a turn; without overlap nobody else has it.
LEMMA ResumeInv ==
    ASSUME ~ Overlap, TraceInv, NEW r \in Requests, NEW t \in Turns, Resume(r, t)
    PROVE  TraceInv'
<1>1. \A q \in Requests : TurnOf(q) # t
  BY DEF Resume, Active
<1> QED BY <1>1, Opened DEF Resume

\* What is left to show of a step on the turn that r is at work on.
LEMMA StepOn ==
    ASSUME TraceInv, NEW r \in Requests, ~ At(r, "off"),
           TraceTypeOK', SeqsRunOn', TotalsMatchSpans',
           \A u \in Turns \ {TurnOf(r)} : /\ spans'[u] = spans[u]
                                          /\ turns'[u].count = turns[u].count,
           \A u \in Turns : turns'[u].outcome = "absent" => turns[u].outcome = "absent",
           request'[r].turn \in {TurnOf(r), NoTurn},
           \A q \in Requests \ {r} : request'[q] = request[q] /\ buffer'[q] = buffer[q],
           \A u \in Turns, q \in Requests \ {r} : openTurns'[u] = q => openTurns[u] = q,
           checkpoint' \subseteq checkpoint,
           InItsPlace(r)', Registered(r)'
    PROVE  TraceInv'
<1>1. /\ TurnOf(r) \in Turns
      /\ \A q \in Requests \ {r} : TurnOf(q) # TurnOf(r)
  BY NobodyElse
<1>2. \A q \in Requests \ {r} : InItsPlace(q)' /\ Registered(q)'
  BY <1>1, OthersStay
<1>3. OneRequest' /\ NotYet'
  BY HandsStay DEF TurnOf
<1> QED BY <1>2, <1>3 DEF TraceInv

\* The same, of a step that leaves the record alone.
LEMMA MoveOn ==
    ASSUME TraceInv, NEW r \in Requests, ~ At(r, "off"), TraceTypeOK',
           spans' = spans, \A u \in Turns : turns'[u].count = turns[u].count,
           \A u \in Turns : turns'[u].outcome = "absent" => turns[u].outcome = "absent",
           request'[r].turn \in {TurnOf(r), NoTurn},
           \A q \in Requests \ {r} : request'[q] = request[q] /\ buffer'[q] = buffer[q],
           \A u \in Turns, q \in Requests \ {r} : openTurns'[u] = q => openTurns[u] = q,
           checkpoint' \subseteq checkpoint,
           InItsPlace(r)', Registered(r)'
    PROVE  TraceInv'
BY RecordStays, StepOn

\* What a request knows of itself, of its buffer and of the buffer of its turn.
LEMMA Hands ==
    ASSUME TraceInv, NEW r \in Requests, ~ At(r, "off")
    PROVE  /\ TraceTypeOK
           /\ InItsPlace(r) /\ Registered(r)
           /\ TurnOf(r) \in Turns /\ TurnOf(r) # NoTurn
           /\ openTurns[TurnOf(r)] \in Requests \cup {NoRequest}
           /\ openTurns[TurnOf(r)] \in Requests => openTurns[TurnOf(r)] = r
           /\ \A u \in Turns : openTurns[u] = r => u = TurnOf(r)
           /\ NoRequest # r
<1>1. TraceTypeOK /\ InItsPlace(r) /\ Registered(r) /\ TurnOf(r) \in Turns
  BY NobodyElse DEF TraceInv
<1>2. ASSUME openTurns[TurnOf(r)] \in Requests
      PROVE  openTurns[TurnOf(r)] = r
  BY <1>1, <1>2, NobodyElse DEF TraceInv, Registered
<1>3. openTurns[TurnOf(r)] \in Requests \cup {NoRequest}
  BY <1>1 DEF TraceTypeOK
<1>4. \A u \in Turns : openTurns[u] = r => u = TurnOf(r)
  BY <1>1 DEF Registered
<1> QED BY <1>1, <1>2, <1>3, <1>4, TraceAssumption

\* The program counter of one request moves.
LEMMA GoFacts ==
    ASSUME TraceTypeOK, NEW r \in Requests, NEW pc \in Pcs, Go(r, pc)
    PROVE  /\ request' \in [Requests -> RequestType]
           /\ request'[r].pc = pc
           /\ request'[r].turn = request[r].turn
           /\ request'[r].buffer = request[r].buffer
           /\ request'[r].ending = request[r].ending
           /\ request'[r].taken = request[r].taken
           /\ \A q \in Requests \ {r} : request'[q] = request[q]
BY DEF Go, TraceTypeOK, RequestType

\* A request that leaves has no turn and no buffer.
LEMMA LeaveFacts ==
    ASSUME TraceTypeOK, NEW r \in Requests, Leave(r)
    PROVE  /\ request' \in [Requests -> RequestType]
           /\ request'[r].pc = "off"
           /\ request'[r].turn = NoTurn
           /\ request'[r].buffer = NoRequest
           /\ \A q \in Requests \ {r} : request'[q] = request[q]
BY DEF Leave, Off, TraceTypeOK, RequestType, Pcs, Endings

\* A request registers the buffer it continues the turn with.
LEMMA RegisterInv ==
    ASSUME TraceInv, NEW r \in Requests, Register(r)
    PROVE  TraceInv'
<1> DEFINE pc == IF TurnOf(r) \in pending THEN "adopt" ELSE "use"
<1>1. request[r].pc = "register" /\ pc \in {"adopt", "use"}
  BY DEF Register, At
<1>2. /\ Go(r, pc)
      /\ openTurns' = [openTurns EXCEPT ![TurnOf(r)] = r]
      /\ UNCHANGED <<store, buffer, checkpoint, signals, faults>>
  BY DEF Register
<1> HIDE DEF pc
<1>3. TraceTypeOK /\ InItsPlace(r) /\ Registered(r) /\ TurnOf(r) \in Turns
  BY <1>1, Hands DEF At
<1>4. /\ request' \in [Requests -> RequestType]
      /\ request'[r].pc = pc
      /\ request'[r].turn = request[r].turn
      /\ request'[r].buffer = request[r].buffer
      /\ \A q \in Requests \ {r} : request'[q] = request[q]
  BY <1>1, <1>2, <1>3, GoFacts DEF Pcs
<1>5. /\ openTurns' \in [Turns -> Requests \cup {NoRequest}]
      /\ \A u \in Turns : openTurns'[u] = IF u = TurnOf(r) THEN r ELSE openTurns[u]
  BY <1>2, <1>3 DEF TraceTypeOK
<1>6. TraceTypeOK'
  BY <1>2, <1>3, <1>4, <1>5 DEF TraceTypeOK, store
<1>7. InItsPlace(r)'
  BY <1>1, <1>2, <1>3, <1>4 DEF InItsPlace, Ahead, AtWork, At, TurnOf, store
<1>8. Registered(r)'
  BY <1>1, <1>2, <1>3, <1>4, <1>5 DEF Registered, InItsPlace, AtWork, At, TurnOf
<1> QED BY <1>1, <1>2, <1>4, <1>5, <1>6, <1>7, <1>8, MoveOn DEF store, At, TurnOf

\* A request works on its own buffer.
LEMMA UseInv ==
    ASSUME TraceInv, NEW r \in Requests, Use(r)
    PROVE  TraceInv'
<1>1. request[r].pc = "use" /\ UNCHANGED <<store, openTurns, buffer, checkpoint,
                                           signals, faults>>
  BY DEF Use, At
<1>2. TraceTypeOK /\ InItsPlace(r) /\ Registered(r)
  BY <1>1, Hands DEF At
<1>3. /\ request' \in [Requests -> RequestType]
      /\ request'[r].pc = "work"
      /\ request'[r].turn = request[r].turn
      /\ request'[r].buffer = r
      /\ \A q \in Requests \ {r} : request'[q] = request[q]
  BY ZenonT(40), <1>2 DEF Use, TraceTypeOK, RequestType, Pcs
<1>4. TraceTypeOK'
  BY <1>1, <1>2, <1>3 DEF TraceTypeOK, store
<1>5. InItsPlace(r)' /\ Registered(r)'
  BY <1>1, <1>2, <1>3 DEF InItsPlace, Registered, Ahead, AtWork, At, TurnOf, store
<1> QED BY <1>1, <1>3, <1>4, <1>5, MoveOn DEF store, At, TurnOf

\* A request works on the registered buffer, which is its own.
LEMMA AdoptInv ==
    ASSUME TraceInv, NEW r \in Requests, Adopt(r)
    PROVE  TraceInv'
<1> DEFINE t == TurnOf(r)
           b == openTurns[t]
<1>1. /\ request[r].pc = "adopt"
      /\ spans' = spans
      /\ UNCHANGED <<pending, checkpoint, signals, faults>>
  BY DEF Adopt, At
<1>2. /\ TraceTypeOK /\ InItsPlace(r) /\ Registered(r) /\ t \in Turns
      /\ b \in Requests \cup {NoRequest} /\ (b \in Requests => b = r)
  BY <1>1, Hands DEF At
<1>3. CASE IsLive(b)
  <2>1. b = r
    BY <1>2, <1>3 DEF IsLive
  <2>2. /\ UNCHANGED <<turns, buffer, openTurns>>
        /\ request' = [request EXCEPT ![r].pc = "work", ![r].buffer = r]
    BY <1>3, <2>1 DEF Adopt
  <2>3. /\ request' \in [Requests -> RequestType]
        /\ request'[r].pc = "work"
        /\ request'[r].turn = request[r].turn
        /\ request'[r].buffer = r
        /\ \A q \in Requests \ {r} : request'[q] = request[q]
    BY ZenonT(40), <1>2, <2>2 DEF TraceTypeOK, RequestType, Pcs
  <2>4. TraceTypeOK'
    BY <1>1, <1>2, <2>2, <2>3 DEF TraceTypeOK
  <2>5. InItsPlace(r)' /\ Registered(r)'
    BY <1>1, <1>2, <2>2, <2>3 DEF InItsPlace, Registered, Ahead, AtWork, At, TurnOf
  <2> QED BY <1>1, <2>2, <2>3, <2>4, <2>5, MoveOn DEF At, TurnOf
<1>4. CASE ~ IsLive(b)
  <2>1. /\ turns' = [turns EXCEPT ![t].outcome = "open"]
        /\ buffer' = [buffer EXCEPT ![r] = Continued(t)]
        /\ openTurns' = [openTurns EXCEPT ![t] = r]
        /\ Go(r, "use")
    BY <1>4 DEF Adopt
  <2>2. /\ request' \in [Requests -> RequestType]
        /\ request'[r].pc = "use"
        /\ request'[r].turn = request[r].turn
        /\ request'[r].buffer = request[r].buffer
        /\ \A q \in Requests \ {r} : request'[q] = request[q]
    BY <1>2, <2>1, GoFacts DEF Pcs
  <2>3. /\ turns' \in [Turns -> [outcome : Outcomes, count : Nat]]
        /\ \A u \in Turns : /\ turns'[u].count = turns[u].count
                            /\ turns'[u].outcome = "absent" =>
                                  turns[u].outcome = "absent"
    <3>1. turns \in [Turns -> [outcome : Outcomes, count : Nat]] /\ "open" \in Outcomes
      BY <1>2 DEF TraceTypeOK, Outcomes
    <3> QED BY <2>1, <3>1
  <2>4. /\ Len(spans[t]) \in Nat /\ Len(spans[t]) + 1 \in Nat
        /\ turns[t].count \in Nat
    BY <1>2, LenProperties DEF TraceTypeOK
  <2>5. Continued(t) = [closed |-> FALSE, count |-> turns[t].count, held |-> 0,
                        next |-> Len(spans[t]) + 1]
    BY <1>2, ContinuedIsAhead
  <2>6. /\ buffer' \in [Requests -> BufferType]
        /\ buffer'[r] = Continued(t)
        /\ \A q \in Requests \ {r} : buffer'[q] = buffer[q]
    BY <1>2, <2>1, <2>4, <2>5 DEF TraceTypeOK, BufferType
  <2>7. /\ openTurns' \in [Turns -> Requests \cup {NoRequest}]
        /\ \A u \in Turns : openTurns'[u] = IF u = t THEN r ELSE openTurns[u]
    BY <1>2, <2>1 DEF TraceTypeOK
  <2>8. TraceTypeOK'
    BY <1>1, <1>2, <2>2, <2>3, <2>6, <2>7 DEF TraceTypeOK
  <2>9. InItsPlace(r)'
    BY <1>1, <1>2, <2>2, <2>3, <2>4, <2>5, <2>6
       DEF InItsPlace, Ahead, AtWork, At, TurnOf
  <2>10. Registered(r)'
    BY <1>1, <1>2, <2>2, <2>5, <2>6, <2>7 DEF Registered, AtWork, At, TurnOf
  <2> QED BY <1>1, <2>2, <2>3, <2>6, <2>7, <2>8, <2>9, <2>10, MoveOn DEF At, TurnOf
<1> QED BY <1>3, <1>4

\* A buffer that has taken n spans more is still ahead of the record.
LEMMA AheadMoves ==
    ASSUME TraceTypeOK, NEW r \in Requests, TurnOf(r) \in Turns,
           NEW k \in Nat, NEW n \in Nat, Ahead(r, k),
           UNCHANGED store, request'[r].turn = request[r].turn,
           buffer'[r].next = buffer[r].next + n,
           buffer'[r].count = buffer[r].count + n
    PROVE  /\ buffer'[r].next = Len(spans'[request'[r].turn]) + (k + n) + 1
           /\ buffer'[r].count = turns'[request'[r].turn].count + (k + n)
<1> DEFINE l == Len(spans[TurnOf(r)])
           c == turns[TurnOf(r)].count
<1>1. l \in Nat /\ c \in Nat
  BY LenProperties DEF TraceTypeOK
<1>2. buffer[r].next = l + k + 1 /\ buffer[r].count = c + k
  BY DEF Ahead
<1>3. /\ Len(spans'[request'[r].turn]) = l
      /\ turns'[request'[r].turn].count = c
  BY DEF TurnOf, store
<1> HIDE DEF l, c
<1>4. buffer'[r].next = l + (k + n) + 1 /\ buffer'[r].count = c + (k + n)
  BY <1>1, <1>2
<1> QED BY <1>3, <1>4

\* A span takes the next number, or finds the buffer closed.
LEMMA AddSpanInv ==
    ASSUME TraceInv, NEW r \in Requests, AddSpan(r)
    PROVE  TraceInv'
<1> DEFINE b == request[r].buffer
<1>1. request[r].pc = "work" /\ UNCHANGED <<store, openTurns, checkpoint, signals, faults>>
  BY DEF AddSpan, At
<1>2. TraceTypeOK /\ InItsPlace(r) /\ Registered(r) /\ TurnOf(r) \in Turns
  BY <1>1, Hands DEF At
<1>3. CASE IsLive(b)
  <2>1. b = r /\ ~ buffer[r].closed
    BY <1>2, <1>3 DEF IsLive, InItsPlace
  <2>2. Accept(r) /\ request' = request
    BY <1>3, <2>1 DEF AddSpan
  <2>3. /\ buffer' \in [Requests -> BufferType]
        /\ buffer'[r].closed = buffer[r].closed
        /\ buffer'[r].next = buffer[r].next + 1
        /\ buffer'[r].held = buffer[r].held + 1
        /\ buffer'[r].count = buffer[r].count + 1
        /\ \A q \in Requests \ {r} : buffer'[q] = buffer[q]
    <3>1. buffer \in [Requests -> BufferType]
      BY <1>2 DEF TraceTypeOK
    <3>2. buffer' = [buffer EXCEPT ![r].next = buffer[r].next + 1,
                                   ![r].held = buffer[r].held + 1,
                                   ![r].count = buffer[r].count + 1]
      BY <2>2, <3>1 DEF Accept, BufferType
    <3> QED BY <3>1, <3>2 DEF BufferType
  <2>4. TraceTypeOK'
    BY <1>1, <1>2, <2>2, <2>3 DEF TraceTypeOK, store
  <2>5. Ahead(r, buffer[r].held) /\ buffer[r].held \in Nat /\ Len(spans[TurnOf(r)]) \in Nat
        /\ turns[TurnOf(r)].count \in Nat
    BY <1>1, <1>2, <2>1, LenProperties
       DEF InItsPlace, AtWork, TraceTypeOK, BufferType
  <2>6. InItsPlace(r)'
    <3>1. /\ buffer'[r].next = Len(spans'[request'[r].turn]) + (buffer[r].held + 1) + 1
          /\ buffer'[r].count = turns'[request'[r].turn].count + (buffer[r].held + 1)
      BY <1>1, <1>2, <2>2, <2>3, <2>5, AheadMoves
    <3>2. Ahead(r, buffer[r].held)'
      BY <2>3, <3>1 DEF Ahead, TurnOf
    <3> QED BY <1>1, <1>2, <2>2, <2>3, <3>2 DEF InItsPlace, AtWork, At, TurnOf
  <2>7. Registered(r)'
    BY <1>1, <1>2, <2>2, <2>3 DEF Registered, TurnOf
  <2> QED BY <1>1, <2>2, <2>3, <2>4, <2>6, <2>7, MoveOn DEF store, At, TurnOf
<1>4. CASE ~ IsLive(b)
  <2>1. Go(r, "error") /\ buffer' = buffer
    BY <1>4 DEF AddSpan
  <2>2. /\ request' \in [Requests -> RequestType]
        /\ request'[r].pc = "error"
        /\ request'[r].turn = request[r].turn
        /\ request'[r].buffer = request[r].buffer
        /\ \A q \in Requests \ {r} : request'[q] = request[q]
    BY <1>2, <2>1, GoFacts DEF Pcs
  <2>3. TraceTypeOK'
    BY <1>1, <1>2, <2>1, <2>2 DEF TraceTypeOK, store
  <2>4. InItsPlace(r)' /\ Registered(r)'
    BY <1>1, <1>2, <2>1, <2>2
       DEF InItsPlace, Registered, Ahead, AtWork, At, TurnOf, store
  <2> QED BY <1>1, <2>1, <2>2, <2>3, <2>4, MoveOn DEF store, At, TurnOf
<1> QED BY <1>3, <1>4

\* The card's answer is recorded and nothing of the trace moves.
LEMMA ResolveInv ==
    ASSUME TraceInv, NEW r \in Requests, Resolve(r)
    PROVE  TraceInv'
<1>1. /\ request[r].pc = "work" /\ pending' \subseteq pending
      /\ UNCHANGED <<turns, spans, openTurns, buffer, request, checkpoint, signals, faults>>
  BY DEF Resolve, At
<1>2. TraceTypeOK /\ InItsPlace(r) /\ Registered(r)
  BY <1>1, Hands DEF At
<1>3. TraceTypeOK'
  BY <1>1, <1>2 DEF TraceTypeOK
<1>4. InItsPlace(r)' /\ Registered(r)'
  BY <1>1, <1>2 DEF InItsPlace, Registered, Ahead, AtWork, At, TurnOf
<1> QED BY <1>1, <1>3, <1>4, MoveOn DEF At, TurnOf

\* A request or the catch-all handler takes the spans of its turn's live buffer,
\* the last of them perhaps accepted in the same step.
LEMMA TakeInv ==
    ASSUME TraceInv, NEW r \in Requests, request[r].pc \in AtWork, ~ buffer[r].closed,
           NEW n \in {0, 1},
           buffer' \in [Requests -> BufferType],
           buffer'[r].closed,
           buffer'[r].count = buffer[r].count + n,
           buffer'[r].next = buffer[r].next + n,
           request' \in [Requests -> RequestType],
           request'[r].pc = "batch",
           request'[r].turn = request[r].turn,
           request'[r].buffer = r,
           request'[r].ending # "none",
           request'[r].taken = buffer[r].held + n,
           \A q \in Requests \ {r} : request'[q] = request[q] /\ buffer'[q] = buffer[q],
           checkpoint = {},
           UNCHANGED <<store, openTurns, checkpoint, signals, faults>>
    PROVE  TraceInv'
<1>1. ~ At(r, "off")
  BY DEF At, AtWork
<1>2. TraceTypeOK /\ InItsPlace(r) /\ Registered(r) /\ TurnOf(r) \in Turns
  BY <1>1, Hands
<1>3. Ahead(r, buffer[r].held) /\ buffer[r].held \in Nat /\ n \in Nat
  BY <1>2 DEF InItsPlace, TraceTypeOK, BufferType
<1>4. TraceTypeOK'
  BY <1>2 DEF TraceTypeOK, store
<1>5. InItsPlace(r)'
  <2>1. /\ buffer'[r].next = Len(spans'[request'[r].turn]) + (buffer[r].held + n) + 1
        /\ buffer'[r].count = turns'[request'[r].turn].count + (buffer[r].held + n)
    BY <1>2, <1>3, AheadMoves
  <2>2. Ahead(r, request[r].taken)'
    BY <2>1 DEF Ahead, TurnOf
  <2>3. request'[r].turn \in Turns
    BY <1>2 DEF TurnOf
  <2> QED BY <2>2, <2>3, TraceAssumption DEF InItsPlace, AtWork, At, TurnOf
<1>6. Registered(r)'
  BY <1>2 DEF Registered, AtWork, TurnOf
<1> QED BY <1>1, <1>4, <1>5, <1>6, MoveOn DEF store, TurnOf

\* Finishing closes the buffer and takes its spans out for the batch.
LEMMA FinishInv ==
    ASSUME TraceInv, NEW r \in Requests, NEW o \in Settled \cup {"awaiting"}, Finish(r, o)
    PROVE  TraceInv'
<1> DEFINE b == request[r].buffer
<1>1. /\ request[r].pc = "work" /\ checkpoint = {} /\ o \in Endings \ {"none"}
      /\ UNCHANGED <<store, openTurns, checkpoint, signals, faults>>
  BY DEF Finish, Runs, At, Endings, Settled
<1>2. TraceTypeOK /\ InItsPlace(r) /\ Registered(r)
  BY <1>1, Hands DEF At
<1>3. CASE IsLive(b)
  <2>1. b = r /\ ~ buffer[r].closed
    BY <1>2, <1>3 DEF IsLive, InItsPlace
  <2>2. Take(r, r, o)
    BY <1>3, <2>1 DEF Finish
  <2>3. /\ buffer' \in [Requests -> BufferType]
        /\ buffer'[r].closed
        /\ buffer'[r].count = buffer[r].count + 0
        /\ buffer'[r].next = buffer[r].next + 0
        /\ \A q \in Requests \ {r} : buffer'[q] = buffer[q]
    <3>1. buffer \in [Requests -> BufferType]
      BY <1>2 DEF TraceTypeOK
    <3>2. buffer' = [buffer EXCEPT ![r].closed = TRUE, ![r].held = 0]
      BY <2>2 DEF Take
    <3>3. /\ buffer' \in [Requests -> BufferType]
          /\ buffer'[r].closed = TRUE
          /\ buffer'[r].count = buffer[r].count
          /\ buffer'[r].next = buffer[r].next
          /\ \A q \in Requests \ {r} : buffer'[q] = buffer[q]
      BY <3>1, <3>2 DEF BufferType
    <3>4. buffer[r].count \in Nat /\ buffer[r].next \in Nat
      BY <3>1 DEF BufferType
    <3> QED BY <3>3, <3>4
  <2>4. /\ request' \in [Requests -> RequestType]
        /\ request'[r].pc = "batch"
        /\ request'[r].turn = request[r].turn
        /\ request'[r].buffer = r
        /\ request'[r].ending # "none"
        /\ request'[r].taken = buffer[r].held + 0
        /\ \A q \in Requests \ {r} : request'[q] = request[q]
    <3>1. request \in [Requests -> RequestType] /\ buffer[r].held \in Nat
      BY <1>2 DEF TraceTypeOK, BufferType
    <3>2. request' = [request EXCEPT ![r].pc = "batch", ![r].buffer = r,
                                     ![r].ending = o, ![r].taken = buffer[r].held]
      BY <2>2 DEF Take
    <3>3. o \in Endings /\ o # "none"
      BY <1>1
    <3>4. /\ request' \in [Requests -> RequestType]
          /\ request'[r].pc = "batch"
          /\ request'[r].turn = request[r].turn
          /\ request'[r].buffer = r
          /\ request'[r].ending = o
          /\ request'[r].taken = buffer[r].held
          /\ \A q \in Requests \ {r} : request'[q] = request[q]
      BY ZenonT(40), <3>1, <3>2, <3>3 DEF RequestType, Pcs
    <3> QED BY <3>1, <3>3, <3>4
  <2> QED BY <1>1, <2>1, <2>3, <2>4, TakeInv DEF AtWork
<1>4. CASE ~ IsLive(b)
  <2>1. /\ request' = [request EXCEPT ![r].pc = "answered", ![r].ending = o]
        /\ buffer' = buffer
    BY <1>4 DEF Finish
  <2>2. /\ request' \in [Requests -> RequestType]
        /\ request'[r].pc = "answered"
        /\ request'[r].turn = request[r].turn
        /\ request'[r].buffer = request[r].buffer
        /\ \A q \in Requests \ {r} : request'[q] = request[q]
    BY ZenonT(40), <1>1, <1>2, <2>1 DEF TraceTypeOK, RequestType, Pcs
  <2>3. TraceTypeOK'
    BY <1>1, <1>2, <2>1, <2>2 DEF TraceTypeOK, store
  <2>4. InItsPlace(r)'
    BY <1>1, <1>2, <2>1, <2>2 DEF InItsPlace, AtWork, At, TurnOf
  <2>5. \A u \in Turns : openTurns[u] # r
    <3>1. ASSUME NEW u \in Turns, openTurns[u] = r
          PROVE  FALSE
      <4>1. ~ buffer[r].closed
        BY <1>1, <1>2, <3>1 DEF Registered, AtWork
      <4>2. b = r /\ r # NoRequest
        BY <1>1, <1>2, TraceAssumption DEF InItsPlace, At
      <4> QED BY <1>4, <4>1, <4>2 DEF IsLive
    <3> QED BY <3>1
  <2>6. Registered(r)'
    BY <1>1, <1>2, <2>1, <2>2, <2>5 DEF Registered, AtWork
  <2> QED BY <1>1, <2>1, <2>2, <2>3, <2>4, <2>6, MoveOn DEF store, At, TurnOf
<1> QED BY <1>3, <1>4

\* A request ends once no buffer of its own is registered.
LEMMA LeaveInv ==
    ASSUME TraceInv, NEW r \in Requests, ~ At(r, "off"), Leave(r),
           UNCHANGED <<store, buffer, checkpoint, signals, faults>>,
           openTurns' \in [Turns -> Requests \cup {NoRequest}],
           \A u \in Turns : openTurns'[u] \in {openTurns[u], NoRequest},
           \A u \in Turns : openTurns'[u] # r
    PROVE  TraceInv'
<1>1. TraceTypeOK /\ Registered(r)
  BY Hands
<1>2. /\ request' \in [Requests -> RequestType]
      /\ request'[r].pc = "off"
      /\ request'[r].turn = NoTurn
      /\ request'[r].buffer = NoRequest
      /\ \A q \in Requests \ {r} : request'[q] = request[q]
  BY <1>1, LeaveFacts
<1>3. TraceTypeOK'
  BY <1>1, <1>2 DEF TraceTypeOK, store
<1>4. InItsPlace(r)' /\ Registered(r)'
  BY <1>1, <1>2 DEF InItsPlace, Registered, AtWork, At, TurnOf
<1>5. \A u \in Turns, q \in Requests \ {r} : openTurns'[u] = q => openTurns[u] = q
  BY TraceAssumption
<1> QED BY <1>2, <1>3, <1>4, <1>5, MoveOn DEF store, TurnOf

\* A request whose buffer is closed, or goes on as it was, moves.
LEMMA GoInv ==
    ASSUME TraceInv, NEW r \in Requests, NEW pc \in {"error", "answered"}, Go(r, pc),
           UNCHANGED <<store, buffer, checkpoint, signals>>, faults' \in Nat,
           openTurns' \in [Turns -> Requests \cup {NoRequest}],
           \/ /\ request[r].pc \in AtWork
              /\ pc = "error"
              /\ openTurns' = openTurns
           \/ /\ request[r].pc \in {"pop", "popFailed"}
              /\ \A u \in Turns : openTurns'[u] \in {openTurns[u], NoRequest}
              /\ \A u \in Turns : openTurns'[u] # r
    PROVE  TraceInv'
<1>0. ~ At(r, "off")
  BY DEF At, AtWork
<1>1. TraceTypeOK /\ InItsPlace(r) /\ Registered(r) /\ TurnOf(r) \in Turns
  BY <1>0, Hands
<1>2. /\ request' \in [Requests -> RequestType]
      /\ request'[r].pc = pc
      /\ request'[r].turn = request[r].turn
      /\ request'[r].buffer = request[r].buffer
      /\ \A q \in Requests \ {r} : request'[q] = request[q]
  BY <1>1, GoFacts DEF Pcs
<1>3. TraceTypeOK'
  BY <1>1, <1>2 DEF TraceTypeOK, store
<1>4. InItsPlace(r)'
  BY <1>1, <1>2, TraceAssumption DEF InItsPlace, Ahead, AtWork, At, TurnOf, store
<1>5. Registered(r)'
  BY <1>0, <1>1, <1>2 DEF Registered, AtWork, At, TurnOf
<1>6. \A u \in Turns, q \in Requests \ {r} : openTurns'[u] = q => openTurns[u] = q
  BY TraceAssumption
<1> QED BY <1>0, <1>2, <1>3, <1>4, <1>5, <1>6, MoveOn DEF store, TurnOf

\* The finished buffer leaves the registry.
LEMMA PopInv ==
    ASSUME TraceInv, NEW r \in Requests, Pop(r)
    PROVE  TraceInv'
<1>1. /\ request[r].pc \in {"pop", "popFailed"}
      /\ openTurns' = [openTurns EXCEPT ![TurnOf(r)] = NoRequest]
      /\ UNCHANGED <<store, buffer, checkpoint, signals, faults>>
  BY DEF Pop
<1>2. /\ TraceTypeOK /\ TurnOf(r) \in Turns
      /\ \A u \in Turns : openTurns[u] = r => u = TurnOf(r)
      /\ NoRequest # r
  BY <1>1, Hands DEF At
<1>3. /\ openTurns' \in [Turns -> Requests \cup {NoRequest}]
      /\ \A u \in Turns : openTurns'[u] \in {openTurns[u], NoRequest}
      /\ \A u \in Turns : openTurns'[u] # r
  BY <1>1, <1>2 DEF TraceTypeOK
<1>4. CASE \E pc \in {"error", "answered"} : Go(r, pc)
  BY <1>1, <1>2, <1>3, <1>4, GoInv DEF TraceTypeOK
<1>5. CASE Leave(r)
  BY <1>1, <1>3, <1>5, LeaveInv DEF At
<1> QED BY <1>4, <1>5 DEF Pop

\* The answered request leaves.
LEMMA AnswerInv ==
    ASSUME TraceInv, NEW r \in Requests, Answer(r)
    PROVE  TraceInv'
<1>1. request[r].pc = "answered" /\ UNCHANGED <<store, openTurns, buffer, checkpoint,
                                                signals, faults>>
  BY DEF Answer, At
<1>2. TraceTypeOK /\ Registered(r)
  BY <1>1, Hands DEF At
<1>3. \A u \in Turns : openTurns'[u] # r
  BY <1>1, <1>2 DEF Registered
<1> QED BY <1>1, <1>2, <1>3, LeaveInv DEF Answer, At, TraceTypeOK

\* A request at work raises.
LEMMA FailInv ==
    ASSUME TraceInv, NEW r \in Requests, Fail(r)
    PROVE  TraceInv'
<1>1. request[r].pc \in AtWork /\ Go(r, "error")
      /\ UNCHANGED <<store, openTurns, buffer, checkpoint, signals>>
  BY DEF Fail, At, AtWork
<1>2. TraceTypeOK
  BY DEF TraceInv
<1>3. faults' \in Nat /\ openTurns' \in [Turns -> Requests \cup {NoRequest}]
  BY <1>1, <1>2 DEF Fail, Fault, TraceTypeOK
<1> QED BY <1>1, <1>3, GoInv

\* The error path finishes whatever buffer it finds registered.
LEMMA UnhandledInv ==
    ASSUME TraceInv, NEW r \in Requests, Unhandled(r)
    PROVE  TraceInv'
<1> DEFINE b == openTurns[TurnOf(r)]
<1>1. /\ request[r].pc = "error" /\ checkpoint = {}
      /\ UNCHANGED <<store, openTurns, checkpoint, signals, faults>>
  BY DEF Unhandled, Runs, At
<1>2. /\ TraceTypeOK /\ InItsPlace(r) /\ Registered(r) /\ TurnOf(r) \in Turns
      /\ b \in Requests \cup {NoRequest} /\ (b \in Requests => b = r)
      /\ \A u \in Turns : openTurns[u] = r => u = TurnOf(r)
  BY <1>1, Hands DEF At
<1>3. CASE IsLive(b)
  <2>1. b = r /\ ~ buffer[r].closed
    BY <1>2, <1>3 DEF IsLive
  <2>2. /\ buffer' = [buffer EXCEPT ![r] = [closed |-> TRUE, held |-> 0,
                         count |-> buffer[r].count + 1, next |-> buffer[r].next + 1]]
        /\ request' = [request EXCEPT ![r].pc = "batch", ![r].buffer = r,
                          ![r].ending = "error", ![r].taken = buffer[r].held + 1]
    <3>1. buffer \in [Requests -> BufferType]
      BY <1>2 DEF TraceTypeOK
    <3> QED BY <1>3, <2>1, <3>1 DEF Unhandled
  <2>3. /\ buffer' \in [Requests -> BufferType]
        /\ buffer'[r].closed
        /\ buffer'[r].count = buffer[r].count + 1
        /\ buffer'[r].next = buffer[r].next + 1
        /\ \A q \in Requests \ {r} : buffer'[q] = buffer[q]
    BY SMTT(20), ZenonT(40), <1>2, <2>2 DEF TraceTypeOK, BufferType
  <2>4. /\ request' \in [Requests -> RequestType]
        /\ request'[r].pc = "batch"
        /\ request'[r].turn = request[r].turn
        /\ request'[r].buffer = r
        /\ request'[r].ending = "error"
        /\ request'[r].taken = buffer[r].held + 1
        /\ \A q \in Requests \ {r} : request'[q] = request[q]
    <3>1. request \in [Requests -> RequestType] /\ buffer[r].held + 1 \in Nat
      BY <1>2 DEF TraceTypeOK, BufferType
    <3>2. "error" \in Endings
      BY DEF Endings
    <3> QED BY ZenonT(40), <2>2, <3>1, <3>2 DEF RequestType, Pcs
  <2> QED BY <1>1, <2>1, <2>3, <2>4, TakeInv DEF AtWork
<1>4. CASE ~ IsLive(b)
  <2>1. Leave(r) /\ buffer' = buffer
    BY <1>4 DEF Unhandled
  <2>2. b # r
    BY <1>1, <1>2, <1>4, TraceAssumption DEF IsLive, Registered, AtWork
  <2> QED BY <1>1, <1>2, <2>1, <2>2, LeaveInv DEF At, TraceTypeOK
<1> QED BY <1>3, <1>4

\* The closing batch is applied or not, and its response may be lost.
LEMMA BatchInv ==
    ASSUME TraceInv, NEW r \in Requests, Batch(r)
    PROVE  TraceInv'
<1> DEFINE t == TurnOf(r)
           o == request[r].ending
           k == request[r].taken
<1>1. /\ request[r].pc = "batch"
      /\ UNCHANGED <<openTurns, buffer, checkpoint, signals>>
      /\ faults' \in Nat
      /\ pending' \subseteq Turns
      /\ \E pc \in {"pop", "popFailed"} : Go(r, pc)
  BY Hands DEF Batch, At, Fault, store, TraceInv, TraceTypeOK
<1>2. /\ TraceTypeOK /\ InItsPlace(r) /\ Registered(r) /\ t \in Turns
  BY <1>1, Hands DEF At
<1>3. /\ request' \in [Requests -> RequestType]
      /\ request'[r].pc \in {"pop", "popFailed"}
      /\ request'[r].turn = request[r].turn
      /\ request'[r].buffer = request[r].buffer
      /\ \A q \in Requests \ {r} : request'[q] = request[q]
  BY <1>1, <1>2, GoFacts DEF Pcs
<1>4. InItsPlace(r)'
  BY <1>1, <1>2, <1>3 DEF InItsPlace, AtWork, At, TurnOf
<1>5. Registered(r)'
  BY <1>1, <1>2, <1>3 DEF Registered, AtWork, TurnOf
<1>6. CASE Write(t, request[r].buffer, k, o)
  <2>1. /\ request[r].buffer = r /\ Ahead(r, k) /\ k \in Nat
        /\ o \in Outcomes \ {"absent"}
    <3>1. o \in Endings \ {"none"} /\ k \in Nat
      BY <1>1, <1>2 DEF InItsPlace, At, TraceTypeOK, RequestType
    <3> QED BY <1>1, <1>2, <3>1 DEF InItsPlace, At, Endings, Outcomes, Settled
  <2>2. Write(t, r, k, o)
    BY <1>6, <2>1
  <2>3. /\ turns' \in [Turns -> [outcome : Outcomes, count : Nat]]
        /\ spans' \in [Turns -> Seq(Nat)]
        /\ SeqsRunOn' /\ TotalsMatchSpans'
        /\ turns'[t].outcome # "absent"
        /\ \A u \in Turns \ {t} : turns'[u] = turns[u] /\ spans'[u] = spans[u]
    BY <1>2, <2>1, <2>2, WriteRunsOn
  <2>4. TraceTypeOK'
    BY <1>1, <1>2, <1>3, <2>3 DEF TraceTypeOK
  <2>5. \A u \in Turns : turns'[u].outcome = "absent" => turns[u].outcome = "absent"
    BY <2>3
  <2> QED BY <1>1, <1>3, <1>4, <1>5, <2>3, <2>4, <2>5, StepOn DEF At, TurnOf
<1>7. CASE UNCHANGED store
  <2>1. TraceTypeOK'
    BY <1>1, <1>2, <1>3, <1>7 DEF TraceTypeOK, store
  <2> QED BY <1>1, <1>3, <1>4, <1>5, <1>7, <2>1, MoveOn DEF At, TurnOf, store
<1> QED BY <1>6, <1>7 DEF Batch

-----------------------------------------------------------------------------
\* A signal marks the live registered buffers for a checkpoint.
LEMMA SignalInv ==
    ASSUME TraceInv, Signal
    PROVE  TraceInv'
<1>1. /\ UNCHANGED <<turns, spans, pending, openTurns, buffer, request, faults>>
      /\ checkpoint' \subseteq Requests
      /\ \A b \in checkpoint' : ~ buffer[b].closed
      /\ signals' = signals + 1
  BY DEF Signal, IsLive, store
<1>2. TraceTypeOK'
  BY <1>1 DEF TraceInv, TraceTypeOK
<1>3. SeqsRunOn' /\ TotalsMatchSpans' /\ OneRequest' /\ NotYet'
  BY <1>1 DEF TraceInv, SeqsRunOn, TotalsMatchSpans, OneRequest, NotYet, TurnOf
<1>4. ASSUME NEW r \in Requests
      PROVE  InItsPlace(r)' /\ Registered(r)'
  <2>1. InItsPlace(r) /\ Registered(r)
    BY DEF TraceInv
  <2> QED BY <1>1, <2>1 DEF InItsPlace, Registered, Ahead, AtWork, At, TurnOf
<1> QED BY <1>2, <1>3, <1>4 DEF TraceInv

\* The maintenance pass settles a turn left open, whoever is at work on it.
LEMMA SweepStaleInv ==
    ASSUME TraceInv, NEW t \in Turns, SweepStale(t)
    PROVE  TraceInv'
<1>1. /\ UNCHANGED <<spans, pending, openTurns, buffer, request, checkpoint, signals,
                     faults>>
      /\ turns' = [turns EXCEPT ![t].outcome = "error"]
  BY DEF SweepStale
<1>2. /\ turns' \in [Turns -> [outcome : Outcomes, count : Nat]]
      /\ \A u \in Turns : /\ turns'[u].count = turns[u].count
                          /\ turns'[u].outcome = "absent" => turns[u].outcome = "absent"
  <2>1. turns \in [Turns -> [outcome : Outcomes, count : Nat]] /\ "error" \in Outcomes
    BY DEF TraceInv, TraceTypeOK, Outcomes
  <2> QED BY <1>1, <2>1
<1>3. TraceTypeOK'
  BY <1>1, <1>2 DEF TraceInv, TraceTypeOK
<1>4. SeqsRunOn' /\ TotalsMatchSpans'
  BY <1>1, <1>2, RecordStays
<1>5. OneRequest' /\ NotYet'
  BY <1>1, <1>2, HandsStay
<1>6. ASSUME NEW r \in Requests
      PROVE  InItsPlace(r)' /\ Registered(r)'
  <2>1. /\ InItsPlace(r) /\ Registered(r)
        /\ ~ At(r, "off") => TurnOf(r) \in Turns
    BY NobodyElse DEF TraceInv
  <2> QED BY <1>1, <1>2, <2>1 DEF InItsPlace, Registered, Ahead, AtWork, At, TurnOf
<1> QED BY <1>3, <1>4, <1>5, <1>6 DEF TraceInv

\* The process ends: requests, buffers and registry go, the record stays.
LEMMA KillInv ==
    ASSUME TraceInv, Kill
    PROVE  TraceInv'
<1>1. /\ UNCHANGED <<turns, spans, pending, signals>>
      /\ openTurns' = [t \in Turns |-> NoRequest]
      /\ buffer' = [r \in Requests |-> NoBuffer]
      /\ request' = [r \in Requests |-> Off]
      /\ checkpoint' = {}
      /\ faults' = faults + 1
  BY DEF Kill, Fault, store
<1>2. TraceTypeOK'
  <2>1. NoBuffer \in BufferType /\ Off \in RequestType
    BY DEF NoBuffer, BufferType, Off, RequestType, Pcs, Endings
  <2> QED BY <1>1, <2>1 DEF TraceInv, TraceTypeOK
<1>3. SeqsRunOn' /\ TotalsMatchSpans'
  BY <1>1, RecordStays
<1>4. OneRequest' /\ NotYet'
  BY <1>1, TraceAssumption DEF OneRequest, NotYet, TurnOf, Off
<1>5. ASSUME NEW r \in Requests
      PROVE  InItsPlace(r)' /\ Registered(r)'
  BY <1>1, TraceAssumption DEF InItsPlace, Registered, AtWork, At, TurnOf, Off
<1> QED BY <1>2, <1>3, <1>4, <1>5 DEF TraceInv

\* The checkpoint writes one buffer's spans.
LEMMA FlushOneInv ==
    ASSUME TraceInv, FlushOne
    PROVE  TraceInv'
<1>1. PICK b \in checkpoint, t \in Turns :
         /\ openTurns[t] = b
         /\ Checkpoint(b, t)
         /\ openTurns' = [openTurns EXCEPT ![t] = NoRequest]
         /\ checkpoint' = checkpoint \ {b}
         /\ UNCHANGED <<pending, request, signals>>
  BY DEF FlushOne
<1>2. /\ TraceTypeOK /\ b \in Requests /\ InItsPlace(b) /\ Registered(b)
      /\ TurnOf(b) = t /\ ~ buffer[b].closed
      /\ request[b].pc \in AtWork \ {"register"}
  <2>1. TraceTypeOK /\ b \in Requests /\ InItsPlace(b) /\ Registered(b)
    BY DEF TraceInv, TraceTypeOK
  <2>2. /\ TurnOf(b) = t /\ ~ buffer[b].closed
        /\ request[b].pc \notin {"off", "register", "answered", "batch", "pop",
                                "popFailed"}
    BY <1>1, <2>1 DEF Registered, InItsPlace
  <2>3. request[b].pc \in Pcs
    BY <2>1 DEF TraceTypeOK, RequestType
  <2> QED BY <2>1, <2>2, <2>3 DEF Pcs, AtWork
<1>3. ~ At(b, "off")
  BY <1>2 DEF At, AtWork
<1>4. /\ openTurns' \in [Turns -> Requests \cup {NoRequest}]
      /\ \A u \in Turns : openTurns'[u] \in {openTurns[u], NoRequest}
      /\ \A u \in Turns : openTurns'[u] # b
  BY <1>1, <1>2, <1>3, Hands DEF TraceTypeOK
<1>5. Registered(b)'
  BY <1>1, <1>4 DEF Registered
<1>6. \A u \in Turns, q \in Requests \ {b} : openTurns'[u] = q => openTurns[u] = q
  BY <1>4, TraceAssumption
<1>7. Ahead(b, buffer[b].held) /\ buffer[b].held \in Nat /\ buffer[b] \in BufferType
  BY <1>2 DEF InItsPlace, TraceTypeOK, BufferType
<1>8. CASE Write(t, b, buffer[b].held, "exit")
  <2>1. "exit" \in Outcomes \ {"absent"}
    BY DEF Outcomes
  <2>2. /\ turns' \in [Turns -> [outcome : Outcomes, count : Nat]]
        /\ spans' \in [Turns -> Seq(Nat)]
        /\ SeqsRunOn' /\ TotalsMatchSpans'
        /\ Len(spans'[t]) = Len(spans[t]) + buffer[b].held
        /\ turns'[t].count = buffer[b].count
        /\ turns'[t].outcome # "absent"
        /\ \A u \in Turns \ {t} : turns'[u] = turns[u] /\ spans'[u] = spans[u]
    BY <1>2, <1>7, <1>8, <2>1, WriteRunsOn
  <2>3. /\ buffer' \in [Requests -> BufferType]
        /\ buffer'[b].next = buffer[b].next
        /\ buffer'[b].count = buffer[b].count
        /\ buffer'[b].held = 0
        /\ \A q \in Requests \ {b} : buffer'[q] = buffer[q]
        /\ faults' \in Nat
    <3>1. buffer \in [Requests -> BufferType] /\ faults \in Nat
      BY <1>2 DEF TraceTypeOK
    <3>2. CASE buffer' = [buffer EXCEPT ![b].held = 0] /\ UNCHANGED faults
      BY <1>2, <3>1, <3>2 DEF BufferType
    <3>3. CASE buffer' = [buffer EXCEPT ![b].closed = TRUE, ![b].held = 0] /\ Fault
      <4>1. faults' \in Nat
        BY <3>1, <3>3 DEF Fault
      <4>2. buffer' = [buffer EXCEPT ![b].closed = TRUE, ![b].held = 0]
        BY <3>3
      <4> QED BY <1>2, <3>1, <4>1, <4>2 DEF BufferType
    <3> QED BY <1>1, <3>2, <3>3 DEF Checkpoint
  <2>4. TraceTypeOK'
    BY <1>1, <1>2, <1>4, <2>2, <2>3 DEF TraceTypeOK
  <2>5. InItsPlace(b)'
    <3>1. /\ buffer'[b].next = Len(spans'[t]) + 0 + 1
          /\ buffer'[b].count = turns'[t].count + 0
      <4>1. buffer[b].next = Len(spans[t]) + buffer[b].held + 1
        BY <1>2, <1>7 DEF Ahead
      <4>2. buffer[b].count \in Nat /\ Len(spans[t]) \in Nat
        BY <1>2, <1>7, LenProperties DEF TraceTypeOK, BufferType
      <4> QED BY <1>7, <2>2, <2>3, <4>1, <4>2
    <3>2. Ahead(b, buffer[b].held)'
      BY <1>1, <1>2, <2>3, <3>1 DEF Ahead, TurnOf
    <3> QED BY <1>1, <1>2, <1>3, <3>2 DEF InItsPlace, AtWork, At, TurnOf
  <2>6. \A u \in Turns : turns'[u].outcome = "absent" => turns[u].outcome = "absent"
    BY <2>2
  <2>7. /\ \A q \in Requests \ {b} : request'[q] = request[q] /\ buffer'[q] = buffer[q]
        /\ request'[b].turn \in {TurnOf(b), NoTurn}
        /\ checkpoint' \subseteq checkpoint
    BY <1>1, <2>3 DEF TurnOf
  <2>8. \A u \in Turns \ {TurnOf(b)} : /\ spans'[u] = spans[u]
                                       /\ turns'[u].count = turns[u].count
    BY <1>2, <2>2
  <2> QED BY <1>2, <1>3, <1>5, <1>6, <2>2, <2>4, <2>5, <2>6, <2>7, <2>8, StepOn
<1>9. CASE UNCHANGED <<turns, spans>> /\ Fault
           /\ buffer' = [buffer EXCEPT ![b].closed = TRUE, ![b].held = 0]
  <2>1. /\ buffer' \in [Requests -> BufferType]
        /\ buffer'[b].closed
        /\ \A q \in Requests \ {b} : buffer'[q] = buffer[q]
        /\ faults' \in Nat
    <3>1. buffer \in [Requests -> BufferType] /\ faults \in Nat
      BY <1>2 DEF TraceTypeOK
    <3>2. faults' \in Nat
      BY <1>9, <3>1 DEF Fault
    <3>3. buffer' = [buffer EXCEPT ![b].closed = TRUE, ![b].held = 0]
      BY <1>9
    <3>4. /\ buffer' \in [Requests -> BufferType]
          /\ buffer'[b].closed = TRUE
          /\ \A q \in Requests \ {b} : buffer'[q] = buffer[q]
      BY <1>2, <3>1, <3>3 DEF BufferType
    <3> QED BY <3>2, <3>4
  <2>2. TraceTypeOK'
    BY <1>1, <1>2, <1>4, <1>9, <2>1 DEF TraceTypeOK
  <2>3. InItsPlace(b)'
    BY <1>1, <1>2, <2>1 DEF InItsPlace, AtWork, At, TurnOf
  <2>4. /\ \A q \in Requests \ {b} : request'[q] = request[q] /\ buffer'[q] = buffer[q]
        /\ request'[b].turn \in {TurnOf(b), NoTurn}
        /\ checkpoint' \subseteq checkpoint
    BY <1>1, <2>1 DEF TurnOf
  <2>5. /\ spans' = spans
        /\ \A u \in Turns : /\ turns'[u].count = turns[u].count
                            /\ turns'[u].outcome = "absent" => turns[u].outcome = "absent"
    BY <1>9
  <2> QED BY <1>2, <1>3, <1>5, <1>6, <2>2, <2>3, <2>4, <2>5, MoveOn
<1> QED BY <1>1, <1>8, <1>9 DEF Checkpoint

-----------------------------------------------------------------------------
\* No turn is open and no span is recorded at first.
LEMMA TraceInitInv == TraceInit => TraceInv
<1> SUFFICES ASSUME TraceInit PROVE TraceInv
  OBVIOUS
<1>1. /\ turns = [t \in Turns |-> [outcome |-> "absent", count |-> 0]]
      /\ spans = [t \in Turns |-> <<>>]
      /\ pending = {} /\ checkpoint = {}
      /\ openTurns = [t \in Turns |-> NoRequest]
      /\ buffer = [r \in Requests |-> NoBuffer]
      /\ request = [r \in Requests |-> Off]
      /\ signals = 0 /\ faults = 0
  BY DEF TraceInit
<1>2. TraceTypeOK
  <2>1. NoBuffer \in BufferType /\ Off \in RequestType
    BY DEF NoBuffer, BufferType, Off, RequestType, Pcs, Endings
  <2>2. [outcome |-> "absent", count |-> 0] \in [outcome : Outcomes, count : Nat]
    BY DEF Outcomes
  <2> QED BY <1>1, <2>1, <2>2 DEF TraceTypeOK
<1>3. SeqsRunOn /\ TotalsMatchSpans
  BY <1>1 DEF SeqsRunOn, TotalsMatchSpans
<1>4. OneRequest /\ NotYet
  BY <1>1, TraceAssumption DEF OneRequest, NotYet, TurnOf, Off
<1>5. \A r \in Requests : InItsPlace(r) /\ Registered(r)
  BY <1>1, TraceAssumption DEF InItsPlace, Registered, AtWork, At, TurnOf, Off
<1> QED BY <1>2, <1>3, <1>4, <1>5 DEF TraceInv

\* Every step keeps the invariant, when requests for one turn do not overlap.
LEMMA TraceStep ==
    ASSUME ~ Overlap, TraceInv, [TraceNext]_traceVars
    PROVE  TraceInv'
<1>1. CASE UNCHANGED traceVars
  <2>1. /\ UNCHANGED <<turns, spans, pending, openTurns, buffer, request, checkpoint>>
        /\ UNCHANGED <<signals, faults>>
    BY <1>1 DEF traceVars, store
  <2>2. TraceTypeOK' /\ SeqsRunOn' /\ TotalsMatchSpans' /\ OneRequest' /\ NotYet'
    BY <2>1 DEF TraceInv, TraceTypeOK, SeqsRunOn, TotalsMatchSpans, OneRequest, NotYet,
                TurnOf
  <2>3. ASSUME NEW r \in Requests
        PROVE  InItsPlace(r)' /\ Registered(r)'
    <3>1. InItsPlace(r) /\ Registered(r)
      BY DEF TraceInv
    <3> QED BY <2>1, <3>1 DEF InItsPlace, Registered, Ahead, At, TurnOf
  <2> QED BY <2>2, <2>3 DEF TraceInv
<1>2. CASE \E r \in Requests, t \in Turns : StartTurn(r, t) \/ Resume(r, t)
  BY <1>2, StartTurnInv, ResumeInv
<1>3. ASSUME NEW r \in Requests, Work(r)
      PROVE  TraceInv'
  <2>1. CASE Register(r) \/ Use(r) \/ Adopt(r) \/ AddSpan(r) \/ Resolve(r)
    BY <2>1, RegisterInv, UseInv, AdoptInv, AddSpanInv, ResolveInv
  <2>2. CASE \E o \in Settled \cup {"awaiting"} : Finish(r, o)
    BY <2>2, FinishInv
  <2>3. CASE Batch(r) \/ Pop(r) \/ Answer(r) \/ Fail(r) \/ Unhandled(r)
    BY <2>3, BatchInv, PopInv, AnswerInv, FailInv, UnhandledInv
  <2> QED BY <1>3, <2>1, <2>2, <2>3 DEF Work
<1>4. CASE Signal \/ FlushOne \/ Kill
  BY <1>4, SignalInv, FlushOneInv, KillInv
<1>5. CASE \E t \in Turns : SweepStale(t)
  BY <1>5, SweepStaleInv
<1> QED BY <1>1, <1>2, <1>3, <1>4, <1>5 DEF TraceNext

\* As long as no two requests resume one turn at a time, the spans of every turn
\* are numbered 1, 2, 3, ... on record and the totals of its row count them
\* exactly, whatever checkpoints, lost batches, failures and restarts happen.
THEOREM RecordIsSound ==
    ASSUME ~ Overlap
    PROVE  TraceSpec => [](TraceTypeOK /\ SeqsRunOn /\ TotalsMatchSpans)
<1>1. TraceInv /\ [TraceNext]_traceVars => TraceInv'
  BY TraceStep
<1>2. TraceInv => TraceTypeOK /\ SeqsRunOn /\ TotalsMatchSpans
  BY DEF TraceInv
<1> QED BY <1>1, <1>2, TraceInitInv, PTL DEF TraceSpec

\* A request on which nothing has failed: its buffer is open until it closes it
\* itself, and from its batch on the row says what the request will answer.
Smooth(r) ==
    /\ request[r].pc \notin {"error", "popFailed"}
    /\ request[r].pc \in AtWork => ~ buffer[r].closed
    /\ request[r].pc \in {"batch", "pop", "answered"} =>
          request[r].ending \in Settled \cup {"awaiting"}
    /\ request[r].pc \in {"pop", "answered"} =>
          turns[TurnOf(r)].outcome = request[r].ending
    /\ request[r].pc \in {"off", "batch", "pop", "answered"} => buffer[r].held = 0

AllSmooth == faults = 0 => \A r \in Requests : Smooth(r)

\* A request that is not touched stays smooth, as long as the row it has written
\* is left alone.
LEMMA SmoothStays ==
    ASSUME TraceInv, NEW q \in Requests, Smooth(q),
           request'[q] = request[q], buffer'[q] = buffer[q],
           request[q].pc \in {"pop", "answered"} =>
              turns'[TurnOf(q)].outcome = turns[TurnOf(q)].outcome
    PROVE  Smooth(q)'
BY DEF Smooth, TurnOf

\* One request moves on its own turn.
LEMMA OneSmooth ==
    ASSUME TraceInv, \A q \in Requests : Smooth(q), NEW r \in Requests, Smooth(r)',
           ~ At(r, "off"),
           \A q \in Requests \ {r} : request'[q] = request[q] /\ buffer'[q] = buffer[q],
           \A u \in Turns \ {TurnOf(r)} : turns'[u] = turns[u]
    PROVE  \A q \in Requests : Smooth(q)'
<1>1. ASSUME NEW q \in Requests \ {r} PROVE Smooth(q)'
  <2>1. request[q].pc \in {"pop", "answered"} => TurnOf(q) \in Turns \ {TurnOf(r)}
    <3>1. ~ At(q, "off") => TurnOf(q) \in Turns
      BY NobodyElse
    <3> QED BY <3>1, NobodyElse DEF At
  <2> QED BY <2>1, SmoothStays
<1> QED BY <1>1

\* The steps of a request.
LEMMA WorkSmooth ==
    ASSUME TraceInv, \A q \in Requests : Smooth(q), NEW r \in Requests, Work(r), ~ Fault
    PROVE  \A q \in Requests : Smooth(q)'
<1>0. /\ TraceTypeOK /\ Smooth(r) /\ InItsPlace(r) /\ request[r] \in RequestType
      /\ buffer[r] \in BufferType
  BY DEF TraceInv, TraceTypeOK
<1>1. ~ At(r, "off")
  BY DEF Work, Register, Use, Adopt, AddSpan, Resolve, Finish, Batch, Pop, Answer, Fail,
         Unhandled, At
<1>2. TurnOf(r) \in Turns
  BY <1>1, NobodyElse
<1>3. ASSUME NEW pc \in Pcs, Go(r, pc)
      PROVE  /\ request'[r].pc = pc /\ request'[r].turn = request[r].turn
             /\ request'[r].ending = request[r].ending
             /\ TurnOf(r)' = TurnOf(r)
             /\ \A q \in Requests \ {r} : request'[q] = request[q]
  BY <1>0, <1>3, GoFacts DEF TurnOf
<1>4. CASE Register(r)
  <2> DEFINE pc == IF TurnOf(r) \in pending THEN "adopt" ELSE "use"
  <2>1. pc \in {"adopt", "use"} /\ pc \in Pcs /\ Go(r, pc) /\ UNCHANGED <<turns, buffer>>
        /\ request[r].pc = "register"
    BY <1>4 DEF Register, Pcs, store, At
  <2> HIDE DEF pc
  <2>2. Smooth(r)'
    BY <1>0, <1>3, <2>1 DEF Smooth, AtWork
  <2> QED BY <1>1, <1>3, <2>1, <2>2, OneSmooth
<1>5. CASE Use(r)
  <2>1. /\ request'[r].pc = "work"
        /\ \A q \in Requests \ {r} : request'[q] = request[q]
        /\ UNCHANGED <<turns, buffer>> /\ request[r].pc = "use"
    BY <1>0, <1>5 DEF Use, store, At, TraceTypeOK, RequestType
  <2>2. Smooth(r)'
    BY <1>0, <2>1 DEF Smooth, AtWork
  <2> QED BY <1>1, <2>1, <2>2, OneSmooth
<1>6. CASE Adopt(r)
  <2>1. request[r].pc = "adopt"
    BY <1>6 DEF Adopt, At
  <2>2. CASE IsLive(openTurns[TurnOf(r)])
    <3>1. /\ request'[r].pc = "work"
          /\ \A q \in Requests \ {r} : request'[q] = request[q]
          /\ UNCHANGED <<turns, buffer>>
      BY <1>0, <1>6, <2>2 DEF Adopt, TraceTypeOK, RequestType
    <3>2. Smooth(r)'
      BY <1>0, <2>1, <3>1 DEF Smooth, AtWork
    <3> QED BY <1>1, <3>1, <3>2, OneSmooth
  <2>3. CASE ~ IsLive(openTurns[TurnOf(r)])
    <3>1. /\ Go(r, "use") /\ "use" \in Pcs
          /\ buffer' = [buffer EXCEPT ![r] = Continued(TurnOf(r))]
          /\ turns' = [turns EXCEPT ![TurnOf(r)].outcome = "open"]
      BY <1>6, <2>3 DEF Adopt, Pcs
    <3>2. /\ buffer'[r] = Continued(TurnOf(r)) /\ ~ Continued(TurnOf(r)).closed
          /\ \A q \in Requests \ {r} : buffer'[q] = buffer[q]
          /\ \A u \in Turns \ {TurnOf(r)} : turns'[u] = turns[u]
      BY <1>0, <1>2, <3>1 DEF TraceTypeOK, Continued
    <3>3. Smooth(r)'
      BY <1>3, <3>1, <3>2 DEF Smooth
    <3> QED BY <1>1, <1>3, <3>1, <3>2, <3>3, OneSmooth
  <2> QED BY <2>2, <2>3
<1>7. CASE AddSpan(r) \/ Fail(r) \/ Unhandled(r)
  <2>1. AddSpan(r) /\ request[r].buffer = r /\ IsLive(r)
    BY <1>0, <1>7, TraceAssumption DEF Fail, Unhandled, AddSpan, Smooth, InItsPlace, At,
       IsLive, AtWork
  <2>2. Accept(r) /\ UNCHANGED <<request, turns>> /\ request[r].pc = "work"
    BY <2>1 DEF AddSpan, store, At
  <2>3. /\ buffer'[r].closed = buffer[r].closed
        /\ \A q \in Requests \ {r} : buffer'[q] = buffer[q]
    <3>1. buffer'[r] = [buffer[r] EXCEPT !.next = @ + 1, !.held = @ + 1, !.count = @ + 1]
      BY <1>0, <2>2 DEF Accept, TraceTypeOK
    <3>2. buffer'[r].closed = buffer[r].closed
      BY <1>0, <3>1 DEF BufferType
    <3>3. \A q \in Requests \ {r} : buffer'[q] = buffer[q]
      BY <1>0, <2>2 DEF Accept, TraceTypeOK
    <3> QED BY <3>2, <3>3
  <2>4. Smooth(r)'
    BY <1>0, <2>2, <2>3 DEF Smooth, AtWork
  <2> QED BY <1>1, <2>2, <2>3, <2>4, OneSmooth
<1>8. CASE Resolve(r)
  <2>1. UNCHANGED <<turns, request, buffer>>
    BY <1>8 DEF Resolve
  <2> QED BY <2>1, SmoothStays
<1>9. ASSUME NEW o \in Settled \cup {"awaiting"}, Finish(r, o)
      PROVE  \A q \in Requests : Smooth(q)'
  <2>1. request[r].buffer = r /\ IsLive(r) /\ request[r].pc = "work"
    BY <1>0, <1>9, TraceAssumption DEF Finish, Smooth, InItsPlace, At, IsLive, AtWork
  <2>2. Take(r, r, o) /\ UNCHANGED turns
    BY <1>9, <2>1 DEF Finish, store
  <2>3. /\ request'[r].pc = "batch" /\ request'[r].ending = o
        /\ \A q \in Requests \ {r} : request'[q] = request[q]
    <3>1. request'[r] = [request[r] EXCEPT !.pc = "batch", !.buffer = r, !.ending = o,
                                           !.taken = buffer[r].held]
      BY <1>0, <2>2 DEF Take, TraceTypeOK
    <3>2. request'[r].pc = "batch" /\ request'[r].ending = o
      BY <1>0, <3>1 DEF RequestType
    <3>3. \A q \in Requests \ {r} : request'[q] = request[q]
      BY <1>0, <2>2 DEF Take, TraceTypeOK
    <3> QED BY <3>2, <3>3
  <2>4. buffer'[r].held = 0 /\ \A q \in Requests \ {r} : buffer'[q] = buffer[q]
    <3>1. buffer'[r] = [buffer[r] EXCEPT !.closed = TRUE, !.held = 0]
      BY <1>0, <2>2 DEF Take, TraceTypeOK
    <3>2. buffer'[r].held = 0
      BY <1>0, <3>1 DEF BufferType
    <3>3. \A q \in Requests \ {r} : buffer'[q] = buffer[q]
      BY <1>0, <2>2 DEF Take, TraceTypeOK
    <3> QED BY <3>2, <3>3
  <2>5. Smooth(r)'
    BY <1>9, <2>3, <2>4 DEF Smooth, AtWork
  <2> QED BY <1>1, <2>2, <2>3, <2>4, <2>5, OneSmooth
<1>10. CASE Batch(r)
  <2>1. /\ Go(r, "pop") /\ "pop" \in Pcs /\ request[r].pc = "batch" /\ buffer' = buffer
        /\ Write(TurnOf(r), request[r].buffer, request[r].taken, request[r].ending)
    BY <1>10 DEF Batch, At, Pcs
  <2>2. /\ turns'[TurnOf(r)].outcome = request[r].ending
        /\ \A u \in Turns \ {TurnOf(r)} : turns'[u] = turns[u]
    BY <1>0, <1>2, <2>1 DEF Write, TraceTypeOK
  <2>3. Smooth(r)'
    BY <1>0, <1>3, <2>1, <2>2 DEF Smooth, AtWork
  <2> QED BY <1>1, <1>3, <2>1, <2>2, <2>3, OneSmooth
<1>11. CASE Pop(r)
  <2>1. /\ Go(r, "answered") /\ "answered" \in Pcs /\ request[r].pc = "pop"
        /\ UNCHANGED <<turns, buffer>>
    BY <1>0, <1>11 DEF Pop, At, Smooth, Pcs, store
  <2>2. Smooth(r)'
    BY <1>0, <1>3, <2>1 DEF Smooth, AtWork
  <2> QED BY <1>1, <1>3, <2>1, <2>2, OneSmooth
<1>12. CASE Answer(r)
  <2>1. Leave(r) /\ UNCHANGED <<turns, buffer>> /\ request[r].pc = "answered"
    BY <1>12 DEF Answer, store, At
  <2>2. request'[r].pc = "off" /\ \A q \in Requests \ {r} : request'[q] = request[q]
    BY <1>0, <2>1, LeaveFacts
  <2>3. Smooth(r)'
    BY <1>0, <2>1, <2>2 DEF Smooth, AtWork
  <2> QED BY <1>1, <2>1, <2>2, <2>3, OneSmooth
<1> QED BY <1>4, <1>5, <1>6, <1>7, <1>8, <1>9, <1>10, <1>11, <1>12 DEF Work

\* A checkpoint rewrites the row of a turn that is still being worked on.
LEMMA FlushSmooth ==
    ASSUME TraceInv, \A q \in Requests : Smooth(q), FlushOne, ~ Fault
    PROVE  \A q \in Requests : Smooth(q)'
<1>1. PICK b \in checkpoint, t \in Turns :
          /\ openTurns[t] = b
          /\ Write(t, b, buffer[b].held, "exit")
          /\ buffer' = [buffer EXCEPT ![b].held = 0]
          /\ UNCHANGED request
  BY DEF FlushOne, Checkpoint
<1>2. b \in Requests /\ TraceTypeOK /\ InItsPlace(b) /\ Registered(b) /\ Smooth(b)
  BY DEF TraceInv, TraceTypeOK
<1>3. TurnOf(b) = t /\ ~ buffer[b].closed /\ request[b].pc \notin {"off", "answered", "pop"}
  BY <1>1, <1>2 DEF Registered, InItsPlace
<1>4. /\ \A u \in Turns \ {t} : turns'[u] = turns[u]
      /\ \A q \in Requests \ {b} : buffer'[q] = buffer[q]
      /\ buffer'[b].closed = buffer[b].closed /\ buffer'[b].held = 0
  <2>1. buffer'[b] = [buffer[b] EXCEPT !.held = 0]
    BY <1>1, <1>2 DEF TraceTypeOK
  <2> QED BY <1>1, <1>2, <2>1 DEF TraceTypeOK, Write, BufferType
<1>5. Smooth(b)'
  BY <1>1, <1>2, <1>3, <1>4 DEF Smooth
<1> QED BY <1>1, <1>2, <1>3, <1>4, <1>5, OneSmooth DEF At

\* Every step on which nothing fails.
LEMMA SmoothStep ==
    ASSUME ~ Overlap, TraceInv, AllSmooth, [TraceNext]_traceVars
    PROVE  AllSmooth'
<1> SUFFICES ASSUME faults' = 0 PROVE \A q \in Requests : Smooth(q)'
  BY DEF AllSmooth
<1>1. faults \in Nat /\ TraceTypeOK
  BY DEF TraceInv, TraceTypeOK
<1>2. ~ Fault
  BY <1>1 DEF Fault
<1>3. CASE UNCHANGED traceVars
  <2>1. UNCHANGED <<turns, request, buffer, faults>>
    BY <1>3 DEF traceVars, store
  <2> QED BY <2>1, SmoothStays DEF AllSmooth
<1>4. ASSUME NEW r \in Requests, NEW t \in Turns, StartTurn(r, t) \/ Resume(r, t)
      PROVE  \A q \in Requests : Smooth(q)'
  <2>1. /\ At(r, "off") /\ turns' = [turns EXCEPT ![t].outcome = "open"]
        /\ request' = [request EXCEPT ![r] = [Off EXCEPT !.pc = "register", !.turn = t]]
        /\ buffer' = [buffer EXCEPT ![r] = Continued(t)]
        /\ UNCHANGED faults
    BY <1>2, <1>4 DEF StartTurn, Resume
  <2>2. \A q \in Requests : TurnOf(q) # t
    BY <1>4 DEF StartTurn, Resume, Active, TraceInv, NotYet
  <2>3. /\ request'[r].pc = "register" /\ ~ buffer'[r].closed
        /\ \A q \in Requests \ {r} : request'[q] = request[q] /\ buffer'[q] = buffer[q]
        /\ \A u \in Turns \ {t} : turns'[u] = turns[u]
    BY <1>1, <2>1 DEF TraceTypeOK, Off, Continued
  <2>4. ASSUME NEW q \in Requests \ {r} PROVE Smooth(q)'
    <3>1. Smooth(q)
      BY <2>1 DEF AllSmooth
    <3>2. request[q].pc \in {"pop", "answered"} => TurnOf(q) \in Turns
      BY NobodyElse DEF At
    <3> QED BY <2>2, <2>3, <3>1, <3>2, SmoothStays
  <2>5. Smooth(r)'
    BY <2>3 DEF Smooth
  <2> QED BY <2>4, <2>5
<1>5. ASSUME NEW r \in Requests, Work(r)
      PROVE  \A q \in Requests : Smooth(q)'
  <2>1. faults = 0
    BY <1>2, <1>5 DEF Work, Register, Use, Adopt, AddSpan, Resolve, Finish, Batch, Pop,
       Answer, Fail, Unhandled
  <2> QED BY <1>2, <1>5, <2>1, WorkSmooth DEF AllSmooth
<1>6. CASE Signal
  <2>1. UNCHANGED <<turns, request, buffer, faults>>
    BY <1>6 DEF Signal, store
  <2> QED BY <2>1, SmoothStays DEF AllSmooth
<1>7. CASE FlushOne
  <2>1. faults = 0
    BY <1>2, <1>7 DEF FlushOne, Checkpoint
  <2> QED BY <1>2, <1>7, <2>1, FlushSmooth DEF AllSmooth
<1>8. ASSUME NEW t \in Turns, SweepStale(t)
      PROVE  \A q \in Requests : Smooth(q)'
  <2>1. /\ UNCHANGED <<request, buffer, faults>>
        /\ turns' = [turns EXCEPT ![t].outcome = "error"]
        /\ turns[t].outcome = "open"
    BY <1>8 DEF SweepStale
  <2>2. ASSUME NEW q \in Requests PROVE Smooth(q)'
    <3>1. Smooth(q) /\ "open" \notin Settled \cup {"awaiting"}
      BY <2>1 DEF AllSmooth, Settled
    <3>2. request[q].pc \in {"pop", "answered"} => TurnOf(q) # t
      BY <2>1, <3>1 DEF Smooth
    <3>3. request[q].pc \in {"pop", "answered"} => turns'[TurnOf(q)] = turns[TurnOf(q)]
      BY <1>1, <2>1, <3>2, NobodyElse DEF At, TraceTypeOK
    <3> QED BY <2>1, <3>1, <3>3, SmoothStays
  <2> QED BY <2>2
<1> QED BY <1>2, <1>3, <1>4, <1>5, <1>6, <1>7, <1>8 DEF TraceNext, Kill

\* Checkpoints by themselves cost nothing: as long as nothing fails and no two
\* requests resume one turn at a time, a request that has lived through any
\* number of them answers what is on record, and leaves no span unwritten.
THEOREM CheckpointsCostNothing ==
    ASSUME ~ Overlap
    PROVE  TraceSpec => []CheckpointsAreSafe
<1>1. TraceInit => AllSmooth
  BY DEF TraceInit, AllSmooth, Smooth, AtWork, Off, NoBuffer
<1>2. TraceInv /\ AllSmooth /\ [TraceNext]_traceVars => AllSmooth' /\ TraceInv'
  BY SmoothStep, TraceStep
<1>3. TraceInv /\ AllSmooth => CheckpointsAreSafe
  <2>1. ASSUME TraceInv, \A r \in Requests : Smooth(r), NEW b \in Requests
        PROVE  /\ At(b, "answered") => turns[TurnOf(b)].outcome = request[b].ending
               /\ buffer[b].held > 0 => request[b].pc # "off"
    BY <2>1 DEF Smooth, At
  <2> QED BY <2>1 DEF AllSmooth, CheckpointsAreSafe, AnswerIsOnRecord, NoSpanLeftBehind
<1> QED BY <1>1, <1>2, <1>3, TraceInitInv, PTL DEF TraceSpec

\* The rows, the buffers and the requests keep to their types.
COROLLARY TraceTypes == ASSUME ~ Overlap PROVE TraceSpec => []TraceTypeOK
BY RecordIsSound, PTL

\* The totals in a turn's row count the spans on record for it.
COROLLARY TotalsAreExact == ASSUME ~ Overlap PROVE TraceSpec => []TotalsMatchSpans
BY RecordIsSound, PTL
=============================================================================
