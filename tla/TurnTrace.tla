----------------------------- MODULE TurnTrace -----------------------------
(***************************************************************************)
(* core/trace.py: the one writer of turns and spans.  A request buffers    *)
(* its spans in memory and writes them, with the totals of the turn, in    *)
(* one closing batch; POST /chat/confirm reopens the turn and continues    *)
(* its sequence; SIGTERM checkpoints every open buffer and re-arms it; a   *)
(* sweep closes what a killed process left open.                           *)
(*                                                                         *)
(* The requests share the main thread with the signal handler: a request   *)
(* keeps it between its awaits, and no request runs during a checkpoint.   *)
(***************************************************************************)
EXTENDS Naturals, Sequences, FiniteSets

CONSTANTS
    Turns,
    NoTurn,
    Requests,    \* POST /chat and POST /chat/confirm
    NoRequest,
    Overlap,     \* whether a second request may resume a turn being resumed
    MaxSpans,    \* bound on the spans of a turn
    MaxSignals,  \* bound on checkpoints
    MaxFaults    \* bound on failures: of the store, of a request, of the process

ASSUME TraceAssumption ==
    /\ NoTurn \notin Turns
    /\ NoRequest \notin Requests
    /\ Overlap \in BOOLEAN
    /\ MaxSpans \in Nat
    /\ MaxSignals \in Nat
    /\ MaxFaults \in Nat

VARIABLES
    turns,       \* the rows: outcome, and the number of spans in the rollups
    spans,       \* spans.seq of a turn's rows, in the order they were written
    pending,     \* turns whose card is not answered
    openTurns,   \* TraceWriter._open
    buffer,      \* the TurnBuffer each request has created
    request,     \* the requests
    checkpoint,  \* the buffers flush_open_turns() has still to write
    signals,
    faults

store == <<turns, spans, pending>>
traceVars == <<store, openTurns, buffer, request, checkpoint, signals, faults>>

Settled  == {"answered", "refused", "partial"}
Outcomes == {"absent", "open", "awaiting", "error", "exit"} \cup Settled

NoBuffer == [closed |-> TRUE, count |-> 0, held |-> 0, next |-> 1]
Off      == [pc |-> "off", turn |-> NoTurn, buffer |-> NoRequest,
             ending |-> "none", taken |-> 0]

TraceInit ==
    /\ turns = [t \in Turns |-> [outcome |-> "absent", count |-> 0]]
    /\ spans = [t \in Turns |-> <<>>]
    /\ pending = {}
    /\ openTurns = [t \in Turns |-> NoRequest]
    /\ buffer = [r \in Requests |-> NoBuffer]
    /\ request = [r \in Requests |-> Off]
    /\ checkpoint = {}
    /\ signals = 0
    /\ faults = 0

Fault == faults < MaxFaults /\ faults' = faults + 1

At(r, pc)  == request[r].pc = pc
TurnOf(r)  == request[r].turn
Active(t)  == {r \in Requests : TurnOf(r) = t}
Go(r, pc)  == request' = [request EXCEPT ![r].pc = pc]
Leave(r)   == request' = [request EXCEPT ![r] = Off]
IsLive(b)  == b # NoRequest /\ ~ buffer[b].closed

\* The main thread is r's: no checkpoint is running, and no other request is
\* between two of its awaits.
Runs(r) ==
    /\ checkpoint = {}
    /\ \A p \in Requests \ {r} : request[p].pc \in {"off", "work", "answered"}

-----------------------------------------------------------------------------
\* SPAN_MAX_SEQ_SELECT
MaxSeq(s) ==
    IF s = <<>> THEN 0
    ELSE CHOOSE m \in {s[i] : i \in DOMAIN s} : \A i \in DOMAIN s : s[i] <= m

\* Faulty: the sequence starts again at 1.
SeqFromOne(t) ==
    [closed |-> FALSE, count |-> turns[t].count, held |-> 0, next |-> 1]

\* A buffer for a row that exists: its rollups go on, and so does its sequence.
Continued(t) ==
    [closed |-> FALSE, count |-> turns[t].count, held |-> 0,
     next |-> MaxSeq(spans[t]) + 1]

\* The spans a buffer that holds k of them has still to write.
Unwritten(b, k) == [i \in 1 .. k |-> buffer[b].next - k - 1 + i]

\* Faulty: the rollups of the turn are written as they were.
WriteSpansOnly(t, b, k, o) ==
    /\ turns' = [turns EXCEPT ![t].outcome = o]
    /\ spans' = [spans EXCEPT ![t] = @ \o Unwritten(b, k)]

\* The closing batch: every span the buffer held, and the row with its totals.
Write(t, b, k, o) ==
    /\ turns' = [turns EXCEPT ![t] = [outcome |-> o, count |-> buffer[b].count]]
    /\ spans' = [spans EXCEPT ![t] = @ \o Unwritten(b, k)]

-----------------------------------------------------------------------------
\* POST /chat: the row is inserted, then its buffer is made and registered.
StartTurn(r, t) ==
    /\ At(r, "off")
    /\ Runs(r)
    /\ turns[t].outcome = "absent"
    /\ turns' = [turns EXCEPT ![t].outcome = "open"]
    /\ \/ /\ request' = [request EXCEPT ![r] = [Off EXCEPT !.pc = "register",
                                                           !.turn = t]]
          /\ buffer' = [buffer EXCEPT ![r] = Continued(t)]
          /\ UNCHANGED faults
       \/ Fault /\ UNCHANGED <<buffer, request>>    \* inserted, its response lost
    /\ UNCHANGED <<spans, pending, openTurns, checkpoint, signals>>

\* POST /chat/confirm, for a turn whose card is pending.
Resume(r, t) ==
    /\ At(r, "off")
    /\ Runs(r)
    /\ t \in pending
    /\ Overlap \/ Active(t) = {}
    /\ turns' = [turns EXCEPT ![t].outcome = "open"]
    /\ \/ /\ request' = [request EXCEPT ![r] = [Off EXCEPT !.pc = "register",
                                                           !.turn = t]]
          /\ buffer' = [buffer EXCEPT ![r] = Continued(t)]
          /\ UNCHANGED faults
       \/ Fault /\ UNCHANGED <<buffer, request>>
    /\ UNCHANGED <<spans, pending, openTurns, checkpoint, signals>>

Register(r) ==
    /\ At(r, "register")
    /\ Runs(r)
    /\ openTurns' = [openTurns EXCEPT ![TurnOf(r)] = r]
    /\ Go(r, IF TurnOf(r) \in pending THEN "adopt" ELSE "use")
    /\ UNCHANGED <<store, buffer, checkpoint, signals, faults>>

\* A request works with the buffer it has just made.
Use(r) ==
    /\ At(r, "use")
    /\ Runs(r)
    /\ request' = [request EXCEPT ![r].pc = "work", ![r].buffer = r]
    /\ UNCHANGED <<store, openTurns, buffer, checkpoint, signals, faults>>

\* _reopen(): the resume takes the buffer registered for its turn; a checkpoint
\* may have dropped it since, and then the turn is reopened once more.
Adopt(r) ==
    /\ At(r, "adopt")
    /\ Runs(r)
    /\ LET t == TurnOf(r)
           b == openTurns[t]
       IN IF IsLive(b)
          THEN /\ request' = [request EXCEPT ![r].pc = "work", ![r].buffer = b]
               /\ UNCHANGED <<turns, buffer, openTurns>>
          ELSE /\ turns' = [turns EXCEPT ![t].outcome = "open"]
               /\ buffer' = [buffer EXCEPT ![r] = Continued(t)]
               /\ openTurns' = [openTurns EXCEPT ![t] = r]
               /\ Go(r, "use")
    /\ UNCHANGED <<spans, pending, checkpoint, signals, faults>>

\* The buffer takes one more span, or refuses it for being closed.
Accept(b) == buffer' = [buffer EXCEPT ![b].next = @ + 1, ![b].held = @ + 1,
                                      ![b].count = @ + 1]

AddSpan(r) ==
    /\ At(r, "work")
    /\ Runs(r)
    /\ LET b == request[r].buffer IN
         IF IsLive(b)
         THEN buffer[b].next <= MaxSpans /\ Accept(b) /\ UNCHANGED request
         ELSE Go(r, "error") /\ UNCHANGED buffer
    /\ UNCHANGED <<store, openTurns, checkpoint, signals, faults>>

\* _resolve_proposal(): the card is answered.
Resolve(r) ==
    /\ At(r, "work")
    /\ Runs(r)
    /\ TurnOf(r) \in pending
    /\ pending' = pending \ {TurnOf(r)}
    /\ UNCHANGED <<turns, spans, openTurns, buffer, request, checkpoint, signals,
                   faults>>

\* Faulty: the spans stay in the list of the closed buffer.
TakeWithoutClearing(r, b, o) ==
    /\ buffer' = [buffer EXCEPT ![b].closed = TRUE]
    /\ request' = [request EXCEPT ![r].pc = "batch", ![r].buffer = b,
                                  ![r].ending = o, ![r].taken = buffer[b].held]

\* close(), first half: the spans are taken and the buffer is closed.
Take(r, b, o) ==
    /\ buffer' = [buffer EXCEPT ![b].closed = TRUE, ![b].held = 0]
    /\ request' = [request EXCEPT ![r].pc = "batch", ![r].buffer = b,
                                  ![r].ending = o, ![r].taken = buffer[b].held]

\* The request is over: its buffer is closed, or was closed under it.
Finish(r, o) ==
    /\ At(r, "work")
    /\ Runs(r)
    /\ IF IsLive(request[r].buffer)
       THEN Take(r, request[r].buffer, o)
       ELSE /\ request' = [request EXCEPT ![r].pc = "answered", ![r].ending = o]
            /\ UNCHANGED buffer
    /\ UNCHANGED <<store, openTurns, checkpoint, signals, faults>>

\* The batch, applied, applied with its response lost, or refused.  A turn that
\* parks writes its card in the same batch.
Batch(r) ==
    /\ At(r, "batch")
    /\ Runs(r)
    /\ LET t == TurnOf(r)
           o == request[r].ending
       IN \/ /\ Write(t, request[r].buffer, request[r].taken, o)
             /\ pending' = IF o = "awaiting" THEN pending \cup {t} ELSE pending
             /\ \/ Go(r, "pop") /\ UNCHANGED faults
                \/ Go(r, "popFailed") /\ Fault
          \/ Go(r, "popFailed") /\ Fault /\ UNCHANGED store
    /\ UNCHANGED <<openTurns, buffer, checkpoint, signals>>

\* Whatever became of the batch, the buffer registered for the turn is dropped.
\* An error while an error is being recorded ends the request.
Pop(r) ==
    /\ request[r].pc \in {"pop", "popFailed"}
    /\ Runs(r)
    /\ openTurns' = [openTurns EXCEPT ![TurnOf(r)] = NoRequest]
    /\ \/ At(r, "pop") /\ Go(r, "answered")
       \/ At(r, "popFailed") /\ request[r].ending # "error" /\ Go(r, "error")
       \/ At(r, "popFailed") /\ request[r].ending = "error" /\ Leave(r)
    /\ UNCHANGED <<store, buffer, checkpoint, signals, faults>>

Answer(r) ==
    /\ At(r, "answered")
    /\ Leave(r)
    /\ UNCHANGED <<store, openTurns, buffer, checkpoint, signals, faults>>

\* A request fails on its way.
Fail(r) ==
    /\ At(r, "work")
    /\ Runs(r)
    /\ Fault
    /\ Go(r, "error")
    /\ UNCHANGED <<store, openTurns, buffer, checkpoint, signals>>

\* unhandled_error_response(): the buffer registered for the turn takes a last
\* span and is closed; without one there is nothing to record.
Unhandled(r) ==
    /\ At(r, "error")
    /\ Runs(r)
    /\ LET b == openTurns[TurnOf(r)] IN
         IF IsLive(b)
         THEN /\ buffer' = [buffer EXCEPT ![b] = [closed |-> TRUE, held |-> 0,
                                count |-> @.count + 1, next |-> @.next + 1]]
              /\ request' = [request EXCEPT ![r].pc = "batch", ![r].buffer = b,
                    ![r].ending = "error", ![r].taken = buffer[b].held + 1]
         ELSE Leave(r) /\ UNCHANGED buffer
    /\ UNCHANGED <<store, openTurns, checkpoint, signals, faults>>

-----------------------------------------------------------------------------
\* SIGTERM, SIGINT, the lifespan's last step or atexit: flush_open_turns().
Signal ==
    /\ checkpoint = {}
    /\ signals < MaxSignals
    /\ signals' = signals + 1
    /\ checkpoint' = {b \in Requests : IsLive(b) /\ \E t \in Turns : openTurns[t] = b}
    /\ UNCHANGED <<store, openTurns, buffer, request, faults>>

\* Faulty: the buffer stays closed, as it was before checkpoints.
Guillotine(b, t) ==
    /\ Write(t, b, buffer[b].held, "exit")
    /\ buffer' = [buffer EXCEPT ![b].closed = TRUE, ![b].held = 0]
    /\ UNCHANGED faults

\* Faulty: the error kind is written where the outcome belongs.
KindForOutcome(b, t) ==
    /\ Write(t, b, buffer[b].held, "process_exit")
    /\ buffer' = [buffer EXCEPT ![b].held = 0]
    /\ UNCHANGED faults

\* One buffer is written out as an error and re-armed.  When its batch raises it
\* is not re-armed.
Checkpoint(b, t) ==
    \/ /\ Write(t, b, buffer[b].held, "exit")
       /\ buffer' = [buffer EXCEPT ![b].held = 0]
       /\ UNCHANGED faults
    \/ /\ Fault
       /\ buffer' = [buffer EXCEPT ![b].closed = TRUE, ![b].held = 0]
       /\ Write(t, b, buffer[b].held, "exit") \/ UNCHANGED <<turns, spans>>

FlushOne ==
    /\ \E b \in checkpoint, t \in Turns :
          /\ openTurns[t] = b
          /\ Checkpoint(b, t)
          /\ openTurns' = [openTurns EXCEPT ![t] = NoRequest]
          /\ checkpoint' = checkpoint \ {b}
    /\ UNCHANGED <<pending, request, signals>>

\* SWEEP_STALE: a row left open for long, whoever may still be at work on it.
SweepStale(t) ==
    /\ turns[t].outcome = "open"
    /\ turns' = [turns EXCEPT ![t].outcome = "error"]
    /\ UNCHANGED <<spans, pending, openTurns, buffer, request, checkpoint, signals,
                   faults>>

\* The process is killed, and another one starts.
Kill ==
    /\ Fault
    /\ openTurns' = [t \in Turns |-> NoRequest]
    /\ buffer' = [r \in Requests |-> NoBuffer]
    /\ request' = [r \in Requests |-> Off]
    /\ checkpoint' = {}
    /\ UNCHANGED <<store, signals>>

-----------------------------------------------------------------------------
Work(r) ==
    \/ Register(r) \/ Use(r) \/ Adopt(r) \/ AddSpan(r) \/ Resolve(r)
    \/ \E o \in Settled \cup {"awaiting"} : Finish(r, o)
    \/ Batch(r) \/ Pop(r) \/ Answer(r) \/ Fail(r) \/ Unhandled(r)

TraceNext ==
    \/ \E r \in Requests, t \in Turns : StartTurn(r, t) \/ Resume(r, t)
    \/ \E r \in Requests : Work(r)
    \/ Signal \/ FlushOne \/ Kill
    \/ \E t \in Turns : SweepStale(t)

TraceSpec == TraceInit /\ [][TraceNext]_traceVars
-----------------------------------------------------------------------------
BufferType == [closed : BOOLEAN, count : Nat, held : Nat, next : Nat]

Pcs == {"off", "register", "adopt", "use", "work", "batch", "pop", "popFailed",
        "error", "answered"}
Endings == Settled \cup {"none", "awaiting", "error"}
RequestType == [pc : Pcs, turn : Turns \cup {NoTurn},
                buffer : Requests \cup {NoRequest}, ending : Endings, taken : Nat]

\* Types of the rows, the buffers and the requests of core/trace.py.
TraceTypeOK ==
    /\ turns \in [Turns -> [outcome : Outcomes, count : Nat]]
    /\ spans \in [Turns -> Seq(Nat)]
    /\ pending \subseteq Turns
    /\ openTurns \in [Turns -> Requests \cup {NoRequest}]
    /\ buffer \in [Requests -> BufferType]
    /\ request \in [Requests -> RequestType]
    /\ checkpoint \subseteq Requests
    /\ signals \in Nat
    /\ faults \in Nat

\* The spans on record for a turn are numbered 1, 2, 3, ... in the order they
\* happened, with no gap and no number used twice: across the turn's closing
\* batch, its reopening, any checkpoint between two of its spans, and whatever
\* batch was lost (TurnBuffer._take_seq, TraceWriter.reopen_turn).
SeqsRunOn ==
    \A t \in Turns : \A i \in DOMAIN spans[t] : spans[t][i] = i

\* The totals in a turn's row count exactly the spans on record for it, whoever
\* wrote the row last: a request, a checkpoint or the catch-all handler
\* (TurnBuffer._accumulate, TurnBuffer.close).
TotalsMatchSpans ==
    \A t \in Turns : turns[t].count = Len(spans[t])

\* When a request answers, the row of its turn says what the answer said
\* (TraceWriter.flush_open_turns, TurnBuffer.close).
AnswerIsOnRecord ==
    \A r \in Requests :
       At(r, "answered") => turns[TurnOf(r)].outcome = request[r].ending

\* Spans wait only in the buffer of a request that is still at work: none is
\* left behind in memory where no close and no checkpoint will find it
\* (TurnBuffer.close, unhandled_error_response).
NoSpanLeftBehind ==
    \A b \in Requests : buffer[b].held > 0 => request[b].pc # "off"

\* Checkpoints by themselves cost nothing: until something fails, a request that
\* survives any number of them gives the answer that is then on record, and
\* leaves no span unwritten (TraceWriter.flush_open_turns, TurnBuffer.rearm).
CheckpointsAreSafe == faults = 0 => AnswerIsOnRecord /\ NoSpanLeftBehind
=============================================================================
