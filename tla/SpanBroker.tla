----------------------------- MODULE SpanBroker -----------------------------
(***************************************************************************)
(* The activity rail: SpanBroker and the SSE streams that read from it.    *)
(* A turn publishes its frames in order; publish() hands each to the event *)
(* loop, where _deliver offers it to the bounded queue of every subscriber *)
(* of that turn.  close() is the server's shutdown.  A frame is the number *)
(* of its place in the turn's program: 0 is turn_started, LastFrame is     *)
(* turn_completed, the ones between are spans and answer deltas.           *)
(***************************************************************************)
EXTENDS Integers, Sequences, FiniteSets

CONSTANTS
    RailTurns,       \* turn ids
    Streams,         \* GET /chat/stream requests
    QueueMax,        \* QUEUE_MAX
    MaxBeats,        \* STREAM_MAX_S, in heartbeats
    LastFrame        \* bound: the frames one turn publishes after the first

ASSUME RailConstants ==
    QueueMax \in Nat \ {0} /\ MaxBeats \in Nat \ {0} /\ LastFrame \in Nat \ {0}

VARIABLES
    rail,         \* each stream: where it is, its turn, queue, deadline and output
    subscribers,  \* the streams whose queue is in SpanBroker._subscribers
    railClosed,   \* SpanBroker._closed
    loopCalls,    \* what call_soon_threadsafe has queued on the loop
    nextFrame,    \* how far each turn's own program has come
    stalled,      \* the streams suspended at a yield: their browser has stopped reading
    delivered     \* history: the frames of each turn that reached _deliver

railVars == <<rail, subscribers, railClosed, loopCalls, nextFrame, stalled, delivered>>

Sentinel == -1

RailInit ==
    /\ \E turnOf \in [Streams -> RailTurns] :
          rail = [s \in Streams |-> [at |-> "new", turn |-> turnOf[s], queue |-> <<>>, beats |-> 0,
                                     out |-> <<>>, joined |-> 0, short |-> FALSE]]
    /\ subscribers = {}
    /\ railClosed = FALSE
    /\ loopCalls = <<>>
    /\ stalled = {}
    /\ nextFrame = [t \in RailTurns |-> 0]
    /\ delivered = [t \in RailTurns |-> <<>>]

HasSubscriber(t) == ~railClosed /\ \E s \in subscribers : rail[s].turn = t

\* Faulty: a full queue gives up its oldest item for the new one, and says nothing.
OfferedInPlace(r, item) ==
    [r EXCEPT !.queue = IF Len(@) < QueueMax THEN Append(@, item) ELSE Append(Tail(@), item)]

\* _offer to one queue: put_nowait, or the item is dropped.
Offered(r, item) ==
    IF Len(r.queue) < QueueMax THEN [r EXCEPT !.queue = Append(@, item)]
                               ELSE [r EXCEPT !.short = TRUE]

\* publish_span and publish_answer_delta return at once when nobody listens;
\* publish() itself drops the frame once the broker is closed.
publish(t) ==
    LET n == nextFrame[t] IN
    /\ n <= LastFrame
    /\ nextFrame' = [nextFrame EXCEPT ![t] = @ + 1]
    /\ loopCalls' = IF railClosed \/ (n \in 1..(LastFrame - 1) /\ ~HasSubscriber(t))
                    THEN loopCalls ELSE Append(loopCalls, [turn |-> t, frame |-> n])
    /\ UNCHANGED <<rail, subscribers, railClosed, stalled, delivered>>

_deliver ==
    /\ loopCalls # <<>>
    /\ LET c == Head(loopCalls)
           listening == {s \in subscribers : rail[s].turn = c.turn}
       IN /\ rail' = [s \in Streams |-> IF s \in listening THEN Offered(rail[s], c.frame) ELSE rail[s]]
          /\ delivered' = [delivered EXCEPT ![c.turn] = Append(@, c.frame)]
    /\ loopCalls' = Tail(loopCalls)
    /\ UNCHANGED <<subscribers, railClosed, nextFrame, stalled>>

\* close(): the list of queues is taken and cleared, then each is offered the
\* sentinel.  A stream that subscribes later is registered all the same.
close ==
    /\ ~railClosed
    /\ railClosed' = TRUE
    /\ subscribers' = {}
    /\ rail' = [s \in Streams |-> IF s \in subscribers THEN Offered(rail[s], Sentinel) ELSE rail[s]]
    /\ UNCHANGED <<loopCalls, nextFrame, stalled, delivered>>

-----------------------------------------------------------------------------
(* stream(): subscribe, then an item or a heartbeat per round, until the   *)
(* sentinel, turn_completed or the deadline; finally unsubscribe.  At every *)
(* yield the generator may be suspended: the response is not written while *)
(* a connected browser does not read.                                      *)
Yields(s) == stalled' \in {stalled, stalled \cup {s}}

subscribe(s) ==
    /\ rail[s].at = "new"
    /\ rail' = [rail EXCEPT ![s].at = "open", ![s].joined = Len(delivered[rail[s].turn])]
    /\ subscribers' = subscribers \cup {s}
    /\ Yields(s)
    /\ UNCHANGED <<railClosed, loopCalls, nextFrame, delivered>>

EndStream(s, r) ==
    /\ rail' = [rail EXCEPT ![s] = [r EXCEPT !.at = "ended"]]
    /\ subscribers' = subscribers \ {s}
    /\ stalled' = stalled \ {s}

Resumed(s) == rail[s].at = "open" /\ s \notin stalled
InTime(s) == Resumed(s) /\ rail[s].beats < MaxBeats

\* turn_completed is yielded, then the stream returns: at once, or when it is resumed.
TakeItem(s) ==
    /\ InTime(s) /\ rail[s].queue # <<>>
    /\ LET item == Head(rail[s].queue)
           taken == [rail[s] EXCEPT !.queue = Tail(@)]
           sent == [taken EXCEPT !.out = Append(@, item)]
       IN IF item = Sentinel THEN EndStream(s, taken)
          ELSE \/ item = LastFrame /\ EndStream(s, sent)
               \/ /\ rail' = [rail EXCEPT ![s] = sent]
                  /\ Yields(s)
                  /\ item = LastFrame => s \in stalled'
                  /\ UNCHANGED subscribers
    /\ UNCHANGED <<railClosed, loopCalls, nextFrame, delivered>>

\* Faulty: the deadline is taken anew with every heartbeat.
KeepAliveForEver(s) ==
    /\ InTime(s) /\ rail[s].queue = <<>>
    /\ UNCHANGED railVars

KeepAlive(s) ==
    /\ InTime(s) /\ rail[s].queue = <<>>
    /\ rail' = [rail EXCEPT ![s].beats = @ + 1]
    /\ Yields(s)
    /\ UNCHANGED <<subscribers, railClosed, loopCalls, nextFrame, delivered>>

Expire(s) ==
    /\ Resumed(s) /\ rail[s].beats >= MaxBeats
    /\ EndStream(s, rail[s])
    /\ UNCHANGED <<railClosed, loopCalls, nextFrame, delivered>>

ShownToTheEnd(r) == r.out # <<>> /\ r.out[Len(r.out)] = LastFrame

\* The browser reads again, in time or when the deadline is long past, which nobody
\* looked at meanwhile.
ReadAgain(s, late) ==
    /\ rail[s].at = "open" /\ s \in stalled
    /\ IF ShownToTheEnd(rail[s]) THEN EndStream(s, rail[s])
       ELSE /\ stalled' = stalled \ {s}
            /\ rail' = IF late THEN [rail EXCEPT ![s].beats = MaxBeats] ELSE rail
            /\ UNCHANGED subscribers
    /\ UNCHANGED <<railClosed, loopCalls, nextFrame, delivered>>

\* The browser goes away: the generator is closed and its finally runs.
Disconnect(s) ==
    /\ rail[s].at = "open"
    /\ EndStream(s, [rail[s] EXCEPT !.short = TRUE])
    /\ UNCHANGED <<railClosed, loopCalls, nextFrame, delivered>>

ReadRail(s) == TakeItem(s) \/ KeepAlive(s) \/ Expire(s)

RailNext ==
    \/ \E t \in RailTurns : publish(t)
    \/ _deliver
    \/ close
    \/ \E s \in Streams : subscribe(s) \/ ReadRail(s) \/ Disconnect(s)
    \/ \E s \in Streams, late \in BOOLEAN : ReadAgain(s, late)

-----------------------------------------------------------------------------
\* The frames of its turn a stream was there for.
Heard(r) == SubSeq(delivered[r.turn], r.joined + 1, Len(delivered[r.turn]))

\* The frames in a queue: nothing is offered after the sentinel.
Frames(q) == IF q # <<>> /\ q[Len(q)] = Sentinel THEN SubSeq(q, 1, Len(q) - 1) ELSE q

IsAscending(q) == \A i, j \in DOMAIN q : i < j => q[i] < q[j]

(***************************************************************************)
(* The rail never shows a turn's frames out of order, twice, or from       *)
(* another turn, whatever joins, leaves or overflows; and a stream that    *)
(* lost no frame to a full queue, and that no shutdown cut off, has shown  *)
(* or still holds exactly the frames delivered since it joined.            *)
(***************************************************************************)
RailShowsTheTurn ==
    \A s \in Streams :
        LET r == rail[s]
            frames == r.out \o Frames(r.queue)
        IN  /\ Sentinel \notin {frames[i] : i \in DOMAIN frames}
            /\ IsAscending(frames)
            /\ \A i \in DOMAIN frames : \E j \in DOMAIN delivered[r.turn] : delivered[r.turn][j] = frames[i]
            /\ (r.at = "open" /\ ~r.short /\ s \in subscribers) => frames = Heard(r)
            /\ (r.at = "ended" /\ ShownToTheEnd(r) /\ ~r.short) => r.out = Heard(r)

(***************************************************************************)
(* Every stream ends, unless its browser stops reading for good without    *)
(* going away: also the one whose turn_completed or whose shutdown         *)
(* sentinel found a full queue, the one whose turn never completes, the    *)
(* one that subscribed after close(), and the one that is suspended time   *)
(* and again and past its deadline (stream()).                             *)
(***************************************************************************)
EveryStreamEnds ==
    \A s \in Streams : (rail[s].at = "open") ~> (rail[s].at = "ended" \/ [](s \in stalled))
=============================================================================
