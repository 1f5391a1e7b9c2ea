------------------------- MODULE ConfirmLifecycle --------------------------
(***************************************************************************)
(* The life of a proposed write: the turn that parks on a confirmation     *)
(* card, the POST /chat/confirm handlers that answer it (web/api.py), the  *)
(* orchestrator's resume and decline, the maintenance pass that expires    *)
(* and closes (web/main.py, core/trace.py), and the gate they all meet.    *)
(*                                                                         *)
(* The handlers run on one event loop: a handler keeps it from one await   *)
(* to the next, so two handlers interleave only where the code awaits.     *)
(* The maintenance pass and the tool calls run in threads and interleave   *)
(* with everything, one statement at a time.                               *)
(***************************************************************************)
EXTENDS ConfirmGate, FiniteSets

CONSTANTS
    Turns,       \* conversation turns that may propose a write
    NoTurn,
    CardTTL,     \* CONFIRMATION_TTL_S
    StaleAfter,  \* STALE_TURN_SECONDS
    MaxFaults    \* bound on failed statements, lost tool servers and restarts

ASSUME LifecycleAssumption ==
    /\ NoTurn \notin Turns
    /\ Turns \cap (Calls \cup {NoCall}) = {}
    /\ CardTTL \in Nat \ {0}
    /\ StaleAfter \in Nat
    /\ MaxFaults \in Nat

VARIABLES
    turn,       \* the turns table: outcome and started_at
    card,       \* the turn's confirmation span
    mintedFor,  \* confirmations.turn_id, by turn
    chatting,   \* turns whose POST /chat is still running
    openTurns,  \* TraceWriter._open: the buffer registered, by who opened it
    live,       \* the buffers that still accept spans: not TurnBuffer.closed
    loop,       \* the handler on the event loop
    handler,    \* the POST /chat/confirm handlers
    sweep,      \* the maintenance pass
    faults      \* failures so far

tables   == <<turn, card, mintedFor>>
buffers  == <<openTurns, live>>
lifeVars == <<tables, buffers, chatting, loop, handler, sweep, faults>>
vars == <<gateVars, lifeVars>>

\* One tool-call thread for each handler: a handler makes one gated call.
Handlers == Calls
NoBuffer == NoCall

\* A TurnBuffer is named for who opened it: a handler, or the maintenance pass
\* for a turn.
Buffers == Handlers \cup Turns

Settled  == {"answered", "partial", "refused", "expired", "error"}
Outcomes == {"absent", "open", "awaiting"} \cup Settled
Answered == {"confirmed", "declined", "expired"}

NoCard   == [response |-> "none", expires |-> 0, write |-> NoWrite]
Off      == [pc |-> "off", turn |-> NoTurn, decision |-> "none",
             token |-> NoToken, pending |-> FALSE, ending |-> "none",
             buffer |-> NoBuffer]
NotSwept == [pc |-> "off", todo |-> {}, turn |-> NoTurn]

HandlerPCs == {"off", "read", "mint", "reopen", "adopt", "rehydrate", "discover",
               "resolve", "call", "called", "answer", "close", "error", "expire",
               "expireReopen", "expireClose"}

-----------------------------------------------------------------------------
LifeInit ==
    /\ GateInit
    /\ turn = [t \in Turns |-> [outcome |-> "absent", started |-> 0]]
    /\ card = [t \in Turns |-> NoCard]
    /\ mintedFor = [t \in Turns |-> {}]
    /\ openTurns = [t \in Turns |-> NoBuffer]
    /\ live = {}
    /\ chatting = {}
    /\ loop = NoCall
    /\ handler = [h \in Handlers |-> Off]
    /\ sweep = NotSwept
    /\ faults = 0

\* Something goes wrong, as long as the bound allows.
Fault == faults < MaxFaults /\ faults' = faults + 1

At(h, pc) == handler[h].pc = pc
TurnOf(h) == handler[h].turn

\* h runs now: it is on the loop, or the loop is free to take it.
Runs(h) == loop \in {h, NoCall}

Go(h, pc) == handler' = [handler EXCEPT ![h].pc = pc]
Leave(h)  == handler' = [handler EXCEPT ![h] = Off] /\ loop' = NoCall

SetOutcome(t, o) == turn' = [turn EXCEPT ![t].outcome = o]

\* Faulty: the UPDATE without its `= 'pending'` predicate.
AnswerAgain(t, r) == card' = [card EXCEPT ![t].response = r]

\* UPDATE spans ... WHERE ... user_response = 'pending'
Answer(t, r) ==
    card' = IF card[t].response = "pending"
            THEN [card EXCEPT ![t].response = r] ELSE card

\* add_span() raises on a closed buffer, so a handler whose buffer was closed
\* under it goes to the catch-all instead of where it was going.
Record(h, pc, o) ==
    handler' = [handler EXCEPT
        ![h].pc = IF handler[h].buffer \in live THEN pc ELSE "error",
        ![h].ending = o]

\* Faulty: the turn reaches its close without a stated outcome.
EndUnstated(h, o) == Record(h, "close", "none")

End(h, o) == Record(h, "close", o)

\* reopen_turn(): the row is open again and b is the buffer registered for it.
ReopenTurn(t, b) ==
    /\ SetOutcome(t, "open")
    /\ openTurns' = [openTurns EXCEPT ![t] = b]
    /\ live' = live \cup {b}

\* TurnBuffer.close(): nothing for a closed buffer; else the closing batch,
\* after which whatever buffer is registered for the turn is dropped.
CloseBuffer(t, b, o) ==
    IF b \in live
    THEN /\ SetOutcome(t, o)
         /\ live' = live \ {b}
         /\ openTurns' = [openTurns EXCEPT ![t] = NoBuffer]
    ELSE UNCHANGED <<turn, buffers>>

\* The same, its batch refused by the store.
CloseLost(t, b) ==
    /\ Fault
    /\ b \in live
    /\ live' = live \ {b}
    /\ openTurns' = [openTurns EXCEPT ![t] = NoBuffer]
    /\ UNCHANGED turn

-----------------------------------------------------------------------------
\* POST /chat, as far as the card is concerned: the turn is inserted open, and
\* its one closing batch writes the card with it, or ends it without one.  Both
\* start early enough (a bound) for the clock to see them go stale or lapse.
\* A turn whose card is pending awaits it, but for the one that reads the
\* profile after proposing and finds the tool server gone: it closes partial,
\* its card on record.
StartTurn(t) ==
    /\ turn[t].outcome = "absent"
    /\ now + StaleAfter < MaxTime
    /\ loop = NoCall
    /\ turn' = [turn EXCEPT ![t] = [outcome |-> "open", started |-> now]]
    /\ chatting' = chatting \cup {t}
    /\ UNCHANGED <<gateVars, card, mintedFor, buffers, loop, handler, sweep, faults>>

Park(t, w) ==
    /\ t \in chatting
    /\ now + CardTTL <= MaxTime
    /\ loop = NoCall
    /\ \/ SetOutcome(t, "awaiting") /\ UNCHANGED faults
       \/ Fault /\ SetOutcome(t, "partial")
    /\ \E proposed \in turn[t].started .. now :
          card' = [card EXCEPT ![t] = [response |-> "pending", write |-> w,
                                       expires |-> proposed + CardTTL]]
    /\ chatting' = chatting \ {t}
    /\ UNCHANGED <<gateVars, mintedFor, buffers, loop, handler, sweep>>

EndChat(t) ==
    /\ t \in chatting
    /\ loop = NoCall
    /\ \E o \in Settled \ {"expired"} : SetOutcome(t, o)
    /\ chatting' = chatting \ {t}
    /\ UNCHANGED <<gateVars, card, mintedFor, buffers, loop, handler, sweep, faults>>

-----------------------------------------------------------------------------
\* POST /chat/confirm.

Unminted == {h \in Handlers : handler[h].pc \in {"read", "mint"}}

\* The request arrives.  The last conjunct only keeps the model's tokens from
\* running out.
Post(h, t, d) ==
    /\ At(h, "off")
    /\ call[h].pc = "idle"
    /\ turn[t].outcome # "absent"
    /\ Cardinality(Tokens \ Minted) > Cardinality(Unminted)
    /\ handler' = [handler EXCEPT ![h] = [Off EXCEPT !.pc = "read", !.turn = t,
                                                     !.decision = d]]
    /\ UNCHANGED <<gateVars, tables, buffers, chatting, loop, sweep, faults>>

\* Faulty: a card is looked for whether or not it was answered.
AnswerableAgain(t) == card[t].response # "none"

\* The card a decision is for: one still pending.
Answerable(t) == card[t].response = "pending"

\* Reads the turn's spans; 404 without a card, 409 for one already answered.
Read(h) ==
    /\ At(h, "read")
    /\ loop = NoCall
    /\ IF Answerable(TurnOf(h))
       THEN /\ Go(h, IF card[TurnOf(h)].expires <= now THEN "expire" ELSE "mint")
            /\ loop' = h
       ELSE Leave(h)
    /\ UNCHANGED <<gateVars, tables, buffers, chatting, sweep, faults>>

\* Faulty: a token that exists is minted over.
MintOver(h, tok) ==
    /\ confirmations' = [u \in Minted \cup {tok} |->
            IF u = tok THEN [write |-> card[TurnOf(h)].write, used |-> Unused,
                             expires |-> now + TokenTTL,
                             response |-> handler[h].decision]
                       ELSE confirmations[u]]
    /\ mintedFor' = [mintedFor EXCEPT ![TurnOf(h)] = @ \cup {tok}]
    /\ UNCHANGED <<now, mockWrites, writeLock, call, deleted>>

\* The token of this decision, minted for the card's own arguments.
MintFor(h, tok) ==
    /\ Mint(tok, card[TurnOf(h)].write, handler[h].decision)
    /\ mintedFor' = [mintedFor EXCEPT ![TurnOf(h)] = @ \cup {tok}]

MintToken(h) ==
    /\ At(h, "mint")
    /\ loop = h
    /\ \E tok \in Tokens :
          /\ MintFor(h, tok)
          /\ \/ /\ handler' = [handler EXCEPT ![h].pc = "reopen",
                                              ![h].token = tok]
                /\ UNCHANGED <<loop, faults>>
             \/ Fault /\ Leave(h)       \* applied, its response lost
    /\ UNCHANGED <<turn, card, buffers, chatting, sweep>>

\* reopen_turn() in web/, which may be applied and its response lost.
Reopen(h) ==
    /\ At(h, "reopen")
    /\ loop = h
    /\ \/ /\ ReopenTurn(TurnOf(h), h)
          /\ Go(h, "adopt")
          /\ UNCHANGED <<loop, faults>>
       \/ /\ Fault
          /\ SetOutcome(TurnOf(h), "open")
          /\ Leave(h)
          /\ UNCHANGED buffers
    /\ UNCHANGED <<gateVars, card, mintedFor, chatting, sweep>>

\* _reopen() in the orchestrator: the buffer registered for the turn, or one
\* more reopen when the maintenance thread has closed it meanwhile.
Adopt(h) ==
    /\ At(h, "adopt")
    /\ loop = h
    /\ LET b == openTurns[TurnOf(h)] IN
         IF b \in live
         THEN /\ handler' = [handler EXCEPT ![h].pc = "rehydrate", ![h].buffer = b]
              /\ UNCHANGED <<turn, buffers>>
         ELSE /\ handler' = [handler EXCEPT ![h].pc = "rehydrate", ![h].buffer = h]
              /\ ReopenTurn(TurnOf(h), h)
    /\ UNCHANGED <<gateVars, card, mintedFor, chatting, loop, sweep, faults>>

\* _rehydrate() reads the spans again, after the scoring it may have awaited.
Rehydrate(h) ==
    /\ At(h, "rehydrate")
    /\ Runs(h)
    /\ loop' = h
    /\ handler' = [handler EXCEPT
            ![h].pc = IF handler[h].decision = "confirmed" THEN "discover"
                                                           ELSE "resolve",
            ![h].pending = card[TurnOf(h)].response = "pending"]
    /\ UNCHANGED <<gateVars, tables, buffers, chatting, sweep, faults>>

\* _discover(), its one re-discovery included; without a server the turn is
\* closed partial before the card is touched.
Discover(h) ==
    /\ At(h, "discover")
    /\ Runs(h)
    /\ loop' = h
    /\ \/ Go(h, "resolve") /\ UNCHANGED faults
       \/ Fault /\ End(h, "partial")
    /\ UNCHANGED <<gateVars, tables, buffers, chatting, sweep>>

AfterResolve(h) ==
    IF handler[h].decision = "confirmed" THEN "call" ELSE "answer"

\* Faulty: the proposal is left as it was.
ResolveNothing(h) ==
    /\ At(h, "resolve")
    /\ loop = h
    /\ Go(h, AfterResolve(h))
    /\ UNCHANGED <<gateVars, tables, buffers, chatting, loop, sweep, faults>>

\* _resolve_proposal(): whether it resolved anything is not looked at.
Resolve(h) ==
    /\ At(h, "resolve")
    /\ loop = h
    /\ IF handler[h].pending THEN Answer(TurnOf(h), handler[h].decision)
                             ELSE UNCHANGED card
    /\ \/ Go(h, AfterResolve(h)) /\ UNCHANGED faults
       \/ Fault /\ Go(h, "error")       \* applied, its response lost
    /\ UNCHANGED <<gateVars, turn, mintedFor, buffers, chatting, loop, sweep>>

\* The gated call, re-issued with the token; the handler awaits its result.
IssueCall(h) ==
    /\ At(h, "call")
    /\ loop = h
    /\ Receive(h, handler[h].token, card[TurnOf(h)].write)
    /\ Go(h, "called")
    /\ loop' = NoCall
    /\ UNCHANGED <<tables, buffers, chatting, sweep, faults>>

\* The tool answered: created or failed, and the turn goes on to its answer; or
\* refused for its token, and the turn ends there.
CallReturns(h) ==
    /\ At(h, "called")
    /\ loop = NoCall
    /\ \/ call[h].pc \in {"created", "failed"} /\ Record(h, "answer", "none")
       \/ call[h].pc = "rejected" /\ End(h, "refused")
    /\ Reply(h)
    /\ loop' = h
    /\ UNCHANGED <<tables, buffers, chatting, sweep, faults>>

\* McpUnavailable, before or while the tool runs: the handler gives up, the
\* thread that is running does not.
CallLost(h) ==
    /\ \/ At(h, "call") /\ loop = h
       \/ At(h, "called") /\ loop = NoCall
    /\ Fault
    /\ End(h, "partial")
    /\ loop' = h
    /\ UNCHANGED <<gateVars, tables, buffers, chatting, sweep>>

\* The answer of a thread nobody waits for.
OrphanReply(h) ==
    /\ ~ At(h, "called")
    /\ Reply(h)
    /\ UNCHANGED lifeVars

\* _answer(): the debts, the evidence gate and the synthesis, which ends a resumed
\* turn in any way but on a second card.  (One resumed turn may park again: a
\* policy question whose confirmed write failed.  That is outside this module.)
Synthesize(h) ==
    /\ At(h, "answer")
    /\ Runs(h)
    /\ \E o \in {"answered", "partial", "refused"} : End(h, o)
    /\ loop' = h
    /\ UNCHANGED <<gateVars, tables, buffers, chatting, sweep, faults>>

\* Faulty: a declined request answers and leaves its buffer open.
CloseUnlessDeclined(h) ==
    /\ At(h, "close")
    /\ loop = h
    /\ \/ handler[h].decision = "declined" /\ UNCHANGED <<turn, buffers, faults>>
       \/ /\ handler[h].decision = "confirmed"
          /\ CloseBuffer(TurnOf(h), handler[h].buffer, handler[h].ending)
          /\ UNCHANGED faults
    /\ Leave(h)
    /\ UNCHANGED <<gateVars, card, mintedFor, chatting, sweep>>

\* The last statement of the request: its buffer is closed and it answers.
Close(h) ==
    /\ At(h, "close")
    /\ loop = h
    /\ \/ /\ CloseBuffer(TurnOf(h), handler[h].buffer, handler[h].ending)
          /\ UNCHANGED faults
       \/ CloseLost(TurnOf(h), handler[h].buffer)
    /\ Leave(h)
    /\ UNCHANGED <<gateVars, card, mintedFor, chatting, sweep>>

\* unhandled_error_response(): the buffer registered for the turn, whosever it
\* is, is closed as an error.
Unhandled(h) ==
    /\ At(h, "error")
    /\ LET t == TurnOf(h) IN
         \/ CloseBuffer(t, openTurns[t], "error") /\ UNCHANGED faults
         \/ CloseLost(t, openTurns[t])
    /\ Leave(h)
    /\ UNCHANGED <<gateVars, card, mintedFor, chatting, sweep>>

\* A statement of the handler raises and was not applied.  Only from Adopt on
\* does the catch-all know which turn to close.
HandlerFails(h) ==
    /\ loop = h
    /\ Fault
    /\ \/ /\ handler[h].pc \in {"mint", "reopen", "expire", "expireReopen",
                                 "expireClose"}
          /\ Leave(h)
       \/ /\ handler[h].pc \in {"adopt", "rehydrate", "resolve", "answer"}
          /\ Go(h, "error")
          /\ UNCHANGED loop
    /\ UNCHANGED <<gateVars, tables, buffers, chatting, sweep>>

\* The awaits that may suspend the handler: the scoring thread, the handshake,
\* the model.
Await(h) ==
    /\ handler[h].pc \in {"rehydrate", "discover", "answer"}
    /\ loop = h
    /\ loop' = NoCall
    /\ UNCHANGED <<gateVars, tables, buffers, chatting, handler, sweep, faults>>

-----------------------------------------------------------------------------
\* _record_expiry(): a lapsed card met by a request.  Whether this request or
\* somebody else resolved the card, the turn is reopened only to be closed.

ExpireCard(h) ==
    /\ At(h, "expire")
    /\ loop = h
    /\ Answer(TurnOf(h), "expired")
    /\ \/ Go(h, "expireReopen") /\ UNCHANGED <<loop, faults>>
       \/ Fault /\ Leave(h)             \* applied, its response lost
    /\ UNCHANGED <<gateVars, turn, mintedFor, buffers, chatting, sweep>>

ExpireReopen(h) ==
    /\ At(h, "expireReopen")
    /\ loop = h
    /\ ReopenTurn(TurnOf(h), h)
    /\ Go(h, "expireClose")
    /\ UNCHANGED <<gateVars, card, mintedFor, chatting, loop, sweep, faults>>

ExpireClose(h) ==
    /\ At(h, "expireClose")
    /\ loop = h
    /\ \/ CloseBuffer(TurnOf(h), h, "expired") /\ UNCHANGED faults
       \/ CloseLost(TurnOf(h), h)
    /\ Leave(h)
    /\ UNCHANGED <<gateVars, card, mintedFor, chatting, sweep>>

-----------------------------------------------------------------------------
\* The maintenance pass, in its own thread.

\* Faulty: the cutoff compared the wrong way round.
StaleIfRecent(t) == /\ turn[t].outcome = "open"
                    /\ turn[t].started + StaleAfter > now

Stale(t) == /\ turn[t].outcome = "open"
            /\ turn[t].started + StaleAfter < now

SweepStale ==
    /\ sweep.pc = "off"
    /\ turn' = [t \in Turns |-> IF Stale(t) THEN [turn[t] EXCEPT !.outcome = "error"]
                                            ELSE turn[t]]
    /\ sweep' = [sweep EXCEPT !.pc = "list"]
    /\ UNCHANGED <<gateVars, card, mintedFor, buffers, chatting, loop, handler, faults>>

\* Faulty: looks among the turns that are open.
LapsedWhileOpen(t) == /\ card[t].response = "pending"
                      /\ card[t].expires <= now
                      /\ turn[t].outcome = "open"

Lapsed(t) == /\ card[t].response = "pending"
             /\ card[t].expires <= now
             /\ turn[t].outcome = "awaiting"

SweepList ==
    /\ sweep.pc = "list"
    /\ sweep' = [sweep EXCEPT !.pc = "next", !.todo = {t \in Turns : Lapsed(t)}]
    /\ UNCHANGED <<gateVars, tables, buffers, chatting, loop, handler, faults>>

\* Faulty: the card is expired and its turn is left parked.
SweepExpireCardOnly(t) ==
    /\ sweep.pc = "next"
    /\ t \in sweep.todo
    /\ Answer(t, "expired")
    /\ sweep' = [sweep EXCEPT !.todo = @ \ {t}]
    /\ UNCHANGED <<gateVars, turn, mintedFor, buffers, chatting, loop, handler, faults>>

\* expire_proposal(): only the pass that resolved the card closes its turn.
SweepExpire(t) ==
    /\ sweep.pc = "next"
    /\ t \in sweep.todo
    /\ Answer(t, "expired")
    /\ \/ /\ sweep' = [sweep EXCEPT !.todo = @ \ {t}, !.turn = t,
                !.pc = IF card[t].response = "pending" THEN "reopen" ELSE "next"]
          /\ UNCHANGED faults
       \/ /\ Fault                      \* applied, its response lost
          /\ sweep' = [sweep EXCEPT !.todo = @ \ {t}]
    /\ UNCHANGED <<gateVars, turn, mintedFor, buffers, chatting, loop, handler>>

SweepReopen ==
    /\ sweep.pc = "reopen"
    /\ ReopenTurn(sweep.turn, sweep.turn)
    /\ sweep' = [sweep EXCEPT !.pc = "close"]
    /\ UNCHANGED <<gateVars, card, mintedFor, chatting, loop, handler, faults>>

SweepClose ==
    /\ sweep.pc = "close"
    /\ \/ CloseBuffer(sweep.turn, sweep.turn, "expired") /\ UNCHANGED faults
       \/ CloseLost(sweep.turn, sweep.turn)
    /\ sweep' = [sweep EXCEPT !.pc = "next"]
    /\ UNCHANGED <<gateVars, card, mintedFor, chatting, loop, handler>>

SweepDone ==
    /\ sweep.pc = "next"
    /\ sweep.todo = {}
    /\ sweep' = NotSwept
    /\ UNCHANGED <<gateVars, tables, buffers, chatting, loop, handler, faults>>

\* A statement of the pass raises, not applied: the SELECT ends the pass until
\* the next one, a bad row is skipped.
SweepFails ==
    /\ Fault
    /\ \/ sweep.pc = "list" /\ sweep' = NotSwept
       \/ sweep.pc = "reopen" /\ sweep' = [sweep EXCEPT !.pc = "next"]
    /\ UNCHANGED <<gateVars, tables, buffers, chatting, loop, handler>>

-----------------------------------------------------------------------------
\* The gate's threads, its clock and the end of the process, seen from here.

GateStep(h) ==
    /\ \/ /\ Load(h) \/ Check(h) \/ Lock(h) \/ Spend(h) \/ AppendWrite(h)
             \/ ReadBack(h)
          /\ UNCHANGED faults
       \/ StoreFails(h) /\ Fault
    /\ UNCHANGED <<tables, buffers, chatting, loop, handler, sweep>>

ClockTick == Tick /\ UNCHANGED lifeVars

\* Everything held in memory goes; the tables stay as they are.
Restart ==
    /\ Fault
    /\ Crash
    /\ openTurns' = [t \in Turns |-> NoBuffer]
    /\ live' = {}
    /\ chatting' = {}
    /\ loop' = NoCall
    /\ handler' = [h \in Handlers |-> Off]
    /\ sweep' = NotSwept
    /\ UNCHANGED tables

-----------------------------------------------------------------------------
HandlerStep(h) ==
    \/ Read(h) \/ MintToken(h) \/ Reopen(h) \/ Adopt(h) \/ Rehydrate(h)
    \/ Discover(h) \/ Resolve(h) \/ IssueCall(h) \/ CallReturns(h) \/ CallLost(h)
    \/ Synthesize(h) \/ Close(h) \/ Unhandled(h) \/ HandlerFails(h)
    \/ ExpireCard(h) \/ ExpireReopen(h) \/ ExpireClose(h)

SweepStep ==
    \/ SweepStale \/ SweepList \/ SweepReopen \/ SweepClose \/ SweepDone
    \/ SweepFails \/ \E t \in Turns : SweepExpire(t)

ChatStep(t) == EndChat(t) \/ \E w \in Writes : Park(t, w)

LifeNext ==
    \/ ClockTick
    \/ Restart
    \/ SweepStep
    \/ \E t \in Turns : StartTurn(t) \/ ChatStep(t)
    \/ \E h \in Handlers :
          \/ \E t \in Turns, d \in Responses : Post(h, t, d)
          \/ HandlerStep(h) \/ Await(h) \/ GateStep(h) \/ OrphanReply(h)

LifeSpec == LifeInit /\ [][LifeNext]_vars

\* The event loop runs its ready callbacks in turn, the threads run, the clock
\* advances and the maintenance pass comes round again for ever.
LifeFairness ==
    /\ WF_vars(ClockTick)
    /\ WF_vars(SweepStep)
    /\ \A t \in Turns : SF_vars(ChatStep(t))
    /\ \A h \in Handlers : /\ SF_vars(HandlerStep(h))
                           /\ SF_vars(GateStep(h))
                           /\ WF_vars(OrphanReply(h))

FairLifeSpec == LifeSpec /\ LifeFairness

-----------------------------------------------------------------------------
\* Properties

\* Every row, buffer and program counter holds what the code can put there.
LifeTypeOK ==
    /\ GateTypeOK
    /\ turn \in [Turns -> [outcome : Outcomes, started : Times]]
    /\ card \in [Turns -> [response : Answered \cup {"none", "pending"},
                           expires : Nat, write : Writes \cup {NoWrite}]]
    /\ mintedFor \in [Turns -> SUBSET Tokens]
    /\ openTurns \in [Turns -> Buffers \cup {NoBuffer}]
    /\ live \subseteq Buffers
    /\ chatting \subseteq Turns
    /\ loop \in Handlers \cup {NoCall}
    /\ handler \in [Handlers -> [pc : HandlerPCs, turn : Turns \cup {NoTurn},
                                 decision : Responses \cup {"none"},
                                 token : Tokens \cup {NoToken}, pending : BOOLEAN,
                                 ending : Settled \cup {"none"},
                                 buffer : Buffers \cup {NoBuffer}]]
    /\ sweep \in [pc : {"off", "list", "next", "reopen", "close"},
                  todo : SUBSET Turns, turn : Turns \cup {NoTurn}]
    /\ faults \in 0 .. MaxFaults

\* The rows filed with a token of the turn's card.
FiledFor(t) == {i \in DOMAIN mockWrites : mockWrites[i].token \in mintedFor[t]}

\* One card files at most one ticket, however often it is answered (the replay
\* that trace.py's resolve_confirmation was written against).
OneWritePerCard ==
    \A t \in Turns : \A i, j \in FiledFor(t) : i = j

\* A card the reader cancelled files nothing, then or later.
CancelledMeansNothingFiled ==
    \A t \in Turns : card[t].response = "declined" => FiledFor(t) = {}

\* The record of the decision comes before the write it authorises: no ticket
\* exists while its card still reads pending.
WriteMeansAnswered ==
    \A t \in Turns : FiledFor(t) # {} => card[t].response \in Answered

\* A card is answered once: a resolved span is never rewritten.
AnsweredForGood ==
    [][\A t \in Turns : card[t].response \in Answered => card'[t] = card[t]]_vars

\* Nobody is left working on an open turn that everybody has left: with no
\* failure, a row that reads open has a request or the pass about to close it.
Working(t) ==
    \/ t \in chatting
    \/ \E h \in Handlers : TurnOf(h) = t /\ handler[h].pc \notin {"read", "mint"}
    \/ sweep.pc = "close" /\ sweep.turn = t

OpenIsBeingWorkedOn ==
    \A t \in Turns : turn[t].outcome = "open" => Working(t)

\* A turn that a request has resumed and not yet closed reads open: the stale
\* sweep takes only turns left behind by a hard kill (STALE_TURN_SECONDS).
ResumedIsOpen ==
    \A h \in Handlers :
        handler[h].pc \in {"rehydrate", "discover", "resolve", "call", "called",
                           "answer", "close"}
            => turn[TurnOf(h)].outcome = "open"

\* Every open turn is closed in the end, whatever fails on the way.
EveryTurnEnds ==
    \A t \in Turns : turn[t].outcome = "open" ~> turn[t].outcome # "open"

\* Every proposal is answered or expires.
EveryCardIsSettled ==
    \A t \in Turns : card[t].response = "pending" ~> card[t].response # "pending"

\* No turn stays parked on its card for ever.
NoTurnStaysParked ==
    \A t \in Turns : turn[t].outcome = "awaiting" ~> turn[t].outcome # "awaiting"

\* The whole system is a behaviour of the gate: what is proved of the gate for
\* any caller holds for the callers it has.
ImplementsGate == GateSpec
=============================================================================
