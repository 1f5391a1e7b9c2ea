--------------------------------- MODULE Boot ---------------------------------
(***************************************************************************)
(* web/main.py: the lifespan of the process.  It starts the maintenance    *)
(* loop, the warm-up and the keep-alive as tasks, serves, and takes them   *)
(* down in order; between, requests open turns, fail in ways nobody        *)
(* modelled, or are cut off by the shutdown.  A maintenance pass runs in a *)
(* thread that no cancellation reaches.                                    *)
(***************************************************************************)
EXTENDS Integers, FiniteSets

CONSTANTS
    Requests,      \* POST /chat requests
    MaxTries       \* bound: the warm-up calls that fail before the deadline does

WarmTurn == "warm-up"

ASSUME BootConstants == MaxTries \in Nat /\ WarmTurn \notin Requests

VARIABLES
    bootSetup,     \* settings: embed_warmup, and whether keep_alive_url is set
    life,          \* where lifespan is
    warm,          \* _warm_up: where it is, its failures, whether the deadline has passed
    app,           \* app.state.ready and ready_reason; what the warm-up has proved
    maint,         \* _maintenance and _maintenance_pass
    pinging,       \* whether the keep-alive task runs
    request,       \* each request: "none", "running", "raised", "answered", "apologised" or "cut"
    buffer,        \* the buffer of each turn: "none", "held", "rearmed" or "closed"
    openRows,      \* the turns whose row has no ended_at
    lost,          \* history: the turns one of whose closes met a store that did not answer
    storeUp        \* whether the store answers

bootVars == <<bootSetup, life, warm, app, maint, pinging, request, buffer, openRows, lost, storeUp>>

AllTurns == Requests \cup {WarmTurn}
Steps == <<"handlers", "migrate", "writer", "maintain", "bind", "orchestrator", "tasks", "serving">>
At(step) == CHOOSE i \in DOMAIN Steps : Steps[i] = step
Serving == life.phase = "up" /\ Steps[life.step] = "serving"

BootInit ==
    /\ bootSetup \in [embed_warmup : BOOLEAN, keep_alive : BOOLEAN]
    /\ life = [phase |-> "up", step |-> 1, signalled |-> FALSE]
    /\ warm = [at |-> "none", tries |-> 0, late |-> FALSE]
    /\ app = [ready |-> FALSE, reason |-> "warming", proved |-> FALSE]
    /\ maint = [task |-> "none", thread |-> FALSE]
    /\ pinging = FALSE
    /\ request = [r \in Requests |-> "none"]
    /\ buffer = [t \in AllTurns |-> "none"]
    /\ openRows = {} /\ lost = {}
    /\ storeUp \in BOOLEAN

KeepTurns == UNCHANGED <<buffer, openRows, lost>>

\* TraceWriter.start_turn, TurnBuffer.close and flush_open_turns.  A close gives the
\* buffer up before its batch; a flush that works rearms the buffer it has closed.
Open(t) ==
    /\ storeUp
    /\ buffer' = [buffer EXCEPT ![t] = "held"]
    /\ openRows' = openRows \cup {t}
    /\ UNCHANGED lost

Close(turns) ==
    LET closing == {t \in turns : buffer[t] \in {"held", "rearmed"}} IN
    /\ buffer' = [t \in AllTurns |-> IF t \in closing THEN "closed" ELSE buffer[t]]
    /\ IF storeUp THEN openRows' = openRows \ closing /\ UNCHANGED lost
                  ELSE lost' = lost \cup closing /\ UNCHANGED openRows

\* Faulty: a turn that was flushed is off the books.
FlushAndForget ==
    LET held == {t \in AllTurns : buffer[t] = "held"} IN
    /\ buffer' = [t \in AllTurns |-> IF t \in held THEN "closed" ELSE buffer[t]]
    /\ UNCHANGED <<openRows, lost>>

flush_open_turns ==
    LET held == {t \in AllTurns : buffer[t] = "held"} IN
    /\ buffer' = [t \in AllTurns |-> IF t \notin held THEN buffer[t]
                                     ELSE IF storeUp THEN "rearmed" ELSE "closed"]
    /\ IF storeUp THEN openRows' = openRows \ held /\ UNCHANGED lost
                  ELSE lost' = lost \cup held /\ UNCHANGED openRows

-----------------------------------------------------------------------------
(* lifespan up to its yield.  A store that does not answer ends the boot.  *)
BootStep ==
    /\ life.phase = "up" /\ ~Serving
    /\ Steps[life.step] = "migrate" => storeUp
    /\ life' = [life EXCEPT !.step = @ + 1]
    /\ maint' = IF Steps[life.step] = "maintain" THEN [maint EXCEPT !.task = "asleep"] ELSE maint
    /\ IF Steps[life.step] = "tasks"
       THEN /\ warm' = [warm EXCEPT !.at = "start"]
            /\ pinging' = bootSetup.keep_alive
       ELSE UNCHANGED <<warm, pinging>>
    /\ UNCHANGED <<bootSetup, app, request, storeUp>> /\ KeepTurns

BootFails ==
    /\ life.phase = "up" /\ life.step = At("migrate") /\ ~storeUp
    /\ life' = [life EXCEPT !.phase = "failed"]
    /\ UNCHANGED <<bootSetup, warm, app, maint, pinging, request, storeUp>> /\ KeepTurns

StoreFlips ==
    /\ storeUp' = ~storeUp
    /\ UNCHANGED <<bootSetup, life, warm, app, maint, pinging, request>> /\ KeepTurns

-----------------------------------------------------------------------------
(* _warm_up.                                                               *)
WarmStart ==
    /\ warm.at = "start"
    /\ IF bootSetup.embed_warmup
       THEN /\ warm' = [warm EXCEPT !.at = "discovering"] /\ UNCHANGED app
       ELSE /\ warm' = [warm EXCEPT !.at = "ended"]
            /\ app' = [app EXCEPT !.ready = TRUE, !.reason = "none"]
    /\ UNCHANGED <<bootSetup, life, maint, pinging, request, storeUp>> /\ KeepTurns

\* A discover() that fails is tried again until the deadline, after which the
\* process is not ready for as long as it lives.
WarmDiscover(found) ==
    /\ warm.at = "discovering"
    /\ IF found
       THEN warm' = [warm EXCEPT !.at = "opening", !.tries = 0] /\ UNCHANGED app
       ELSE /\ app' = [app EXCEPT !.reason = "handshake"]
            /\ IF warm.late THEN warm' = [warm EXCEPT !.at = "ended"]
               ELSE warm.tries < MaxTries /\ warm' = [warm EXCEPT !.tries = @ + 1]
    /\ UNCHANGED <<bootSetup, life, maint, pinging, request, storeUp>> /\ KeepTurns

\* start_turn writes the row; a store that fails here ends the task.
WarmOpens ==
    /\ warm.at = "opening"
    /\ \/ Open(WarmTurn) /\ warm' = [warm EXCEPT !.at = "calling"]
       \/ ~storeUp /\ warm' = [warm EXCEPT !.at = "ended"] /\ KeepTurns
    /\ UNCHANGED <<bootSetup, life, app, maint, pinging, request, storeUp>>

\* The first call that is no error makes the process ready, however late.
WarmCall(ok) ==
    /\ warm.at = "calling"
    /\ IF ok
       THEN /\ app' = [ready |-> TRUE, reason |-> "none", proved |-> TRUE]
            /\ warm' = [warm EXCEPT !.at = "closing"]
       ELSE /\ app' = [app EXCEPT !.reason = "call"]
            /\ IF warm.late THEN warm' = [warm EXCEPT !.at = "closing"]
               ELSE warm.tries < MaxTries /\ warm' = [warm EXCEPT !.tries = @ + 1]
    /\ UNCHANGED <<bootSetup, life, maint, pinging, request, storeUp>> /\ KeepTurns

\* Its finally, on a return and on a cancellation alike.
WarmCloses ==
    /\ warm.at = "closing"
    /\ warm' = [warm EXCEPT !.at = "ended"]
    /\ Close({WarmTurn})
    /\ UNCHANGED <<bootSetup, life, app, maint, pinging, request, storeUp>>

DeadlinePasses ==
    /\ warm.at \in {"discovering", "calling"} /\ ~warm.late
    /\ warm' = [warm EXCEPT !.late = TRUE]
    /\ UNCHANGED <<bootSetup, life, app, maint, pinging, request, storeUp>> /\ KeepTurns

-----------------------------------------------------------------------------
(* _maintenance: a pass in a thread, whatever becomes of it, then a sleep. *)
_maintenance_pass ==
    /\ maint.task = "asleep" /\ life.phase = "up"
    /\ maint' = [task |-> "passing", thread |-> TRUE]
    /\ UNCHANGED <<bootSetup, life, warm, app, pinging, request, storeUp>> /\ KeepTurns

\* The thread is done; sweep_stale_turns may have closed turns that nobody holds.
PassReturns(ok) ==
    /\ maint.thread
    /\ ok => storeUp
    /\ maint' = [task |-> IF maint.task = "passing" THEN "asleep" ELSE maint.task, thread |-> FALSE]
    /\ UNCHANGED <<bootSetup, life, warm, app, pinging, request, storeUp>> /\ KeepTurns

-----------------------------------------------------------------------------
(* POST /chat, and UnhandledErrorMiddleware around it.                     *)
ChatOpens(r) ==
    /\ Serving /\ request[r] = "none"
    /\ request' = [request EXCEPT ![r] = "running"]
    /\ Open(r)
    /\ UNCHANGED <<bootSetup, life, warm, app, maint, pinging, storeUp>>

\* The turn closes and is answered, also when a flush has closed it before; a batch
\* that fails raises out of run_turn.
ChatCloses(r) ==
    /\ request[r] = "running"
    /\ request' = [request EXCEPT ![r] =
           IF storeUp \/ buffer[r] = "closed" THEN "answered" ELSE "raised"]
    /\ Close({r})
    /\ UNCHANGED <<bootSetup, life, warm, app, maint, pinging, storeUp>>

\* unhandled_error_response: a turn that _open_buffer finds is closed as an error if the
\* store lets it be; a flushed buffer is no longer among the open ones, and stays rearmed.
\* The answer is 200 either way; _last_resort_error_response needs nothing.
unhandled_error_response(r) ==
    /\ request[r] \in {"running", "raised"}
    /\ request' = [request EXCEPT ![r] = "apologised"]
    /\ IF buffer[r] = "held" THEN Close({r}) ELSE KeepTurns
    /\ UNCHANGED <<bootSetup, life, warm, app, maint, pinging, storeUp>>

-----------------------------------------------------------------------------
(* The shutdown: the signal handler flushes the open turns and hands over; *)
(* requests still running are cut off; then comes lifespan's finally.  A   *)
(* cancelled task is awaited, the thread of a pass is not.                 *)
Signalled ==
    /\ Serving /\ ~life.signalled
    /\ life' = [life EXCEPT !.signalled = TRUE]
    /\ flush_open_turns
    /\ UNCHANGED <<bootSetup, warm, app, maint, pinging, request, storeUp>>

ShutdownBegins ==
    /\ Serving /\ life.signalled
    /\ life' = [life EXCEPT !.phase = "closing"]
    /\ request' = [r \in Requests |-> IF request[r] \in {"running", "raised"} THEN "cut" ELSE request[r]]
    /\ UNCHANGED <<bootSetup, warm, app, maint, pinging, storeUp>> /\ KeepTurns

CancelTasks ==
    /\ life.phase = "closing"
    /\ life' = [life EXCEPT !.phase = "awaiting"]
    /\ warm' = CASE warm.at \in {"start", "discovering", "opening"} -> [warm EXCEPT !.at = "ended"]
                 [] warm.at = "calling" -> [warm EXCEPT !.at = "closing"]
                 [] OTHER -> warm
    /\ maint' = [maint EXCEPT !.task = "cancelled"]
    /\ pinging' = FALSE
    /\ UNCHANGED <<bootSetup, app, request, storeUp>> /\ KeepTurns

FlushOpenTurns ==
    /\ life.phase = "awaiting" /\ warm.at = "ended"
    /\ life' = [life EXCEPT !.phase = "stopped"]
    /\ flush_open_turns
    /\ UNCHANGED <<bootSetup, warm, app, maint, pinging, request, storeUp>>

BootNext ==
    \/ BootStep \/ BootFails \/ StoreFlips \/ Signalled \/ ShutdownBegins \/ CancelTasks \/ FlushOpenTurns
    \/ WarmStart \/ WarmOpens \/ WarmCloses \/ DeadlinePasses \/ _maintenance_pass
    \/ \E ok \in BOOLEAN : WarmDiscover(ok) \/ WarmCall(ok) \/ PassReturns(ok)
    \/ \E r \in Requests : ChatOpens(r) \/ ChatCloses(r) \/ unhandled_error_response(r)

-----------------------------------------------------------------------------
(***************************************************************************)
(* Nothing the process does at its end leaves a turn open by itself: once  *)
(* lifespan is over, a row without ended_at is one whose close, the        *)
(* turn's own, the apology's, the handler's or the last flush's, met a     *)
(* store that did not answer; a process that says ready has completed a    *)
(* warm-up call and says no reason, however late; and a request that was   *)
(* answered let go of its buffer, which an apology leaves armed only where *)
(* a signal's flush has ended the row (lifespan, _warm_up, _open_buffer).  *)
(***************************************************************************)
ShutdownSettlesTurns ==
    /\ life.phase = "stopped" => openRows \subseteq lost
    /\ app.ready => app.reason = "none" /\ (bootSetup.embed_warmup => app.proved)
    /\ \A r \in Requests :
          /\ request[r] = "answered" => buffer[r] = "closed"
          /\ request[r] = "apologised" =>
                \/ buffer[r] = "closed"
                \/ buffer[r] = "rearmed" /\ r \notin openRows /\ life.signalled
=============================================================================
