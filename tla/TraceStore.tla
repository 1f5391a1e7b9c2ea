------------------------------ MODULE TraceStore ------------------------------
(***************************************************************************)
(* The trace store under its writers: turns that open, mint, close and     *)
(* reopen on the event loop, the MCP server that spends a card and then    *)
(* inserts its write, and the maintenance thread's retention.sweep, a      *)
(* SELECT and then a batch.  A batch is one transaction on either backend, *)
(* a single statement commits by itself.  SQLite enforces the foreign      *)
(* keys; of Turso the code establishes nothing, and the model has it       *)
(* enforce none.  Over Turso the answer to a committed batch can be lost.  *)
(***************************************************************************)
EXTENDS Integers, FiniteSets, FiniteSetsExt

CONSTANTS
    Sessions,        \* session ids; each runs one turn at a time
    Keep,            \* trace_retention_sessions
    MaxStamp         \* bound: sessions are created at moments 1..MaxStamp

ASSUME StoreConstants == Keep \in Nat /\ MaxStamp \in Nat

VARIABLES
    backend,      \* build_store: "sqlite" or "turso"
    rows,         \* each session's rows: session, turn, spans, card and write
    filing,       \* sessions whose card the MCP server has spent and not yet filed the write of
    memory,       \* each session's open TurnBuffer: whether there is one, and unflushed spans
    pass,         \* the maintenance pass: where it is and the sessions it has chosen
    lateWrite,    \* history: sessions whose write came after they were chosen
    lateFlush,    \* history: sessions a flush wrote to after they were pruned
    cardLost      \* history: sessions pruned of a card that a write was being filed under

storeVars == <<backend, rows, filing, memory, pass, lateWrite, lateFlush, cardLost>>

NoRows == [session |-> 0, exempt |-> FALSE, turn |-> FALSE, spans |-> FALSE, card |-> "none", write |-> FALSE]

\* TURSO when it is asked for (or auto) and configured, else SQLite.
build_store == {"sqlite", "turso"}

StoreInit ==
    /\ backend \in build_store
    /\ rows = [s \in Sessions |-> NoRows]
    /\ memory = [s \in Sessions |-> [open |-> FALSE, spans |-> FALSE]]
    /\ pass = [at |-> "idle", doomed |-> {}]
    /\ filing = {}
    /\ lateWrite = {} /\ lateFlush = {} /\ cardLost = {}

-----------------------------------------------------------------------------
(* start_turn: one batch, SESSION_UPSERT and TURN_INSERT.  An upsert leaves *)
(* created_at alone.  Sessions of an evaluation, of its judge and of the    *)
(* maintenance are exempt from retention.                                   *)
HasSession(s) == rows[s].session > 0

LastStamp == Max({rows[s].session : s \in Sessions})

StartTurnIn(s, exempt) ==
    /\ ~memory[s].open
    /\ rows[s].session > 0 \/ LastStamp < MaxStamp
    /\ rows' = [rows EXCEPT ![s].session = IF @ > 0 THEN @ ELSE LastStamp + 1,
                            ![s].exempt = IF rows[s].session > 0 THEN @ ELSE exempt,
                            ![s].turn = TRUE]
    /\ memory' = [memory EXCEPT ![s] = [open |-> TRUE, spans |-> FALSE]]
    /\ UNCHANGED <<backend, filing, pass, lateWrite, lateFlush, cardLost>>

RecordSpan(s) ==
    /\ memory[s].open /\ ~memory[s].spans
    /\ memory' = [memory EXCEPT ![s].spans = TRUE]
    /\ UNCHANGED <<backend, rows, filing, pass, lateWrite, lateFlush, cardLost>>

\* spans.turn_id REFERENCES turns(id): SQLite refuses the whole batch.
ForeignKeyHolds(s) == backend = "sqlite" => rows[s].turn

\* close(): the spans and the turn's UPDATE in one batch; the buffer has given
\* its spans up before it.
CloseTurn(s, reachesStore) ==
    LET stored == reachesStore /\ ForeignKeyHolds(s) /\ memory[s].spans IN
    /\ memory[s].open
    /\ rows' = IF stored THEN [rows EXCEPT ![s].spans = TRUE] ELSE rows
    /\ lateFlush' = IF stored /\ ~rows[s].turn THEN lateFlush \cup {s} ELSE lateFlush
    /\ memory' = [memory EXCEPT ![s] = [open |-> FALSE, spans |-> FALSE]]
    /\ UNCHANGED <<backend, filing, pass, lateWrite, cardLost>>

\* reopen_turn: the row of the turn is read first.
ReopenTurn(s) ==
    /\ ~memory[s].open /\ rows[s].turn
    /\ memory' = [memory EXCEPT ![s] = [open |-> TRUE, spans |-> FALSE]]
    /\ UNCHANGED <<backend, rows, filing, pass, lateWrite, lateFlush, cardLost>>

\* The web tier mints the card of a turn.  A session has one card at a time: no new
\* one while a write is being filed or stands.
MintCard(s) ==
    /\ memory[s].open /\ rows[s].card = "none"
    /\ s \notin filing /\ ~rows[s].write
    /\ rows' = [rows EXCEPT ![s].card = "unused"]
    /\ cardLost' = cardLost \ {s}
    /\ UNCHANGED <<backend, filing, memory, pass, lateWrite, lateFlush>>

\* consume, in the MCP server: the UPDATE of an unused card ...
SpendCard(s) ==
    /\ rows[s].card = "unused"
    /\ rows' = [rows EXCEPT ![s].card = "used"]
    /\ filing' = filing \cup {s}
    /\ UNCHANGED <<backend, memory, pass, lateWrite, lateFlush, cardLost>>

\* ... and the INSERT of the write, a statement of its own: it may fail or never be
\* sent, and SQLite refuses it when the card it cites is gone
\* (confirmation_token REFERENCES confirmations(token)).
InsertWrite(s, reachesStore) ==
    LET stored == reachesStore /\ (backend = "sqlite" => rows[s].card = "used") IN
    /\ s \in filing
    /\ filing' = filing \ {s}
    /\ rows' = IF stored THEN [rows EXCEPT ![s].write = TRUE] ELSE rows
    /\ lateWrite' = IF stored /\ (s \in pass.doomed \/ ~HasSession(s)) THEN lateWrite \cup {s} ELSE lateWrite
    /\ UNCHANGED <<backend, memory, pass, lateFlush, cardLost>>

\* The dashboard's Reset sandbox: DELETE FROM mock_writes, and nothing else.
ResetSandbox ==
    /\ \E s \in Sessions : rows[s].write
    /\ rows' = [s \in Sessions |-> [rows[s] EXCEPT !.write = FALSE]]
    /\ UNCHANGED <<backend, filing, memory, pass, lateWrite, lateFlush, cardLost>>

-----------------------------------------------------------------------------
(* retention.sweep.                                                        *)
AmongTheNewest(s) ==
    Cardinality({r \in Sessions : HasSession(r) /\ rows[r].session > rows[s].session}) < Keep

PRUNABLE_SESSIONS ==
    {s \in Sessions : HasSession(s) /\ ~rows[s].exempt /\ ~rows[s].write /\ ~AmongTheNewest(s)}

SelectPrunable ==
    /\ pass.at = "idle"
    /\ pass' = IF PRUNABLE_SESSIONS = {} THEN [at |-> "idle", doomed |-> {}]
               ELSE [at |-> "pruning", doomed |-> PRUNABLE_SESSIONS]
    /\ lateWrite' = {s \in lateWrite : ~HasSession(s)}
    /\ UNCHANGED <<backend, rows, filing, memory, lateFlush, cardLost>>

\* Faulty: every card of a pruned session goes.
PrunedWithItsCards(r) == [NoRows EXCEPT !.write = r.write]

\* What the five DELETEs leave of a session: a card that a write cites stays, and so
\* does the write.  A card that is spent and not yet cited goes.
Pruned5(r) == [NoRows EXCEPT !.card = IF r.write THEN r.card ELSE "none", !.write = r.write]

\* committed: over Turso the batch may commit and its answer be lost; the sweep
\* raises then, as it does when nothing was committed, and the pass is over.
DeletePruned(committed, answered) ==
    /\ pass.at = "pruning"
    /\ answered => committed
    /\ (committed /\ ~answered) => backend = "turso"
    /\ rows' = IF committed THEN [s \in Sessions |-> IF s \in pass.doomed THEN Pruned5(rows[s]) ELSE rows[s]]
               ELSE rows
    /\ lateFlush' = IF committed THEN lateFlush \ pass.doomed ELSE lateFlush
    /\ cardLost' = IF committed THEN cardLost \cup (pass.doomed \cap filing) ELSE cardLost
    /\ pass' = [at |-> "idle", doomed |-> {}]
    /\ UNCHANGED <<backend, filing, memory, lateWrite>>

StoreNext ==
    \/ \E s \in Sessions, exempt \in BOOLEAN : StartTurnIn(s, exempt)
    \/ \E s \in Sessions : RecordSpan(s) \/ MintCard(s) \/ SpendCard(s)
    \/ \E s \in Sessions, reaches \in BOOLEAN : InsertWrite(s, reaches) \/ CloseTurn(s, reaches)
    \/ \E s \in Sessions : ReopenTurn(s)
    \/ ResetSandbox \/ SelectPrunable
    \/ \E committed, answered \in BOOLEAN : DeletePruned(committed, answered)

-----------------------------------------------------------------------------
(***************************************************************************)
(* However turns, a sweep, a write that is being filed and a reset         *)
(* interleave: over SQLite a write keeps the used card that authorised it, *)
(* and over Turso it lacks it only if a sweep deleted the card between the *)
(* card's UPDATE and the write's INSERT; a session is gone while its write *)
(* is there only if the INSERT came after the sweep had selected the       *)
(* session; and spans outlive their turn only over Turso, written by a     *)
(* turn that was still open when it was pruned (retention.sweep, consume). *)
(***************************************************************************)
RetentionKeepsTheRecord ==
    \A s \in Sessions :
        /\ rows[s].write => rows[s].card = "used" \/ (backend = "turso" /\ s \in cardLost)
        /\ (rows[s].write /\ ~HasSession(s)) => s \in lateWrite
        /\ (rows[s].turn => HasSession(s))
        /\ (rows[s].spans /\ ~rows[s].turn) => (backend = "turso" /\ s \in lateFlush)
=============================================================================
