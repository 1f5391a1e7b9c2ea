---------------------------- MODULE ConfirmGate ----------------------------
(***************************************************************************)
(* The server side of the confirmation gate: mcpserver/confirm.py and the  *)
(* two write tools that call it.  `mint` inserts a row of `confirmations`; *)
(* a tool call runs `validate` and then `consume` in a worker thread of    *)
(* its own, so every statement of one call may interleave with every       *)
(* statement of another, with the clock, with a statement that fails, with *)
(* the end of the process, and with the two that delete rows: the          *)
(* dashboard's Reset sandbox and the retention sweep.                      *)
(*                                                                         *)
(* A write is a tool name together with its canonical arguments: the gate  *)
(* compares both for equality and looks at nothing else in them.           *)
(***************************************************************************)
EXTENDS Naturals, Sequences

CONSTANTS
    Tokens,    \* what secrets.token_urlsafe(32) can draw
    NoToken,   \* the confirmation_token of a call that carries none
    Writes,    \* tool name plus canonical arguments
    NoWrite,   \* a thread that runs no call
    Calls,     \* worker threads running a write tool
    NoCall,    \* nobody holds _write_lock
    TokenTTL,  \* TOKEN_TTL_S
    MaxTime,   \* bound on the clock
    ForeignKeys  \* whether the store enforces them: SQLite does, of Turso
                 \* nothing is established (provision_turso.py)

ASSUME GateAssumption ==
    /\ NoToken \notin Tokens
    /\ NoWrite \notin Writes
    /\ NoCall \notin Calls
    /\ TokenTTL \in Nat \ {0}
    /\ MaxTime \in Nat
    /\ ForeignKeys \in BOOLEAN

VARIABLES
    now,            \* now_micros()
    confirmations,  \* the table: minted token -> its row
    mockWrites,     \* the table, in rowid order
    writeLock,      \* who holds _write_lock
    call,           \* the worker threads
    pruned,         \* history: tokens whose row retention has deleted
    cleared         \* history: tokens whose write the reset has deleted

deleted  == <<pruned, cleared>>
gateVars == <<now, confirmations, mockWrites, writeLock, call, deleted>>

Unused == MaxTime + 1     \* used_at IS NULL
Times  == 0 .. MaxTime

Responses == {"confirmed", "declined"}

Row == [write : Writes, expires : Nat, used : Times \cup {Unused},
        response : Responses]

NoRow == [write |-> NoWrite, expires |-> 0, used |-> Unused,
          response |-> "none"]

Idle == [pc |-> "idle", token |-> NoToken, write |-> NoWrite, row |-> NoRow,
         number |-> 0]

\* The program counter names the statement the thread runs next; the last
\* three are the answers: created, CONFIRMATION_REQUIRED, a tool error.
Answers == {"created", "rejected", "failed"}
Running == {"load", "check", "lock", "spend", "append", "readback"}

Threads == [pc : {"idle"} \cup Running \cup Answers,
            token : Tokens \cup {NoToken}, write : Writes \cup {NoWrite},
            row : Row \cup {NoRow}, number : Nat]

-----------------------------------------------------------------------------
GateInit ==
    /\ now = 0
    /\ confirmations = [t \in {} |-> NoRow]
    /\ mockWrites = <<>>
    /\ writeLock = NoCall
    /\ call = [c \in Calls |-> Idle]
    /\ pruned = {}
    /\ cleared = {}

Minted == DOMAIN confirmations

Tick ==
    /\ now < MaxTime
    /\ now' = now + 1
    /\ UNCHANGED <<confirmations, mockWrites, writeLock, call, deleted>>

\* secrets.token_urlsafe never draws a token again, also not one that is gone.
Fresh == Tokens \ (Minted \cup pruned)

\* mint(): a fresh token, bound to one write and one decision.
Mint(t, w, response) ==
    /\ t \in Fresh
    /\ confirmations' = [u \in Minted \cup {t} |->
            IF u = t THEN [write |-> w, expires |-> now + TokenTTL,
                           used |-> Unused, response |-> response]
                     ELSE confirmations[u]]
    /\ UNCHANGED <<now, mockWrites, writeLock, call, deleted>>

-----------------------------------------------------------------------------
\* The steps of one call.

Goto(c, pc) == call' = [call EXCEPT ![c].pc = pc]

\* The tool is called with whatever token the caller sent, or with none.
Receive(c, t, w) ==
    /\ call[c].pc = "idle"
    /\ call' = [call EXCEPT ![c] = [pc |-> "load", token |-> t, write |-> w,
                                    row |-> NoRow, number |-> 0]]
    /\ UNCHANGED <<now, confirmations, mockWrites, writeLock, deleted>>

\* validate(): no token, or a token no row has, is rejected; else the row as
\* it is now is what the remaining checks look at.
Load(c) ==
    /\ call[c].pc = "load"
    /\ IF call[c].token \in Minted
       THEN call' = [call EXCEPT ![c].pc = "check",
                                 ![c].row = confirmations[call[c].token]]
       ELSE Goto(c, "rejected")
    /\ UNCHANGED <<now, confirmations, mockWrites, writeLock, deleted>>

\* Faulty: the user_response check is missing.
ValidWhateverAnswered(row, w) ==
    row.used = Unused /\ row.expires > now /\ row.write = w

\* The checks of validate() over the row it has read.
Valid(row, w) ==
    /\ row.used = Unused
    /\ row.expires > now
    /\ row.response = "confirmed"
    /\ row.write = w

Check(c) ==
    /\ call[c].pc = "check"
    /\ Goto(c, IF Valid(call[c].row, call[c].write) THEN "lock" ELSE "rejected")
    /\ UNCHANGED <<now, confirmations, mockWrites, writeLock, deleted>>

\* Faulty: the row is appended without spending the token.
LockAndAppend(c) ==
    /\ call[c].pc = "lock"
    /\ writeLock = NoCall
    /\ writeLock' = c
    /\ Goto(c, "append")
    /\ UNCHANGED <<now, confirmations, mockWrites, deleted>>

\* consume(), inside `with _write_lock`.
Lock(c) ==
    /\ call[c].pc = "lock"
    /\ writeLock = NoCall
    /\ writeLock' = c
    /\ Goto(c, "spend")
    /\ UNCHANGED <<now, confirmations, mockWrites, deleted>>

\* Faulty: UPDATE without its `used_at IS NULL` predicate.
SpendableAnyway(t) == t \in Minted

Spendable(t) == t \in Minted /\ confirmations[t].used = Unused

\* used_at is read before the lock is taken; nothing asks more of it than whether
\* it is NULL.
MarkUsed(t) == confirmations' = [confirmations EXCEPT ![t].used = now]

\* UPDATE ... WHERE token = ? AND used_at IS NULL; anything but one row
\* affected raises, which leaves the with-block.
Spend(c) ==
    /\ call[c].pc = "spend"
    /\ IF Spendable(call[c].token)
       THEN /\ MarkUsed(call[c].token)
            /\ Goto(c, "append")
            /\ UNCHANGED writeLock
       ELSE /\ Goto(c, "rejected")
            /\ writeLock' = NoCall
            /\ UNCHANGED confirmations
    /\ UNCHANGED <<now, mockWrites, deleted>>

\* Faulty: counts down from the highest rowid.
PreviousNumber == Len(mockWrites) - 1

\* MAX(rowid) + 1, read inside the INSERT: the rows are only ever deleted all at
\* once, and then the numbers begin again.
NextNumber == Len(mockWrites) + 1

AppendRow(c) ==
    mockWrites' = Append(mockWrites,
        [number |-> NextNumber, token |-> call[c].token, write |-> call[c].write])

\* mock_writes.confirmation_token REFERENCES confirmations(token).
Accepted(t) == ForeignKeys => t \in Minted

\* An INSERT that is not accepted raises: StoreFails.
AppendWrite(c) ==
    /\ call[c].pc = "append"
    /\ Accepted(call[c].token)
    /\ AppendRow(c)
    /\ Goto(c, "readback")
    /\ UNCHANGED <<now, confirmations, writeLock, deleted>>

\* Faulty: the SELECT looks for any row.
AnyRow(t) == DOMAIN mockWrites

RowsOf(t) == {i \in DOMAIN mockWrites : mockWrites[i].token = t}

\* SELECT id ... WHERE confirmation_token = ?; with no such row the answer is
\* created all the same, its id the text of None.
ReadBack(c) ==
    /\ call[c].pc = "readback"
    /\ \E n \in IF RowsOf(call[c].token) = {} THEN {0}
               ELSE {mockWrites[i].number : i \in RowsOf(call[c].token)} :
          call' = [call EXCEPT ![c].pc = "created", ![c].number = n]
    /\ writeLock' = NoCall
    /\ UNCHANGED <<now, confirmations, mockWrites, deleted>>

\* The answer leaves the thread.
Reply(c) ==
    /\ call[c].pc \in Answers
    /\ call' = [call EXCEPT ![c] = Idle]
    /\ UNCHANGED <<now, confirmations, mockWrites, writeLock, deleted>>

\* A statement that raises StoreError.  Over HTTP the statement may have been
\* applied all the same: only its response was lost.
StoreFails(c) ==
    /\ call[c].pc \in {"load", "spend", "append", "readback"}
    /\ \/ UNCHANGED <<confirmations, mockWrites>>
       \/ /\ call[c].pc = "spend"
          /\ Spendable(call[c].token)
          /\ MarkUsed(call[c].token)
          /\ UNCHANGED mockWrites
       \/ /\ call[c].pc = "append"
          /\ Accepted(call[c].token)
          /\ AppendRow(c)
          /\ UNCHANGED confirmations
    /\ Goto(c, "failed")
    /\ writeLock' = IF writeLock = c THEN NoCall ELSE writeLock
    /\ UNCHANGED <<now, deleted>>

\* The process ends and starts again: threads and lock go, tables stay.
Crash ==
    /\ call' = [c \in Calls |-> Idle]
    /\ writeLock' = NoCall
    /\ UNCHANGED <<now, confirmations, mockWrites, deleted>>

-----------------------------------------------------------------------------
\* The two statements that delete.

TokensFiled == {mockWrites[i].token : i \in DOMAIN mockWrites}

\* The dashboard's Reset sandbox: DELETE FROM mock_writes.
ResetSandbox ==
    /\ mockWrites' = <<>>
    /\ cleared' = cleared \cup TokensFiled
    /\ UNCHANGED <<now, confirmations, writeLock, call, pruned>>

\* Faulty: the DELETE without its NOT IN (SELECT confirmation_token ...).
UncitedOrNot == Minted

Uncited == Minted \ TokensFiled

\* retention.sweep's batch, as far as confirmations go: the rows of the sessions
\* it has chosen (any here), less those a row of mock_writes cites.
Prune(gone) ==
    /\ gone # {}
    /\ confirmations' = [t \in Minted \ gone |-> confirmations[t]]
    /\ pruned' = pruned \cup gone
    /\ UNCHANGED <<now, mockWrites, writeLock, call, cleared>>

-----------------------------------------------------------------------------
CallStep(c) ==
    \/ Load(c) \/ Check(c) \/ Lock(c) \/ Spend(c)
    \/ AppendWrite(c) \/ ReadBack(c) \/ StoreFails(c)

GateNext ==
    \/ Tick
    \/ Crash
    \/ \E t \in Tokens, w \in Writes, r \in Responses : Mint(t, w, r)
    \/ \E c \in Calls :
          \/ \E t \in Tokens \cup {NoToken}, w \in Writes : Receive(c, t, w)
          \/ CallStep(c)
          \/ Reply(c)
    \/ ResetSandbox
    \/ \E gone \in SUBSET Uncited : Prune(gone)

GateSpec == GateInit /\ [][GateNext]_gateVars

-----------------------------------------------------------------------------
\* Properties

\* Every table and every thread holds what the code can put there.
GateTypeOK ==
    /\ now \in Times
    /\ Minted \subseteq Tokens
    /\ \A t \in Minted : confirmations[t] \in Row
    /\ mockWrites \in Seq([number : Nat, token : Tokens, write : Writes])
    /\ writeLock \in Calls \cup {NoCall}
    /\ call \in [Calls -> Threads]
    /\ pruned \subseteq Tokens
    /\ cleared \subseteq Tokens

\* "Never a write without a confirmation" (confirm.py, consume): every row of
\* mock_writes carries a token that was minted, confirmed by the human and
\* spent, and the write filed is the write that was confirmed, whichever
\* thread filed it, whatever failed on the way and whatever retention deletes.
\* It takes the foreign key: between the UPDATE and the INSERT no row cites the
\* token, and without it the INSERT finds the confirmation gone and goes ahead.
WritesConfirmed ==
    \A i \in DOMAIN mockWrites :
        LET t == mockWrites[i].token IN
        /\ t \in Minted
        /\ confirmations[t].response = "confirmed"
        /\ confirmations[t].used # Unused
        /\ confirmations[t].write = mockWrites[i].write

\* A token is good for one write, also when two threads validated it before
\* either of them spent it, and when a lost response makes a caller ask again.
OneWritePerToken ==
    \A i, j \in DOMAIN mockWrites :
        mockWrites[i].token = mockWrites[j].token => i = j

\* The answer "created" is the truth and is given once: it names the row this
\* call appended, and no other thread answers for the same token or names the
\* same row.  The one exception is a write that Reset sandbox has deleted: then
\* there may be no row, the number told is none if the reset came before the
\* SELECT, and it may be given again.
CreatedIsTrue ==
    \A c \in Calls : call[c].pc = "created" =>
        /\ \/ call[c].token \in cleared
           \/ \E i \in DOMAIN mockWrites :
                 /\ mockWrites[i].number = call[c].number
                 /\ mockWrites[i].token = call[c].token
                 /\ mockWrites[i].write = call[c].write
        /\ \A d \in Calls \ {c} : call[d].pc = "created" =>
               /\ call[d].token # call[c].token
               /\ call[d].number = call[c].number =>
                     {call[c].token, call[d].token} \cap cleared # {}

\* The record of a decision is never rewritten, only dropped as a whole, and
\* never while a write cites it: a row of confirmations keeps its write, its
\* decision and the moment it was spent; the rows of mock_writes stay as they
\* are until all of them go; and a write that is gone is not filed again.
SpentForGood ==
    [][/\ \A t \in Minted :
             \/ /\ t \in Minted'
                /\ confirmations'[t].write = confirmations[t].write
                /\ confirmations'[t].response = confirmations[t].response
                /\ confirmations[t].used # Unused =>
                      confirmations'[t].used = confirmations[t].used
             \/ t \notin Minted' /\ t \notin TokensFiled
       /\ \/ mockWrites' = <<>>
          \/ \A i \in DOMAIN mockWrites :
                i \in DOMAIN mockWrites' /\ mockWrites'[i] = mockWrites[i]
       /\ cleared \cap TokensFiled' = {}]_gateVars

\* The gate implements the ledger.
PhaseOf(t) ==
    IF t \in TokensFiled THEN "written"
    ELSE IF t \in cleared THEN "cleared"
    ELSE IF t \in pruned THEN "gone"
    ELSE IF t \notin Minted THEN "unminted"
    ELSE IF confirmations[t].used # Unused THEN "spent"
    ELSE confirmations[t].response

Ledger == INSTANCE TokenLedger WITH phase <- [t \in Tokens |-> PhaseOf(t)]

\* Whatever the threads, the clock, the store, the process, the reset and the
\* retention sweep do, each token only moves forward along the ledger's road:
\* minted, spent, written, and off the record at one of its marked exits.
ImplementsLedger == Ledger!Spec
=============================================================================
